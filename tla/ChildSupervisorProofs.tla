----------------------- MODULE ChildSupervisorProofs -----------------------
(***************************************************************************)
(* Theorems about ChildSupervisor for every protocol, capacity, helper and *)
(* schedule.  First, what the caller knows about the child it started      *)
(* agrees with what the kernel knows, and nobody waits for what nobody     *)
(* owes.  Then, the lines the caller counts and checks are the lines of    *)
(* what the helper wrote, however its bytes were cut into reads and its    *)
(* lines into events, so success means the complete protocol and a         *)
(* conforming helper is refused for nothing it wrote.                      *)
(***************************************************************************)
EXTENDS ChildSupervisor, SequenceTheorems, FiniteSetTheorems, TLAPS

StdoutEvents == [kind : {"line", "error", "done"}, bytes : ByteStrings]

-----------------------------------------------------------------------------
(* Types.                                                                  *)

\* The events the stdout thread sends.
LEMMA EventType ==
    ASSUME TypeOK
    PROVE  /\ [kind |-> "error", bytes |-> <<>>] \in StdoutEvents
           /\ [kind |-> "done", bytes |-> <<>>] \in StdoutEvents
           /\ [kind |-> "line", bytes |-> line] \in StdoutEvents
           /\ \A event \in StdoutEvents : Append(channel, event) \in Seq(StdoutEvents)
<1>1. line \in ByteStrings /\ channel \in Seq(StdoutEvents) /\ <<>> \in ByteStrings
  BY DEF TypeOK, StdoutEvents, ByteStrings
<1> QED
  BY <1>1 DEF StdoutEvents

\* The helper and the clock keep the types.
LEMMA HelperType ==
    ASSUME TypeOK, Helper \/ DrainStderr \/ DeadlinePasses
    PROVE  TypeOK'
<1> USE SupervisorAssumption
<1>1. ASSUME NEW byte \in Bytes, HelperWrites(byte) PROVE TypeOK'
  <2>1. Append(pipe, byte) \in ByteStrings /\ Append(wrote, byte) \in ByteStrings
    BY DEF TypeOK, ByteStrings
  <2> QED
    BY <1>1, <2>1 DEF HelperWrites, TypeOK, stdoutThread, collected, world
<1>2. CASE HelperWritesStderr
  BY <1>2 DEF HelperWritesStderr, TypeOK, child, stdoutThread, collected
<1>3. CASE HelperClosesStdout
  <2>1. outOpen' \in BOOLEAN
    BY <1>3 DEF HelperClosesStdout
  <2>2. UNCHANGED <<helper, exitCode, killed, wrote, pipe, spc, stdoutThread, channel, collected,
                    reaped, failure, waitErrors, result, world>>
    BY <1>3 DEF HelperClosesStdout
  <2> QED
    BY <2>1, <2>2 DEF TypeOK, stdoutThread, collected, world
<1>4. CASE HelperStops
  <2>1. outOpen' \in BOOLEAN /\ helper' = "zombie"
    BY <1>4 DEF HelperStops
  <2>2. exitCode' \in {"zero", "special", "other", "signal"}
    BY <1>4 DEF HelperStops
  <2>3. UNCHANGED <<killed, wrote, pipe, spc, stdoutThread, channel, collected, reaped, failure,
                    waitErrors, result, world>>
    BY <1>4 DEF HelperStops
  <2> QED
    BY <2>1, <2>2, <2>3 DEF TypeOK, stdoutThread, collected, world
<1>5. CASE DrainStderr
  BY <1>5 DEF DrainStderr, TypeOK, child, stdoutThread, collected
<1>6. CASE DeadlinePasses
  BY <1>6 DEF DeadlinePasses, TypeOK, child, stdoutThread, collected
<1> QED
  BY <1>1, <1>2, <1>3, <1>4, <1>5, <1>6 DEF Helper

\* The stdout thread keeps the types.
LEMMA ReaderType ==
    ASSUME TypeOK, StdoutReader
    PROVE  TypeOK'
<1> USE DEF child, collected, world
<1>0. /\ pipe \in Seq(Bytes) /\ chunk \in Seq(Bytes) /\ line \in Seq(Bytes)
      /\ channel \in Seq(StdoutEvents)
  BY DEF TypeOK, ByteStrings, StdoutEvents
<1>1. ASSUME NEW n \in 1..PipeCapacity, ReadChunk(n) PROVE TypeOK'
  <2>1. n \in 1..Len(pipe) /\ Len(pipe) \in Nat /\ n \in Nat
    BY <1>0, <1>1 DEF ReadChunk
  <2>2. SubSeq(pipe, n + 1, Len(pipe)) \in ByteStrings /\ SubSeq(pipe, 1, n) \in ByteStrings
    BY <1>0, <2>1 DEF ByteStrings
  <2>3. total' \in Nat
    BY <1>1, <2>1 DEF ReadChunk, TypeOK
  <2>4. pipe' \in ByteStrings /\ chunk' \in ByteStrings
    BY <1>1, <2>2 DEF ReadChunk, TypeOK
  <2>5. channel' \in Seq(StdoutEvents) /\ reader' \in {"none", "reading", "returned"}
    BY <1>0, <1>1, EventType DEF ReadChunk, Send, TypeOK
  <2> QED
    BY <1>1, <2>3, <2>4, <2>5 DEF ReadChunk, TypeOK, StdoutEvents
<1>2. CASE ReadByte
  <2>1. chunk # <<>>
    BY <1>2 DEF ReadByte
  <2>2. Head(chunk) \in Bytes /\ Tail(chunk) \in Seq(Bytes)
    BY <1>0, <2>1
  <2>3. chunk' \in ByteStrings /\ line' \in ByteStrings
    <3>1. <<>> \in Seq(Bytes) /\ Append(line, Head(chunk)) \in Seq(Bytes)
      BY <1>0, <2>2
    <3>2. chunk' = Tail(chunk) /\ line' \in {<<>>, Append(line, Head(chunk))}
      BY <1>2 DEF ReadByte
    <3> QED
      BY <2>2, <3>1, <3>2 DEF ByteStrings
  <2>4. channel' \in Seq(StdoutEvents) /\ reader' \in {"none", "reading", "returned"}
    BY <1>0, <1>2, EventType DEF ReadByte, Send, TypeOK
  <2> QED
    BY <1>2, <2>3, <2>4 DEF ReadByte, TypeOK, StdoutEvents
<1>3. CASE ReadError
  <2>1. channel' \in Seq(StdoutEvents)
    BY <1>3, EventType DEF ReadError, Send
  <2> QED
    BY <1>3, <2>1 DEF ReadError, TypeOK, StdoutEvents
<1>4. CASE ReadEnd
  <2>1. Tailed \in Seq(StdoutEvents)
    BY EventType DEF Tailed
  <2>2. <<[kind |-> "done", bytes |-> <<>>]>> \in Seq(StdoutEvents)
    BY EventType
  <2>3. channel \o Tailed \o <<[kind |-> "done", bytes |-> <<>>]>> \in Seq(StdoutEvents)
    BY <1>0, <2>1, <2>2
  <2> QED
    BY <1>4, <2>3 DEF ReadEnd, TypeOK, StdoutEvents
<1> QED
  BY <1>1, <1>2, <1>3, <1>4 DEF StdoutReader

\* The calling thread keeps the types.
LEMMA CallerType ==
    ASSUME TypeOK, Caller
    PROVE  TypeOK'
<1> USE DEF child, stdoutThread, collected, world
<1> DEFINE Results == [failure : {"pending", "none", "output", "spawn", "deadline", "special",
                                  "exit", "resource"},
                       metadata : Nat, measurements : Nat, resources : BOOLEAN]
<1>0. SupervisorAssumption /\ (reaped = "exact") \in BOOLEAN
  BY SupervisorAssumption
<1>1. \A code \in {"output", "spawn", "deadline", "special", "exit", "resource"},
         resources \in BOOLEAN : Failed(code, resources) \in Results
  BY DEF Failed
<1>2. CASE CheckBounds
  <2>1. result' \in {result, Failed("output", FALSE)} /\ spc' \in {"spawn", "returned"}
    BY <1>2 DEF CheckBounds, Return
  <2>2. Failed("output", FALSE) \in Results /\ result \in Results
    BY <1>1 DEF TypeOK
  <2>3. result' \in Results
    BY <2>1, <2>2
  <2>4. UNCHANGED <<child, pipe, stdoutThread, channel, collected, reaped, failure, waitErrors,
                    world>>
    BY <1>2 DEF CheckBounds
  <2> QED
    BY <2>1, <2>3, <2>4 DEF TypeOK
<1>3. CASE Spawn
  BY <1>3 DEF Spawn, TypeOK
<1>4. CASE SpawnFails
  <2>1. result' \in Results /\ spc' = "returned"
    BY <1>1, <1>4 DEF SpawnFails, Return
  <2>2. UNCHANGED <<child, pipe, stdoutThread, channel, collected, reaped, failure, waitErrors,
                    world>>
    BY <1>4 DEF SpawnFails
  <2> QED
    BY <2>1, <2>2 DEF TypeOK
<1>5. CASE LoopTop
  BY <1>5 DEF LoopTop, supervision_failure, TypeOK
<1>6. CASE ReceiveLine
  <2>1. channel' \in Seq(StdoutEvents)
    BY <1>6 DEF ReceiveLine, TypeOK, StdoutEvents
  <2>2. metadata' \in Nat /\ measurements' \in Nat
    BY <1>6 DEF ReceiveLine, TypeOK
  <2>3. failure' \in {"none", "output", "deadline"} /\ spc' \in {"terminate", "join", "loop", "poll"}
    BY <1>6 DEF ReceiveLine, supervision_failure, TypeOK
  <2> QED
    BY <1>6, <2>1, <2>2, <2>3 DEF ReceiveLine, TypeOK, StdoutEvents
<1>7. CASE ReceiveError
  <2>1. channel' \in Seq(StdoutEvents)
    BY <1>7 DEF ReceiveError, TypeOK, StdoutEvents
  <2> QED
    BY <1>7, <2>1 DEF ReceiveError, supervision_failure, TypeOK, StdoutEvents
<1>8. CASE ReceiveDone
  <2>1. channel' \in Seq(StdoutEvents)
    <3>1. channel' = channel \/ (channel # <<>> /\ channel' = Tail(channel))
      BY <1>8 DEF ReceiveDone
    <3>2. channel \in Seq(StdoutEvents)
      BY DEF TypeOK, StdoutEvents
    <3> QED
      BY <3>1, <3>2
  <2>2. stdoutDone' \in BOOLEAN /\ spc' = "poll"
    BY <1>8 DEF ReceiveDone
  <2>3. UNCHANGED <<child, pipe, stdoutThread, metadata, measurements, reaped, failure,
                    waitErrors, result, world>>
    BY <1>8 DEF ReceiveDone
  <2> QED
    BY <2>1, <2>2, <2>3 DEF TypeOK, StdoutEvents
<1>9. CASE ReceiveTimeout
  BY <1>9 DEF ReceiveTimeout, TypeOK
<1>10. WaitError => waitErrors' \in 0..MaxWaitErrors /\ UNCHANGED <<helper, reaped>>
  BY <1>0 DEF WaitError, TypeOK, SupervisorAssumption
<1>11. CASE Poll
  <2>1. /\ helper' \in {"none", "running", "zombie", "reaped"}
        /\ reaped' \in {"none", "exact", "error"} /\ waitErrors' \in 0..MaxWaitErrors
        /\ failure' \in {"none", "output", "deadline"} /\ spc' \in {"loop", "terminate", "join"}
    BY <1>10, <1>11 DEF Poll, Reap, supervision_failure, TypeOK
  <2> QED
    BY <1>11, <2>1 DEF Poll, TypeOK
<1>12. CASE Terminate
  <2>1. /\ helper' \in {"none", "running", "zombie", "reaped"}
        /\ reaped' \in {"none", "exact", "error"} /\ waitErrors' \in 0..MaxWaitErrors
        /\ spc' \in {"join", "kill", "killUnknown"}
    BY <1>10, <1>12 DEF Terminate, Reap, TypeOK
  <2> QED
    BY <1>12, <2>1 DEF Terminate, TypeOK
<1>13. CASE Kill
  BY <1>13 DEF Kill, TypeOK
<1>14. CASE ReapKilled
  <2>1. /\ helper' \in {"none", "running", "zombie", "reaped"}
        /\ reaped' \in {"none", "exact", "error"} /\ waitErrors' \in 0..MaxWaitErrors
        /\ spc' \in {"join", "lastWait"}
    BY <1>10, <1>14 DEF ReapKilled, Reap, TypeOK
  <2> QED
    BY <1>14, <2>1 DEF ReapKilled, TypeOK
<1>15. CASE LastWait
  <2>1. /\ helper' \in {"none", "running", "zombie", "reaped"}
        /\ reaped' \in {"none", "exact", "error"} /\ waitErrors' \in 0..MaxWaitErrors
    BY <1>0, <1>15 DEF LastWait, Reap, TypeOK, SupervisorAssumption
  <2> QED
    BY <1>15, <2>1 DEF LastWait, TypeOK
<1>16. CASE Join
  <2>1. completed_success \in Results
    BY <1>0, <1>1 DEF completed_success, TypeOK
  <2>2. Classified \in Results
    <3>1. failure \in {"none", "output", "deadline"}
      BY DEF TypeOK
    <3> QED
      BY <1>0, <1>1, <2>1, <3>1 DEF Classified
  <2>3. result' \in Results
    BY <1>16, <2>2 DEF Join, Return
  <2> QED
    BY <1>16, <2>3 DEF Join, Return, TypeOK
<1> QED
  BY <1>2, <1>3, <1>4, <1>5, <1>6, <1>7, <1>8, <1>9, <1>11, <1>12, <1>13, <1>14, <1>15, <1>16
     DEF Caller

\* Initially every variable has its type.
LEMMA TypeInit ==
    ASSUME Init PROVE TypeOK
<1>1. 0 \in 0..StderrCapacity /\ 0 \in 0..MaxWaitErrors
  BY SupervisorAssumption
<1>2. <<>> \in ByteStrings
      /\ <<>> \in Seq([kind : {"line", "error", "done"}, bytes : ByteStrings])
  BY DEF ByteStrings
<1>3. NoResult \in [failure : {"pending", "none", "output", "spawn", "deadline", "special",
                               "exit", "resource"},
                    metadata : Nat, measurements : Nat, resources : BOOLEAN]
  BY DEF NoResult
<1> QED
  BY <1>1, <1>2, <1>3 DEF Init, TypeOK

\* Type correctness of the supervisor, for every protocol and capacity: in
\* particular result.failure is always one of the codes execute documents.
THEOREM TypeCorrect == Spec => []TypeOK
<1>1. Init => TypeOK
  BY TypeInit
<1>2. TypeOK /\ [Next]_vars => TypeOK'
  <2> SUFFICES ASSUME TypeOK, [Next]_vars PROVE TypeOK'
    OBVIOUS
  <2>1. CASE UNCHANGED vars
    BY <2>1 DEF vars, TypeOK
  <2> QED
    BY <2>1, HelperType, ReaderType, CallerType DEF Next, Returned
<1> QED
  BY <1>1, <1>2, PTL DEF Spec

-----------------------------------------------------------------------------
(* The caller's view of the child.                                         *)

Terminating == {"terminate", "kill", "killUnknown", "reap", "lastWait"}

\* Outside the last two labels the caller knows exactly whether the child was
\* reaped; there, Child::wait may have failed too and left it unreaped.
KnowsReap ==
    /\ spc \notin {"join", "returned"} => (reaped = "none" <=> helper # "reaped")
    /\ spc \in Terminating => reaped = "none"
    /\ reaped = "exact" => helper = "reaped"

\* A child exists from the spawn on.
KnowsSpawn ==
    /\ spc \in {"check", "spawn"} => helper = "none"
    /\ spc \notin {"check", "spawn", "returned"} => helper # "none"

\* The wait errors that led to where the caller is.
CountsWaitErrors ==
    /\ spc \in {"killUnknown", "lastWait"} => waitErrors >= 1
    /\ spc = "join" /\ helper # "reaped" => waitErrors >= 2
    /\ spc = "returned" /\ helper \notin {"none", "reaped"} => waitErrors >= 2

ReapInv == TypeOK /\ KnowsReap /\ KnowsSpawn /\ CountsWaitErrors /\ ResourcesOnlyFromReap

\* The helper, the two reader threads and the clock cannot disturb it.
LEMMA ReapInvOthers ==
    ASSUME ReapInv, Helper \/ StdoutReader \/ DrainStderr \/ DeadlinePasses
    PROVE  ReapInv'
<1> USE DEF ReapInv, KnowsReap, KnowsSpawn, CountsWaitErrors, ResourcesOnlyFromReap, Terminating
<1>1. TypeOK'
  BY HelperType, ReaderType
<1>2. CASE HelperStops
  <2>1. /\ helper = "running" /\ helper' = "zombie"
        /\ UNCHANGED <<spc, reaped, waitErrors, result>>
    BY <1>2 DEF HelperStops
  <2> QED
    BY <1>1, <2>1
<1>3. CASE UNCHANGED <<spc, helper, reaped, waitErrors, result>>
  BY <1>1, <1>3
<1>4. HelperStops \/ UNCHANGED <<spc, helper, reaped, waitErrors, result>>
  BY DEF Helper, StdoutReader, HelperWrites, HelperWritesStderr, HelperClosesStdout,
     ReadChunk, ReadByte, ReadError, ReadEnd, DrainStderr, DeadlinePasses, child
<1> QED
  BY <1>2, <1>3, <1>4

\* Every step of the calling thread preserves it.
LEMMA ReapInvCaller ==
    ASSUME ReapInv, Caller
    PROVE  ReapInv'
<1> USE DEF ReapInv, KnowsReap, KnowsSpawn, CountsWaitErrors, ResourcesOnlyFromReap, Terminating
<1>1. TypeOK'
  BY CallerType
<1>2. /\ waitErrors \in Nat /\ reaped \in {"none", "exact", "error"}
      /\ helper \in {"none", "running", "zombie", "reaped"}
  BY SupervisorAssumption DEF TypeOK
<1>3. WaitError =>
        /\ helper = "reaped" \/ waitErrors' = waitErrors + 1
        /\ waitErrors' >= waitErrors
        /\ UNCHANGED <<helper, reaped>>
  BY <1>2 DEF WaitError
<1>4. CASE CheckBounds \/ SpawnFails
  <2>1. /\ UNCHANGED <<helper, reaped, waitErrors>> /\ helper = "none"
        /\ spc \in {"check", "spawn"} /\ spc' \in {"spawn", "returned"}
        /\ result' \in {result, Failed("output", FALSE), Failed("spawn", FALSE)}
    BY <1>4 DEF CheckBounds, SpawnFails, Return, child
  <2>2. result'.resources => result.resources
    BY <2>1 DEF Failed
  <2> QED
    BY <1>1, <2>1, <2>2
<1>5. CASE Spawn
  <2>1. /\ helper' = "running" /\ spc' = "loop" /\ helper = "none" /\ spc = "spawn"
        /\ UNCHANGED <<reaped, waitErrors, result>>
    BY <1>5 DEF Spawn
  <2> QED
    BY <1>1, <2>1
<1>6. CASE LoopTop \/ ReceiveLine \/ ReceiveError \/ ReceiveDone \/ ReceiveTimeout
  <2>1. /\ UNCHANGED <<helper, reaped, waitErrors, result>>
        /\ spc \in {"loop", "receive"}
        /\ \/ spc' \in {"loop", "receive", "poll"}
           \/ spc' = "terminate" /\ reaped = "none"
           \/ spc' = "join" /\ reaped # "none"
    BY <1>6 DEF LoopTop, ReceiveLine, ReceiveError, ReceiveDone, ReceiveTimeout,
       supervision_failure, child
  <2> QED
    BY <1>1, <2>1
<1>7. CASE Poll
  <2>1. /\ spc = "poll" /\ result' = result
        /\ \/ UNCHANGED <<helper, reaped, waitErrors>> /\ spc' = "loop"
           \/ /\ reaped = "none" /\ helper' = "reaped" /\ reaped' \in {"exact", "error"}
              /\ waitErrors' = waitErrors /\ spc' = "loop"
           \/ reaped = "none" /\ WaitError /\ spc' = "terminate"
    BY <1>7 DEF Poll, Reap, supervision_failure
  <2> QED
    BY <1>1, <1>2, <1>3, <2>1
<1>8. CASE Terminate \/ ReapKilled
  <2>1. /\ spc \in {"terminate", "reap"} /\ result' = result
        /\ \/ /\ helper' = "reaped" /\ reaped' \in {"exact", "error"}
              /\ waitErrors' = waitErrors /\ spc' = "join"
           \/ UNCHANGED <<helper, reaped, waitErrors>> /\ spc' = "kill"
           \/ WaitError /\ spc' \in {"killUnknown", "lastWait"}
    BY <1>8 DEF Terminate, ReapKilled, Reap
  <2> QED
    BY <1>1, <1>2, <1>3, <2>1
<1>9. CASE Kill
  <2>1. /\ UNCHANGED <<helper, reaped, waitErrors, result>>
        /\ \/ spc = "kill" /\ spc' = "reap"
           \/ spc = "killUnknown" /\ spc' = "lastWait"
    BY <1>9 DEF Kill
  <2> QED
    BY <1>1, <2>1
<1>10. CASE LastWait
  <2>1. /\ spc = "lastWait" /\ spc' = "join" /\ result' = result /\ reaped' = "error"
        /\ \/ helper' = "reaped" /\ waitErrors' = waitErrors
           \/ helper' = helper /\ waitErrors' = waitErrors + 1
    BY <1>10 DEF LastWait, Reap
  <2> QED
    BY <1>1, <1>2, <2>1
<1>11. CASE Join
  <2>1. /\ spc = "join" /\ spc' = "returned" /\ result' = Classified
        /\ UNCHANGED <<helper, reaped, waitErrors>>
    BY <1>11 DEF Join, Return, child
  <2>2. Classified.resources => reaped = "exact"
    BY DEF Classified, completed_success, Failed
  <2> QED
    BY <1>1, <2>1, <2>2
<1> QED
  BY <1>4, <1>5, <1>6, <1>7, <1>8, <1>9, <1>10, <1>11 DEF Caller

\* The inductive invariant of the caller's view of the child.
THEOREM ReapInvariant == Spec => []ReapInv
<1>1. Init => ReapInv
  <2> SUFFICES ASSUME Init PROVE KnowsReap /\ KnowsSpawn /\ CountsWaitErrors /\ ResourcesOnlyFromReap
    BY TypeInit DEF ReapInv
  <2> QED
    BY DEF Init, KnowsReap, KnowsSpawn, CountsWaitErrors, ResourcesOnlyFromReap, Terminating,
       NoResult
<1>2. ReapInv /\ [Next]_vars => ReapInv'
  <2> SUFFICES ASSUME ReapInv, [Next]_vars PROVE ReapInv'
    OBVIOUS
  <2>1. CASE UNCHANGED vars
    BY <2>1 DEF vars, ReapInv, TypeOK, KnowsReap, KnowsSpawn, CountsWaitErrors,
       ResourcesOnlyFromReap
  <2> QED
    BY <2>1, ReapInvOthers, ReapInvCaller DEF Next, Returned
<1> QED
  BY <1>1, <1>2, PTL DEF Spec

\* terminate_and_reap signals no process that was already reaped, whatever the
\* order of exit, deadline, output and wait errors: supervision_failure goes
\* there only for a child whose exit was not seen.
THEOREM NoStraySignal == Spec => []NoSignalAfterReap
<1>1. ReapInv => NoSignalAfterReap
  BY DEF ReapInv, KnowsReap, Terminating, NoSignalAfterReap
<1> QED
  BY <1>1, ReapInvariant, PTL

\* execute leaves no child behind unless two wait calls in a row failed.
THEOREM NoChildLeft == Spec => []ChildReapedOnReturn
<1>1. ReapInv => ChildReapedOnReturn
  BY DEF ReapInv, CountsWaitErrors, ChildReapedOnReturn
<1> QED
  BY <1>1, ReapInvariant, PTL

\* Resources in the result are those of the reaped child, exactly accounted.
THEOREM ExactResources == Spec => []ResourcesOnlyFromReap
<1>1. ReapInv => ResourcesOnlyFromReap
  BY DEF ReapInv
<1> QED
  BY <1>1, ReapInvariant, PTL

-----------------------------------------------------------------------------
(* Whom the caller waits for.                                              *)

\* The labels at which the caller blocks: in wait4, in Child::wait, in join.
Waiting == {"reap", "lastWait", "join"}

\* The helper's end of stdout does not outlive it, both threads exist as long as
\* there is a child, and a child the caller waits for without having reaped it
\* was sent a SIGKILL.
WaitInv ==
    /\ outOpen => helper = "running"
    /\ spc \notin {"check", "spawn", "returned"} => reader # "none" /\ errReader # "none"
    /\ spc \in Waiting => killed \/ helper = "reaped"

\* The operation the caller has come to returns at once.
CallerReady ==
    \/ spc \in {"check", "spawn", "loop", "kill", "killUnknown"}
    \/ /\ spc = "receive"
       /\ IF channel = <<>> THEN reader \in {"reading", "returned"}
          ELSE Head(channel).kind \in {"line", "error", "done"}
    \/ spc = "poll" /\ (reaped # "none" \/ helper \in {"running", "zombie"})
    \/ spc = "terminate" /\ helper \in {"running", "zombie"}
    \/ spc \in {"reap", "lastWait"} /\ helper = "zombie"
    \/ spc = "join" /\ reader = "returned" /\ errReader = "returned"

\* A thread has ended, or something to read, or the end of its pipe.
StdoutAnswers == reader = "returned" \/ (reader = "reading" /\ (chunk # <<>> \/ pipe # <<>> \/ ~outOpen))

StderrAnswers ==
    errReader = "returned" \/ (errReader = "reading" /\ (errPipe > 0 \/ helper \in {"zombie", "reaped"}))

\* What the caller waits for is owed to it: the death of a helper it killed, or the
\* end of two threads that can both go on.
WaitsAreAnswered ==
    \/ spc = "returned" \/ CallerReady
    \/ spc \in Waiting /\ helper = "running" /\ killed
    \/ spc = "join" /\ StdoutAnswers /\ StderrAnswers

\* The helper, the threads and the clock preserve it.
LEMMA WaitOthers ==
    ASSUME WaitInv, Helper \/ StdoutReader \/ DrainStderr \/ DeadlinePasses
    PROVE  WaitInv'
<1>1. CASE Helper \/ DeadlinePasses
  <2>1. /\ UNCHANGED <<spc, killed, reader, errReader>>
        /\ \/ UNCHANGED <<helper, outOpen>>
           \/ outOpen' = FALSE /\ (helper' = helper \/ helper = "running")
    BY <1>1 DEF Helper, HelperWrites, HelperWritesStderr, HelperClosesStdout, HelperStops,
       DeadlinePasses, child, stdoutThread, world
  <2> QED
    BY <2>1 DEF WaitInv, Waiting
<1>2. CASE StdoutReader \/ DrainStderr
  <2>1. /\ UNCHANGED <<spc, helper, outOpen, killed>>
        /\ reader' \in {reader, "returned"} /\ errReader' \in {errReader, "returned"}
    BY <1>2 DEF StdoutReader, ReadChunk, ReadByte, ReadError, ReadEnd, DrainStderr, child,
       stdoutThread, world
  <2> QED
    BY <2>1 DEF WaitInv
<1> QED
  BY <1>1, <1>2

\* So does the caller.
LEMMA WaitCaller ==
    ASSUME ReapInv, WaitInv, Caller
    PROVE  WaitInv'
<1>1. spc \in {"loop", "receive", "poll"} => (reaped = "none" <=> helper # "reaped")
  BY DEF ReapInv, KnowsReap
<1>2. CASE CheckBounds \/ SpawnFails
  <2>1. spc' \in {"spawn", "returned"} /\ UNCHANGED <<helper, outOpen>>
    BY <1>2 DEF CheckBounds, SpawnFails, Return, child
  <2> QED
    BY <2>1 DEF WaitInv, Waiting
<1>3. CASE Spawn
  BY <1>3 DEF Spawn, WaitInv, Waiting
<1>4. CASE LoopTop \/ ReceiveLine \/ ReceiveError \/ ReceiveDone \/ ReceiveTimeout
  <2>1. /\ UNCHANGED <<helper, outOpen, killed, reader, errReader>>
        /\ spc \in {"loop", "receive"}
        /\ \/ spc' \in {"loop", "receive", "poll", "terminate"}
           \/ spc' = "join" /\ reaped # "none"
    BY <1>4 DEF LoopTop, ReceiveLine, ReceiveError, ReceiveDone, ReceiveTimeout,
       supervision_failure, child, stdoutThread, world
  <2> QED
    BY <1>1, <2>1 DEF WaitInv, Waiting
<1>5. CASE Poll \/ Terminate \/ ReapKilled \/ LastWait
  <2>1. /\ UNCHANGED <<outOpen, killed, reader, errReader>>
        /\ spc \in {"poll", "terminate", "reap", "lastWait"}
        /\ \/ helper' = helper
           \/ helper = "zombie" /\ helper' = "reaped"
    BY <1>5 DEF Poll, Terminate, ReapKilled, LastWait, Reap, WaitError, stdoutThread, world
  <2>2. /\ spc' \in {"loop", "terminate", "kill", "killUnknown"} \cup Waiting
        /\ spc' \in Waiting => helper' = "reaped" \/ spc \in {"reap", "lastWait"}
    BY <1>1, <1>5 DEF Poll, Terminate, ReapKilled, LastWait, Reap, WaitError, supervision_failure,
       Waiting
  <2> QED
    BY <2>1, <2>2 DEF WaitInv, Waiting
<1>6. CASE Kill
  BY <1>6 DEF Kill, stdoutThread, world, WaitInv, Waiting
<1>7. CASE Join
  BY <1>7 DEF Join, Return, child, stdoutThread, world, WaitInv, Waiting
<1> QED
  BY <1>2, <1>3, <1>4, <1>5, <1>6, <1>7 DEF Caller

\* The caller never waits for something nobody owes it: where wait4 or Child::wait
\* block, the child was killed or is dead, and where the threads are joined, each
\* of them has ended, has bytes to read, or finds the end of its pipe as soon as
\* the killed helper is gone.
THEOREM NobodyWaitsInVain == Spec => []WaitsAreAnswered
<1>1. Init => WaitInv
  BY DEF Init, WaitInv, Waiting
<1>2. ReapInv /\ WaitInv /\ [Next]_vars => WaitInv'
  <2> SUFFICES ASSUME ReapInv, WaitInv, [Next]_vars PROVE WaitInv'
    OBVIOUS
  <2>1. CASE UNCHANGED vars
    BY <2>1 DEF vars, WaitInv
  <2> QED
    BY <2>1, WaitOthers, WaitCaller DEF Next, Returned
<1>3. ASSUME ReapInv, WaitInv PROVE WaitsAreAnswered
  <2>1. /\ spc \in {"check", "spawn", "loop", "receive", "poll", "terminate", "kill",
                    "killUnknown", "reap", "lastWait", "join", "returned"}
        /\ helper \in {"none", "running", "zombie", "reaped"}
        /\ reader \in {"none", "reading", "returned"} /\ errReader \in {"none", "reading", "returned"}
        /\ channel \in Seq([kind : {"line", "error", "done"}, bytes : ByteStrings])
    BY <1>3 DEF ReapInv, TypeOK
  <2>2. /\ spc \in {"poll", "terminate", "reap", "lastWait"} =>
              helper # "none" /\ (reaped = "none" => helper # "reaped")
        /\ spc \in {"terminate", "reap", "lastWait"} => reaped = "none"
        /\ spc = "join" => helper # "none"
    BY <1>3 DEF ReapInv, KnowsReap, KnowsSpawn, Terminating
  <2>3. CASE spc = "receive"
    <3>1. channel # <<>> => Head(channel) \in [kind : {"line", "error", "done"}, bytes : ByteStrings]
      BY <2>1, HeadTailProperties
    <3> QED
      BY <1>3, <2>1, <2>3, <3>1 DEF WaitInv, WaitsAreAnswered, CallerReady
  <2>4. CASE spc = "join"
    BY <1>3, <2>1, <2>2, <2>4 DEF WaitInv, WaitsAreAnswered, StdoutAnswers, StderrAnswers, Waiting
  <2>5. CASE spc \notin {"receive", "join"}
    BY <1>3, <2>1, <2>2, <2>5 DEF WaitInv, WaitsAreAnswered, CallerReady, Waiting
  <2> QED
    BY <2>3, <2>4, <2>5
<1>4. ReapInv /\ WaitInv => WaitsAreAnswered
  BY <1>3
<1> QED
  BY <1>1, <1>2, <1>4, ReapInvariant, PTL DEF Spec

-----------------------------------------------------------------------------
(* The lines of the output                                                 *)

\* The newlines before a position, whose number is the index of the line
\* that ends there.
Before(end) == {k \in Newlines : k < end}

Rank(end) == Cardinality(Before(end))

\* The bytes are those of the line that ends at this position.
Carries(bytes, end) ==
    /\ Len(bytes) = end - LineStart(end)
    /\ \A k \in 1..Len(bytes) : bytes[k] = wrote[LineStart(end) + k - 1]

\* The line that ends here is one CompleteProtocol asks for at its index.
Accepted(end) ==
    /\ end - LineStart(end) < protocol.maxRecord
    /\ Rank(end) >= protocol.meta =>
          /\ end > LineStart(end)
          /\ \A k \in LineStart(end)..(end - 1) : wrote[k] = "x"

\* The ends of lines that no further byte can move: an unterminated rest is a
\* line only once nothing is read any more.
Settled == IF reader = "returned" THEN LineEnds ELSE Newlines

\* The position after the greatest element of a set of positions, as in the
\* definition of LineStart.
After(S) == IF S = {} THEN 1 ELSE 1 + CHOOSE k \in S : \A j \in S : j <= k

\* LineStart in terms of the newlines before a position.
LEMMA StartIsAfter == \A end : LineStart(end) = After(Before(end))
BY DEF LineStart, After, Before

\* Every set of naturals that is not empty has a least element.
LEMMA LeastNatural ==
    ASSUME NEW T \in SUBSET Nat, T # {}
    PROVE  \E x \in T : \A y \in T : x <= y
<1> DEFINE R == OpToRel(<, Nat)
<1>1. IsWellFoundedOn(R, Nat)
  BY NatLessThanWellFounded
<1>2. \A y, x \in Nat : y < x => <<y, x>> \in R
  BY DEF OpToRel
<1> HIDE DEF R
<1>3. PICK x \in T : \A y \in T : ~(<<y, x>> \in R)
  BY <1>1, WFMin
<1>4. ASSUME NEW y \in T PROVE x <= y
  <2>1. x \in Nat /\ y \in Nat
    OBVIOUS
  <2>2. ~(y < x)
    BY <2>1, <1>2, <1>3, Zenon
  <2> QED
    BY <2>1, <2>2
<1> QED
  BY <1>4

\* The greatest element is the least upper bound.
LEMMA GreatestNatural ==
    ASSUME NEW T \in SUBSET Nat, T # {}, NEW bound \in Nat, \A x \in T : x <= bound
    PROVE  \E x \in T : \A y \in T : y <= x
<1> DEFINE U == {u \in Nat : \A x \in T : x <= u}
<1>1. bound \in U /\ U \in SUBSET Nat
  OBVIOUS
<1>2. PICK u \in U : \A v \in U : u <= v
  BY <1>1, LeastNatural
<1>3. u \in T
  <2> SUFFICES ASSUME u \notin T PROVE FALSE
    OBVIOUS
  <2>1. PICK x \in T : TRUE
    OBVIOUS
  <2>2. u \in Nat /\ x \in Nat /\ x <= u /\ x # u
    BY <2>1
  <2>3. \A y \in T : y \in Nat /\ y <= u /\ y # u
    OBVIOUS
  <2>4. u - 1 \in U
    BY <2>2, <2>3
  <2> QED
    BY <1>2, <2>2, <2>4
<1> QED
  BY <1>3

\* After of a bounded set is where its greatest element says.
LEMMA AfterGreatest ==
    ASSUME NEW T \in SUBSET Nat, NEW bound \in Nat, \A x \in T : x <= bound
    PROVE  /\ T = {} => After(T) = 1
           /\ T # {} => After(T) \in Nat /\ After(T) - 1 \in T /\ \A x \in T : x <= After(T) - 1
<1>1. CASE T = {}
  BY <1>1 DEF After
<1>2. CASE T # {}
  <2>1. PICK x \in T : \A y \in T : y <= x
    BY <1>2, GreatestNatural
  <2> DEFINE c == CHOOSE k \in T : \A j \in T : j <= k
  <2>2. c \in T /\ \A j \in T : j <= c
    BY <2>1, Zenon
  <2>3. After(T) = 1 + c
    BY <1>2 DEF After
  <2> HIDE DEF c
  <2> QED
    BY <1>2, <2>2, <2>3
<1> QED
  BY <1>1, <1>2

\* The two are the only candidates.
LEMMA AfterUnique ==
    ASSUME NEW T \in SUBSET Nat, NEW k \in T, \A x \in T : x <= k
    PROVE  After(T) = k + 1
<1>1. After(T) \in Nat /\ After(T) - 1 \in T /\ \A x \in T : x <= After(T) - 1
  BY AfterGreatest
<1>2. k <= After(T) - 1 /\ After(T) - 1 <= k /\ k \in Nat
  BY <1>1
<1> QED
  BY <1>1, <1>2

\* Membership in Before, and when it stays the same.
LEMMA BeforeMember == \A end, k : k \in Before(end) <=> (k \in Newlines /\ k < end)
BY DEF Before

\* Positions with the same newlines before them.
LEMMA BeforeSame ==
    ASSUME NEW d, NEW e, \A k \in Newlines : k < d <=> k < e
    PROVE  Before(d) = Before(e)
<1>1. \A x : x \in Before(d) <=> x \in Before(e)
  BY Zenon DEF Before
<1> QED
  BY <1>1

\* Newlines and line ends are finite sets of positions.
LEMMA OutputSets ==
    ASSUME wrote \in Seq(Bytes)
    PROVE  /\ Len(wrote) \in Nat
           /\ Newlines \in SUBSET (1..Len(wrote)) /\ IsFiniteSet(Newlines)
           /\ LineEnds \in SUBSET (1..(Len(wrote) + 1)) /\ IsFiniteSet(LineEnds)
           /\ Newlines \subseteq LineEnds
           /\ \A k \in Newlines : k \in Nat /\ 1 <= k /\ k <= Len(wrote)
           /\ \A end \in LineEnds : end \in Nat /\ 1 <= end /\ end <= Len(wrote) + 1
           /\ \A end \in LineEnds : end \in Newlines \/ end = Len(wrote) + 1
           /\ \A end : Before(end) \in SUBSET Newlines /\ IsFiniteSet(Before(end))
                       /\ Rank(end) \in Nat
<1>1. Len(wrote) \in Nat
  OBVIOUS
<1>2. Newlines \in SUBSET (1..Len(wrote))
  BY DEF Newlines
<1>3. IsFiniteSet(1..Len(wrote)) /\ IsFiniteSet(1..(Len(wrote) + 1))
  BY <1>1, FS_Interval
<1>4. IsFiniteSet(Newlines)
  BY <1>2, <1>3, FS_Subset
<1>9. \A k \in Newlines : k \in Nat /\ 1 <= k /\ k <= Len(wrote)
  BY <1>1, <1>2
<1>10. \A end \in LineEnds : end \in Nat /\ 1 <= end /\ end <= Len(wrote) + 1
  <2>1. \A end \in LineEnds : end \in Newlines \/ end = Len(wrote) + 1
    BY DEF LineEnds
  <2> QED
    BY <1>1, <1>9, <2>1
<1>5. LineEnds \in SUBSET (1..(Len(wrote) + 1))
  BY <1>1, <1>10
<1>6. IsFiniteSet(LineEnds)
  BY <1>3, <1>5, FS_Subset
<1>7. ASSUME NEW end
      PROVE  Before(end) \in SUBSET Newlines /\ IsFiniteSet(Before(end)) /\ Rank(end) \in Nat
  <2>1. Before(end) \in SUBSET Newlines
    BY DEF Before
  <2>2. IsFiniteSet(Before(end))
    BY <1>4, <2>1, FS_Subset
  <2> QED
    BY <2>1, <2>2, FS_CardinalityType DEF Rank
<1>8. Newlines \subseteq LineEnds /\ \A end \in LineEnds : end \in Newlines \/ end = Len(wrote) + 1
  BY DEF LineEnds
<1> QED
  BY <1>1, <1>2, <1>4, <1>5, <1>6, <1>7, <1>8, <1>9, <1>10

\* Where a line starts: nowhere in it is a newline, and it is the first one or
\* follows a newline.
LEMMA StartFacts ==
    ASSUME wrote \in Seq(Bytes), NEW end \in Nat \ {0}
    PROVE  /\ LineStart(end) \in 1..end
           /\ \A k \in Before(end) : k < LineStart(end)
           /\ Before(end) # {} => LineStart(end) - 1 \in Before(end)
           /\ Before(end) = {} => LineStart(end) = 1
<1> DEFINE B == Before(end)
<1>1. B \in SUBSET Nat /\ \A k \in B : k \in Nat /\ k <= end /\ 1 <= k /\ k < end
  BY OutputSets DEF Before
<1>2. LineStart(end) = After(B)
  BY StartIsAfter
<1>3. /\ B = {} => After(B) = 1
      /\ B # {} => After(B) \in Nat /\ After(B) - 1 \in B /\ \A x \in B : x <= After(B) - 1
  BY <1>1, AfterGreatest
<1> HIDE DEF B
<1>4. CASE B = {}
  BY <1>2, <1>3, <1>4 DEF B
<1>5. CASE B # {}
  <2>1. After(B) \in Nat /\ After(B) - 1 \in B
    BY <1>3, <1>5
  <2>2. 1 <= After(B) - 1 /\ After(B) - 1 < end
    BY <1>1, <2>1
  <2>3. After(B) \in 1..end
    BY <2>1, <2>2
  <2>4. \A k \in B : k < After(B)
    BY <1>1, <1>3, <1>5, <2>1
  <2> QED
    BY <1>2, <1>5, <2>1, <2>3, <2>4 DEF B
<1> QED
  BY <1>4, <1>5

\* The index of a line, and where it starts, one position further on.
LEMMA RankNext ==
    ASSUME wrote \in Seq(Bytes), NEW k \in Nat \ {0}
    PROVE  /\ k \in Newlines => Rank(k + 1) = Rank(k) + 1 /\ LineStart(k + 1) = k + 1
           /\ k \notin Newlines => Rank(k + 1) = Rank(k) /\ LineStart(k + 1) = LineStart(k)
<1>1. \A x \in Newlines : x \in Nat /\ (x < k + 1 <=> x < k \/ x = k) /\ (x < k + 1 <=> x <= k)
  BY OutputSets
<1>2. CASE k \in Newlines
  <2>1. Before(k + 1) = Before(k) \cup {k} /\ k \notin Before(k)
    <3>1. ~(k < k)
      OBVIOUS
    <3> QED
      BY <1>1, <1>2, <3>1, BeforeMember, Zenon
  <2>2. Rank(k + 1) = Rank(k) + 1
    <3>1. IsFiniteSet(Before(k))
      BY OutputSets
    <3> QED
      BY <2>1, <3>1, FS_AddElement DEF Rank
  <2>3. Before(k + 1) \in SUBSET Nat /\ k \in Before(k + 1) /\ \A x \in Before(k + 1) : x <= k
    BY <1>1, <2>1, BeforeMember
  <2>4. After(Before(k + 1)) = k + 1
    BY <2>3, AfterUnique
  <2> QED
    BY <1>2, <2>2, <2>4, StartIsAfter
<1>3. CASE k \notin Newlines
  <2>1. Before(k + 1) = Before(k)
    <3>1. \A x : x \in Before(k + 1) <=> x \in Before(k)
      BY <1>1, <1>3, BeforeMember, Zenon
    <3> QED
      BY <3>1
  <2>2. LineStart(k + 1) = LineStart(k)
    BY <2>1, StartIsAfter
  <2> QED
    BY <1>3, <2>1, <2>2 DEF Rank
<1> QED
  BY <1>2, <1>3

\* The index grows with the position, and past every newline.
LEMMA RankGrows ==
    ASSUME wrote \in Seq(Bytes), NEW d \in Nat, NEW e \in Nat
    PROVE  /\ d <= e => Rank(d) <= Rank(e)
           /\ d < e /\ d \in Newlines => Rank(d) < Rank(e)
<1>1. (\A x \in Newlines : x \in Nat) /\ IsFiniteSet(Before(e)) /\ Rank(d) \in Nat /\ Rank(e) \in Nat
      /\ IsFiniteSet(Before(d))
  BY OutputSets
<1>2. ASSUME d <= e PROVE Rank(d) <= Rank(e)
  <2>0. \A x \in Newlines : x < d => x < e
    BY <1>1, <1>2
  <2>1. Before(d) \in SUBSET Before(e)
    BY <2>0, BeforeMember
  <2> QED
    BY <1>1, <2>1, FS_Subset DEF Rank
<1>3. ASSUME d < e, d \in Newlines PROVE Rank(d) < Rank(e)
  <2>1. Before(d) \in SUBSET Before(e) /\ d \in Before(e) /\ d \notin Before(d)
    <3>1. (\A x \in Newlines : x < d => x < e) /\ ~(d < d)
      BY <1>1, <1>3
    <3> QED
      BY <1>3, <3>1, BeforeMember
  <2>2. Rank(d) <= Rank(e) /\ Rank(e) # Rank(d)
    BY <1>1, <2>1, FS_Subset DEF Rank
  <2> QED
    BY <1>1, <2>2
<1> QED
  BY <1>2, <1>3

\* No two lines have the same index, and every index is below their number.
LEMMA RankOfEnds ==
    ASSUME wrote \in Seq(Bytes)
    PROVE  /\ \A d, e \in LineEnds : Rank(d) = Rank(e) => d = e
           /\ \A e \in LineEnds : {k \in LineEnds : k < e} = Before(e)
           /\ \A e \in LineEnds : Rank(e) < Cardinality(LineEnds)
           /\ Cardinality(LineEnds) \in Nat
           /\ Cardinality(LineEnds) = Rank(Len(wrote) + 1)
                + (IF Len(wrote) + 1 \in LineEnds THEN 1 ELSE 0)
<1>1. /\ \A k \in Newlines : k \in Nat /\ 1 <= k /\ k <= Len(wrote)
      /\ \A end \in LineEnds : end \in Nat /\ 1 <= end /\ end <= Len(wrote) + 1
      /\ IsFiniteSet(LineEnds) /\ Len(wrote) \in Nat /\ IsFiniteSet(Newlines)
      /\ Newlines \subseteq LineEnds
      /\ \A end \in LineEnds : end \in Newlines \/ end = Len(wrote) + 1
  BY OutputSets
<1>2. ASSUME NEW d \in LineEnds, NEW e \in LineEnds, d < e PROVE Rank(d) # Rank(e)
  <2>1. d \in Nat /\ e \in Nat /\ d \in Newlines
    BY <1>1, <1>2
  <2>2. Rank(d) < Rank(e)
    BY <1>2, <2>1, RankGrows
  <2>3. Rank(d) \in Nat /\ Rank(e) \in Nat
    BY OutputSets
  <2> QED
    BY <2>2, <2>3
<1>3. ASSUME NEW e \in LineEnds PROVE {k \in LineEnds : k < e} = Before(e)
  <2>1. \A k \in LineEnds : k < e => k \in Newlines
    BY <1>1
  <2> QED
    BY <1>1, <2>1, BeforeMember
<1>4. ASSUME NEW e \in LineEnds PROVE Rank(e) < Cardinality(LineEnds)
  <2>1. Before(e) \in SUBSET LineEnds /\ e \notin Before(e)
    <3>1. ~(e < e)
      BY <1>1
    <3> QED
      BY <1>1, <3>1, BeforeMember
  <2>2. Rank(e) <= Cardinality(LineEnds) /\ Rank(e) # Cardinality(LineEnds)
    BY <1>1, <2>1, FS_Subset DEF Rank
  <2>3. Rank(e) \in Nat /\ Cardinality(LineEnds) \in Nat
    BY <1>1, OutputSets, FS_CardinalityType
  <2> QED
    BY <2>2, <2>3
<1>5. Cardinality(LineEnds) \in Nat
  BY <1>1, FS_CardinalityType
<1>6. Cardinality(LineEnds) = Rank(Len(wrote) + 1) + (IF Len(wrote) + 1 \in LineEnds THEN 1 ELSE 0)
  <2> DEFINE last == Len(wrote) + 1
  <2>0. (\A k \in Newlines : k < last) /\ last \notin Newlines
    BY <1>1
  <2>1. Before(last) = Newlines
    BY <2>0, BeforeMember
  <2>2. last \in LineEnds => LineEnds = Newlines \cup {last}
    BY <1>1
  <2>4. last \notin LineEnds => LineEnds = Newlines
    BY <1>1
  <2>3. Cardinality(Newlines \cup {last}) = Cardinality(Newlines) + 1
        /\ Cardinality(Newlines) \in Nat
    BY <1>1, <2>0, FS_AddElement, FS_CardinalityType
  <2>5. Rank(last) = Cardinality(Newlines)
    BY <2>1 DEF Rank
  <2>6. CASE last \in LineEnds
    BY <2>2, <2>3, <2>5, <2>6
  <2>7. CASE last \notin LineEnds
    BY <2>3, <2>4, <2>5, <2>7
  <2> QED
    BY <2>6, <2>7
<1>7. \A d, e \in LineEnds : Rank(d) = Rank(e) => d = e
  <2> SUFFICES ASSUME NEW d \in LineEnds, NEW e \in LineEnds, d # e PROVE Rank(d) # Rank(e)
    OBVIOUS
  <2>1. d < e \/ e < d
    BY <1>1
  <2> QED
    BY <1>2, <2>1
<1> QED
  BY <1>3, <1>4, <1>5, <1>6, <1>7

-----------------------------------------------------------------------------
(* The invariant                                                           *)

Received == metadata + measurements

\* Bytes the stdout thread has looked at.
Seen == Len(wrote) - Len(pipe) - Len(chunk)

\* While it reads, what was written is what it looked at, then its chunk, then
\* the pipe; "line" is the rest since the last newline it looked at.
Conserved ==
    /\ Len(pipe) + Len(chunk) <= Len(wrote)
    /\ \A k \in 1..Len(chunk) : chunk[k] = wrote[Seen + k]
    /\ \A k \in 1..Len(pipe) : pipe[k] = wrote[Seen + Len(chunk) + k]
    /\ Carries(line, Seen + 1)
    /\ total = Len(wrote) - Len(pipe)
    /\ \A j \in 1..Len(channel) : channel[j].kind = "line"
    /\ Rank(Seen + 1) = Received + Len(channel)
    /\ ~stdoutDone

\* What the helper wrote can no longer become the complete protocol.
Hopeless ==
    \/ Len(wrote) > protocol.maxStdout
    \/ \E end \in 1..(Len(wrote) + 1) :
          end > LineStart(end) /\ end - LineStart(end) >= protocol.maxRecord
    \/ \E end \in Settled : Rank(end) >= protocol.meta + protocol.records \/ ~Accepted(end)

Blamed == readFailed \/ waitErrors > 0 \/ Hopeless

\* Once it returned, its last event says how: at the end of file, with every
\* line sent, or for a reason.
Closing ==
    IF stdoutDone
    THEN channel = <<>> /\ Cardinality(LineEnds) = Received
    ELSE /\ channel # <<>>
         /\ \A j \in 1..(Len(channel) - 1) : channel[j].kind = "line"
         /\ \/ /\ channel[Len(channel)].kind = "done"
               /\ Cardinality(LineEnds) = Received + Len(channel) - 1
            \/ channel[Len(channel)].kind = "error" /\ Blamed

\* Every line in the channel is the line of its index, and every line received
\* was accepted.
Matching ==
    /\ \A j \in 1..Len(channel) :
          channel[j].kind = "line" =>
             \E end \in Settled : Rank(end) = Received + j - 1 /\ Carries(channel[j].bytes, end)
    /\ \A end \in Settled : Rank(end) < Received => Accepted(end)

Counted ==
    /\ metadata <= protocol.meta
    /\ Received <= protocol.meta + protocol.records
    /\ metadata < protocol.meta => measurements = 0

StreamOK ==
    /\ reader = "none" => wrote = <<>> /\ pipe = <<>> /\ channel = <<>> /\ chunk = <<>>
                          /\ line = <<>> /\ total = 0 /\ Received = 0 /\ ~stdoutDone
    /\ reader = "reading" => Conserved
    /\ reader = "returned" => Closing
    /\ Matching
    /\ Counted

Fits == (protocol.meta + protocol.records) * protocol.maxRecord <= protocol.maxStdout

\* The labels before execute leaves supervise.
Supervising == {"check", "spawn", "loop", "receive", "poll"}

\* Where the caller is, by what it knows.
CallerOK ==
    /\ reader = "none" <=> helper = "none"
    /\ spc # "check" => Fits \/ (spc = "returned" /\ helper = "none")
    /\ helper \in {"none", "running"} => exitCode = "none"
    /\ spc \in Supervising => failure = "none"
    /\ spc \in Terminating \/ killed => failure # "none"
    /\ spc \in {"join", "returned"} /\ helper # "none" /\ failure = "none" =>
          stdoutDone /\ helper = "reaped" /\ reaped # "none"
    /\ spc = "returned" =>
          \/ helper # "none" /\ result = Classified /\ reader = "returned"
          \/ helper = "none" /\ result \in {Failed("output", FALSE), Failed("spawn", FALSE)}
    /\ spc # "returned" => result = NoResult

\* An undisturbed stream of lines as long as nothing failed, a reason for every
\* output failure afterwards.
StreamVerdict ==
    /\ failure = "none" => StreamOK
    /\ failure = "output" => Blamed

\* The inductive invariant.
ProtocolInv ==
    /\ ReapInv
    /\ CallerOK
    /\ StreamVerdict

\* What CompleteProtocol asks for, line by line.
LEMMA CompleteByLine ==
    ASSUME wrote \in Seq(Bytes)
    PROVE  CompleteProtocol <=>
              /\ Cardinality(LineEnds) = protocol.meta + protocol.records
              /\ \A end \in LineEnds : Accepted(end)
<1>1. \A end \in LineEnds : Cardinality({k \in LineEnds : k < end}) = Rank(end)
  BY RankOfEnds DEF Rank
<1> QED
  BY <1>1, Zenon DEF CompleteProtocol, Accepted

\* Lines within the record limit end within as many records as there are: by
\* the least line that does not.
LEMMA EndsWithinRecords ==
    ASSUME wrote \in Seq(Bytes), NEW M \in Nat,
           \A end \in LineEnds : end - LineStart(end) < M
    PROVE  \A end \in LineEnds : end <= (Rank(end) + 1) * M
<1> DEFINE T == {end \in LineEnds : ~(end <= (Rank(end) + 1) * M)}
<1>1. /\ \A k \in Newlines : k \in Nat /\ 1 <= k /\ k <= Len(wrote)
      /\ \A end \in LineEnds : end \in Nat /\ 1 <= end
      /\ \A end : Rank(end) \in Nat
      /\ Newlines \subseteq LineEnds
  BY OutputSets
<1> SUFFICES ASSUME T # {} PROVE FALSE
  OBVIOUS
<1>2. T \in SUBSET Nat
  BY <1>1
<1>3. PICK e \in T : \A d \in T : e <= d
  BY <1>2, LeastNatural
<1>4. e \in LineEnds /\ e \in Nat \ {0} /\ ~(e <= (Rank(e) + 1) * M) /\ Rank(e) \in Nat
  BY <1>1
<1>5. LineStart(e) \in 1..e /\ e - LineStart(e) < M
  BY <1>4, StartFacts
<1>6. CASE Before(e) = {}
  <2>1. LineStart(e) = 1 /\ Rank(e) = 0
    BY <1>4, <1>6, StartFacts, FS_EmptySet DEF Rank
  <2> QED
    BY <1>4, <1>5, <2>1
<1>7. CASE Before(e) # {}
  <2> DEFINE p == LineStart(e) - 1
  <2>1. p \in Before(e) /\ \A k \in Before(e) : k < LineStart(e)
    BY <1>4, <1>7, StartFacts
  <2>2. p \in Newlines /\ p < e /\ p \in LineEnds /\ p \in Nat \ {0}
    BY <1>1, <2>1, BeforeMember
  <2>3. p <= (Rank(p) + 1) * M
    <3>1. p \notin T
      BY <1>3, <1>4, <2>2
    <3> QED
      BY <2>2, <3>1
  <2>4. Rank(e) = Rank(p) + 1
    <3>1. Before(e) = Before(p + 1)
      <4>1. \A k \in Newlines : k < e <=> k < p + 1
        <5>1. ASSUME NEW k \in Newlines, k < e PROVE k < p + 1
          <6>1. k \in Before(e)
            BY <5>1, BeforeMember
          <6>2. k < LineStart(e) /\ k \in Nat /\ LineStart(e) \in Nat
            BY <1>1, <1>5, <2>1, <6>1
          <6> QED
            BY <6>2
        <5>2. ASSUME NEW k \in Newlines, k < p + 1 PROVE k < e
          BY <1>1, <1>4, <2>2, <5>2
        <5> QED
          BY <5>1, <5>2
      <4> QED
        BY <4>1, BeforeSame
    <3>2. Rank(p + 1) = Rank(p) + 1
      BY <2>2, RankNext
    <3> QED
      BY <3>1, <3>2 DEF Rank
  <2>5. e <= p + M
    BY <1>4, <1>5
  <2>6. Rank(p) \in Nat
    BY <1>1
  <2>7. (Rank(e) + 1) * M = (Rank(p) + 1) * M + M
    BY <2>4, <2>6
  <2> HIDE DEF p
  <2>8. (Rank(p) + 1) * M \in Nat
    BY <2>6
  <2> QED
    BY <1>4, <2>2, <2>3, <2>5, <2>7, <2>8
<1> QED
  BY <1>6, <1>7

\* Output that is hopeless is not the complete protocol: it is larger than the
\* transport that the whole protocol fits, or one of its lines is not as it
\* should be.
LEMMA HopelessIncomplete ==
    ASSUME TypeOK, Fits, Hopeless
    PROVE  ~CompleteProtocol
<1> SUFFICES ASSUME CompleteProtocol PROVE FALSE
  OBVIOUS
<1>0. wrote \in Seq(Bytes) /\ protocol \in [meta : Nat, records : Nat, maxRecord : Nat, maxStdout : Nat]
  BY SupervisorAssumption DEF TypeOK, ByteStrings
<1>1. /\ Cardinality(LineEnds) = protocol.meta + protocol.records
      /\ \A end \in LineEnds : Accepted(end)
  BY <1>0, CompleteByLine
<1>2. /\ \A end \in LineEnds : end \in Nat /\ 1 <= end /\ end <= Len(wrote) + 1
      /\ \A k \in Newlines : k \in Nat /\ 1 <= k /\ k <= Len(wrote)
      /\ \A end : Rank(end) \in Nat
      /\ Newlines \subseteq LineEnds /\ Len(wrote) \in Nat
  BY <1>0, OutputSets
<1>3. wrote # <<>> => \E end \in LineEnds : end >= Len(wrote)
  <2> SUFFICES ASSUME wrote # <<>> PROVE \E end \in LineEnds : end >= Len(wrote)
    OBVIOUS
  <2>1. CASE wrote[Len(wrote)] = "n"
    <3>1. Len(wrote) \in Newlines
      BY <1>0, <2>1 DEF Newlines
    <3> QED
      BY <1>2, <3>1
  <2>2. CASE wrote[Len(wrote)] # "n"
    <3>1. Len(wrote) + 1 \in LineEnds
      BY <2>2 DEF LineEnds
    <3> QED
      BY <1>2, <3>1
  <2> QED
    BY <2>1, <2>2
<1>4. CASE Len(wrote) > protocol.maxStdout
  <2>1. wrote # <<>>
    BY <1>0, <1>4
  <2>2. PICK end \in LineEnds : end >= Len(wrote)
    BY <1>3, <2>1
  <2> DEFINE M == protocol.maxRecord
             N == protocol.meta + protocol.records
  <2>3. M \in Nat /\ N \in Nat /\ protocol.maxStdout \in Nat /\ N * M <= protocol.maxStdout
    BY <1>0 DEF Fits
  <2>4. \A e \in LineEnds : e - LineStart(e) < M
    BY <1>1 DEF Accepted
  <2> HIDE DEF M
  <2>5. end <= (Rank(end) + 1) * M
    BY <1>0, <2>3, <2>4, EndsWithinRecords
  <2>6. Rank(end) + 1 <= N /\ Rank(end) + 1 \in Nat
    BY <1>0, <1>1, <1>2, RankOfEnds
  <2> HIDE DEF N
  <2>7. (Rank(end) + 1) * M <= N * M
    BY <2>3, <2>6
  <2>8. (Rank(end) + 1) * M \in Nat /\ N * M \in Nat /\ end \in Nat
    BY <1>2, <2>3, <2>6
  <2> QED
    BY <1>2, <1>4, <2>2, <2>3, <2>5, <2>7, <2>8
<1>5. CASE \E end \in 1..(Len(wrote) + 1) :
             end > LineStart(end) /\ end - LineStart(end) >= protocol.maxRecord
  <2>1. PICK end \in 1..(Len(wrote) + 1) :
             end > LineStart(end) /\ end - LineStart(end) >= protocol.maxRecord
    BY <1>5
  <2>2. end \in Nat \ {0} /\ LineStart(end) \in 1..end /\ Len(wrote) >= 1
        /\ \A k \in Before(end) : k < LineStart(end)
    <3>1. end \in Nat \ {0}
      BY <1>2
    <3>2. LineStart(end) \in 1..end /\ \A k \in Before(end) : k < LineStart(end)
      BY <1>0, <3>1, StartFacts
    <3>3. LineStart(end) \in Nat /\ 1 <= LineStart(end)
      BY <3>1, <3>2
    <3>4. Len(wrote) >= 1
      BY <1>2, <2>1, <3>1, <3>3
    <3> QED
      BY <3>1, <3>2, <3>4
  <2> DEFINE T == {e \in LineEnds : e >= end}
  <2>3. T # {}
    <3>1. CASE end <= Len(wrote)
      <4>1. PICK e \in LineEnds : e >= Len(wrote)
        BY <1>0, <1>3, <2>2
      <4> QED
        BY <1>2, <2>2, <3>1, <4>1
    <3>2. CASE end = Len(wrote) + 1
      <4>1. Len(wrote) \notin Newlines
        <5> SUFFICES ASSUME Len(wrote) \in Newlines PROVE FALSE
          OBVIOUS
        <5>1. Len(wrote) \in Before(end)
          BY <1>2, <3>2, BeforeMember
        <5> QED
          BY <1>2, <2>1, <2>2, <3>2, <5>1
      <4>2. wrote[Len(wrote)] # "n" /\ wrote # <<>>
        BY <1>0, <2>2, <4>1 DEF Newlines
      <4>3. end \in LineEnds
        BY <3>2, <4>2 DEF LineEnds
      <4> QED
        BY <2>2, <4>3
    <3> QED
      BY <1>2, <2>1, <3>1, <3>2
  <2>4. T \in SUBSET Nat
    BY <1>2
  <2>5. PICK e \in T : \A d \in T : e <= d
    BY <2>3, <2>4, LeastNatural
  <2>6. e \in LineEnds /\ e \in Nat /\ e >= end
    BY <1>2
  <2>7. Before(e) = Before(end)
    <3>1. \A k \in Newlines : k < e <=> k < end
      <4> SUFFICES ASSUME NEW k \in Newlines PROVE k < e <=> k < end
        OBVIOUS
      <4>1. k \in Nat /\ k \in LineEnds
        BY <1>2
      <4>2. k >= end => e <= k
        BY <2>5, <4>1
      <4> QED
        BY <2>2, <2>6, <4>1, <4>2
    <3> QED
      BY <3>1, BeforeSame
  <2>8. LineStart(e) = LineStart(end)
    BY <2>7, StartIsAfter
  <2>9. e - LineStart(e) < protocol.maxRecord /\ protocol.maxRecord \in Nat
    BY <1>0, <1>1, <2>6 DEF Accepted
  <2>10. LineStart(end) \in Int
    BY <2>2
  <2> QED
    BY <2>1, <2>2, <2>6, <2>8, <2>9, <2>10
<1>6. ASSUME NEW end \in Settled,
             Rank(end) >= protocol.meta + protocol.records \/ ~Accepted(end)
      PROVE  FALSE
  <2>1. end \in LineEnds
    BY <1>2 DEF Settled
  <2>2. Rank(end) < Cardinality(LineEnds) /\ Accepted(end)
    BY <1>0, <1>1, <2>1, RankOfEnds
  <2> QED
    BY <1>0, <1>1, <1>2, <1>6, <2>2
<1> QED
  BY <1>4, <1>5, <1>6 DEF Hopeless

-----------------------------------------------------------------------------
(* Steps that keep the output, and the one that extends it                 *)

\* StartIsAfter in the next state.
LEMMA StartIsAfterNext == \A end : LineStart(end)' = After(Before(end)')
BY DEF LineStart, After, Before

\* The lines are a function of what was written.
LEMMA SameOutput ==
    ASSUME UNCHANGED <<wrote, protocol>>
    PROVE  /\ Newlines' = Newlines /\ LineEnds' = LineEnds
           /\ \A end : /\ Rank(end)' = Rank(end) /\ LineStart(end)' = LineStart(end)
                       /\ Accepted(end)' <=> Accepted(end)
           /\ \A bytes, end : Carries(bytes, end)' <=> Carries(bytes, end)
<1>1. Newlines' = Newlines
  BY DEF Newlines
<1>2. LineEnds' = LineEnds
  BY <1>1 DEF LineEnds
<1>3. \A end : Before(end)' = Before(end)
  BY <1>1 DEF Before
<1>4. \A end : Rank(end)' = Rank(end)
  BY <1>3 DEF Rank
<1>5. \A end : LineStart(end)' = LineStart(end)
  BY <1>3, StartIsAfter, StartIsAfterNext
<1>6. \A end : Accepted(end)' <=> Accepted(end)
  BY <1>4, <1>5 DEF Accepted
<1>7. \A bytes, end : Carries(bytes, end)' <=> Carries(bytes, end)
  BY <1>5 DEF Carries
<1> QED
  BY <1>1, <1>2, <1>4, <1>5, <1>6, <1>7

\* One more byte changes no line that ends before it.
LEMMA LongerOutput ==
    ASSUME wrote \in Seq(Bytes), NEW byte \in Bytes, wrote' = Append(wrote, byte),
           protocol' = protocol
    PROVE  /\ wrote' \in Seq(Bytes) /\ Len(wrote') = Len(wrote) + 1 /\ wrote'[Len(wrote) + 1] = byte
           /\ \A k \in 1..Len(wrote) : wrote'[k] = wrote[k]
           /\ Newlines \subseteq Newlines'
           /\ \A end \in Newlines' : end \in Newlines \/ end = Len(wrote) + 1
           /\ \A end \in 1..(Len(wrote) + 1) :
                 /\ Rank(end)' = Rank(end) /\ LineStart(end)' = LineStart(end)
                 /\ Accepted(end)' <=> Accepted(end)
           /\ \A bytes : \A end \in 1..(Len(wrote) + 1) :
                 Carries(bytes, end)' <=> Carries(bytes, end)
<1>0. Len(wrote) \in Nat
  OBVIOUS
<1>1. /\ wrote' \in Seq(Bytes) /\ Len(wrote') = Len(wrote) + 1 /\ wrote'[Len(wrote) + 1] = byte
      /\ \A k \in 1..Len(wrote) : wrote'[k] = wrote[k]
  OBVIOUS
<1>2. \A k \in 1..(Len(wrote) + 1) : k \in 1..Len(wrote) \/ k = Len(wrote) + 1
  BY <1>0
<1>3. Newlines \subseteq Newlines'
  BY <1>0, <1>1 DEF Newlines
<1>4. \A end \in Newlines' : end \in Newlines \/ end = Len(wrote) + 1
  <2> SUFFICES ASSUME NEW end \in Newlines', end # Len(wrote) + 1 PROVE end \in Newlines
    OBVIOUS
  <2>1. end \in 1..(Len(wrote) + 1) /\ wrote'[end] = "n"
    BY <1>1 DEF Newlines
  <2>2. end \in 1..Len(wrote)
    BY <1>2, <2>1
  <2> QED
    BY <1>1, <2>1, <2>2 DEF Newlines
<1>5. ASSUME NEW end \in 1..(Len(wrote) + 1)
      PROVE  /\ Rank(end)' = Rank(end) /\ LineStart(end)' = LineStart(end)
             /\ LineStart(end) \in 1..end
  <2>1. end \in Nat \ {0} /\ ~(Len(wrote) + 1 < end)
    BY <1>0
  <2>2. \A x : x \in Before(end)' <=> x \in Before(end)
    BY <1>3, <1>4, <2>1, Zenon DEF Before
  <2>3. Before(end)' = Before(end)
    BY <2>2
  <2>4. LineStart(end) \in 1..end
    BY <2>1, StartFacts
  <2> QED
    BY <2>3, <2>4, StartIsAfter, StartIsAfterNext DEF Rank
<1>6. ASSUME NEW end \in 1..(Len(wrote) + 1) PROVE Accepted(end)' <=> Accepted(end)
  <2>1. \A k \in LineStart(end)..(end - 1) : wrote'[k] = wrote[k]
    BY <1>0, <1>1, <1>5
  <2>2. /\ Rank(end)' = Rank(end) /\ LineStart(end)' = LineStart(end)
    BY <1>5
  <2> QED
    BY <2>1, <2>2 DEF Accepted
<1>7. ASSUME NEW bytes, NEW end \in 1..(Len(wrote) + 1)
      PROVE  Carries(bytes, end)' <=> Carries(bytes, end)
  <2> DEFINE s == LineStart(end)
  <2>1. s \in 1..end /\ s' = s
    BY <1>5
  <2>2. (Carries(bytes, end) <=> Len(bytes) = end - s /\ \A k \in 1..Len(bytes) : bytes[k] = wrote[s + k - 1])
        /\ (Carries(bytes, end)' <=> Len(bytes) = end - s /\ \A k \in 1..Len(bytes) : bytes[k] = wrote'[s + k - 1])
    BY <2>1 DEF Carries
  <2> HIDE DEF s
  <2>3. ASSUME Len(bytes) = end - s, NEW k \in 1..Len(bytes) PROVE wrote'[s + k - 1] = wrote[s + k - 1]
    <3>1. s + k - 1 \in 1..Len(wrote)
      BY <1>0, <2>1, <2>3
    <3> QED
      BY <1>1, <3>1
  <2> QED
    BY <2>2, <2>3
<1> QED
  BY <1>1, <1>3, <1>4, <1>5, <1>6, <1>7

-----------------------------------------------------------------------------
(* Reasons stay                                                            *)

\* A reason stays one while the output does not change.
LEMMA BlameFrame ==
    ASSUME TypeOK, Blamed, UNCHANGED <<wrote, protocol>>, readFailed => readFailed',
           waitErrors > 0 => waitErrors' > 0, reader = "returned" => reader' = "returned"
    PROVE  Blamed'
<1>1. Settled \subseteq Settled'
  BY SameOutput DEF Settled, LineEnds
<1>2. Hopeless => Hopeless'
  <2>1. CASE Len(wrote) > protocol.maxStdout
    BY <2>1 DEF Hopeless
  <2>2. CASE \E end \in 1..(Len(wrote) + 1) :
               end > LineStart(end) /\ end - LineStart(end) >= protocol.maxRecord
    BY <2>2, SameOutput DEF Hopeless
  <2>3. CASE \E end \in Settled : Rank(end) >= protocol.meta + protocol.records \/ ~Accepted(end)
    BY <1>1, <2>3, SameOutput DEF Hopeless
  <2> QED
    BY <2>1, <2>2, <2>3 DEF Hopeless
<1> QED
  BY <1>2 DEF Blamed

\* Nor does a byte more take it away.
LEMMA BlameLonger ==
    ASSUME TypeOK, Blamed, NEW byte \in Bytes, HelperWrites(byte)
    PROVE  Blamed'
<1>0. wrote \in Seq(Bytes) /\ wrote' = Append(wrote, byte) /\ Len(wrote) \in Nat
      /\ reader = "reading" /\ UNCHANGED <<protocol, reader, readFailed, waitErrors>>
      /\ protocol.maxStdout \in Nat
  BY SupervisorAssumption DEF TypeOK, ByteStrings, HelperWrites, stdoutThread, world
<1>1. /\ Len(wrote') = Len(wrote) + 1 /\ Newlines \subseteq Newlines'
      /\ \A end \in 1..(Len(wrote) + 1) :
            /\ Rank(end)' = Rank(end) /\ LineStart(end)' = LineStart(end)
            /\ Accepted(end)' <=> Accepted(end)
  BY <1>0, LongerOutput
<1>2. Settled = Newlines /\ Settled' = Newlines' /\ Newlines \subseteq 1..(Len(wrote) + 1)
  BY <1>0, OutputSets DEF Settled
<1>3. Hopeless => Hopeless'
  <2>1. CASE Len(wrote) > protocol.maxStdout
    BY <1>0, <1>1, <2>1 DEF Hopeless
  <2>2. CASE \E end \in 1..(Len(wrote) + 1) :
               end > LineStart(end) /\ end - LineStart(end) >= protocol.maxRecord
    <3>1. \A end \in 1..(Len(wrote) + 1) : end \in 1..(Len(wrote') + 1)
      BY <1>0, <1>1
    <3> QED
      BY <1>0, <1>1, <2>2, <3>1 DEF Hopeless
  <2>3. CASE \E end \in Settled : Rank(end) >= protocol.meta + protocol.records \/ ~Accepted(end)
    BY <1>0, <1>1, <1>2, <2>3 DEF Hopeless
  <2> QED
    BY <2>1, <2>2, <2>3 DEF Hopeless
<1> QED
  BY <1>0, <1>3 DEF Blamed

-----------------------------------------------------------------------------
(* The stream                                                              *)

\* Steps that leave the stream alone.
LEMMA StreamFrame ==
    ASSUME StreamOK, Blamed => Blamed',
           UNCHANGED <<wrote, protocol, pipe, chunk, line, total, reader, channel, metadata,
                       measurements, stdoutDone>>
    PROVE  StreamOK'
<1>0. Received' = Received /\ Seen' = Seen /\ Settled' = Settled
  BY SameOutput DEF Received, Seen, Settled
<1>1. Conserved => Conserved'
  BY <1>0, SameOutput DEF Conserved
<1>2. Closing => Closing'
  BY <1>0, SameOutput DEF Closing
<1>3. Matching => Matching'
  BY <1>0, SameOutput DEF Matching
<1>4. Counted => Counted'
  BY <1>0 DEF Counted
<1> QED
  BY <1>0, <1>1, <1>2, <1>3, <1>4 DEF StreamOK

\* Types the steps of the stream use.
LEMMA StreamTypes ==
    ASSUME TypeOK
    PROVE  /\ wrote \in Seq(Bytes) /\ pipe \in Seq(Bytes) /\ chunk \in Seq(Bytes)
           /\ line \in Seq(Bytes) /\ channel \in Seq(StdoutEvents)
           /\ Len(wrote) \in Nat /\ Len(pipe) \in Nat /\ Len(chunk) \in Nat /\ Len(line) \in Nat
           /\ Len(channel) \in Nat /\ total \in Nat
           /\ metadata \in Nat /\ measurements \in Nat /\ Received \in Nat
           /\ protocol.meta \in Nat /\ protocol.records \in Nat /\ protocol.maxRecord \in Nat
           /\ protocol.maxStdout \in Nat
<1>1. /\ wrote \in Seq(Bytes) /\ pipe \in Seq(Bytes) /\ chunk \in Seq(Bytes)
      /\ line \in Seq(Bytes) /\ channel \in Seq(StdoutEvents)
  BY DEF TypeOK, ByteStrings, StdoutEvents
<1>2. Len(wrote) \in Nat /\ Len(pipe) \in Nat /\ Len(chunk) \in Nat /\ Len(line) \in Nat
      /\ Len(channel) \in Nat
  BY <1>1
<1>3. protocol \in [meta : Nat, records : Nat, maxRecord : Nat, maxStdout : Nat]
  BY SupervisorAssumption DEF TypeOK
<1> QED
  BY <1>1, <1>2, <1>3 DEF TypeOK, Received

\* A byte the helper writes enters the pipe behind everything else.
LEMMA StreamLonger ==
    ASSUME TypeOK, StreamOK, NEW byte \in Bytes, HelperWrites(byte)
    PROVE  StreamOK'
<1>s. /\ wrote \in Seq(Bytes) /\ pipe \in Seq(Bytes) /\ chunk \in Seq(Bytes)
      /\ line \in Seq(Bytes) /\ channel \in Seq(StdoutEvents)
  BY StreamTypes
<1>n. /\ Len(wrote) \in Nat /\ Len(pipe) \in Nat /\ Len(chunk) \in Nat /\ Len(line) \in Nat
      /\ Len(channel) \in Nat /\ total \in Nat /\ Received \in Nat
      /\ protocol.maxRecord \in Nat /\ protocol.maxStdout \in Nat
  BY StreamTypes
<1>0. /\ wrote' = Append(wrote, byte) /\ pipe' = Append(pipe, byte) /\ reader = "reading"
      /\ UNCHANGED <<protocol, chunk, line, total, reader, channel, metadata, measurements,
                     stdoutDone>>
  BY DEF HelperWrites, stdoutThread, collected, world
<1>1. /\ Len(wrote') = Len(wrote) + 1 /\ wrote'[Len(wrote) + 1] = byte
      /\ \A k \in 1..Len(wrote) : wrote'[k] = wrote[k]
      /\ Newlines \subseteq Newlines'
      /\ \A end \in Newlines' : end \in Newlines \/ end = Len(wrote) + 1
      /\ \A end \in 1..(Len(wrote) + 1) :
            /\ Rank(end)' = Rank(end) /\ LineStart(end)' = LineStart(end)
            /\ Accepted(end)' <=> Accepted(end)
      /\ \A bytes : \A end \in 1..(Len(wrote) + 1) : Carries(bytes, end)' <=> Carries(bytes, end)
  BY <1>0, <1>s, LongerOutput
<1>2. Conserved /\ Matching /\ Counted
  BY <1>0 DEF StreamOK
<1>3. Len(pipe') = Len(pipe) + 1 /\ pipe'[Len(pipe) + 1] = byte
      /\ \A k \in 1..Len(pipe) : pipe'[k] = pipe[k]
  BY <1>0, <1>s
<1>4. Seen \in Nat /\ Seen + Len(chunk) + Len(pipe) = Len(wrote) /\ Seen' = Seen
      /\ Received' = Received
  <2>1. Len(pipe) + Len(chunk) <= Len(wrote) /\ Len(wrote') = Len(wrote) + 1
        /\ Len(pipe') = Len(pipe) + 1 /\ chunk' = chunk /\ UNCHANGED <<metadata, measurements>>
    BY <1>0, <1>1, <1>2, <1>3 DEF Conserved
  <2> QED
    BY <1>n, <2>1 DEF Seen, Received
<1>5. Seen + 1 \in 1..(Len(wrote) + 1)
  BY <1>4, <1>n
<1>9. Len(wrote) \in Nat /\ Len(pipe) \in Nat /\ Len(chunk) \in Nat /\ Seen \in Nat
      /\ Seen + Len(chunk) + Len(pipe) = Len(wrote)
  BY <1>4, <1>n
<1>6. Conserved'
  <2>1. Len(pipe') + Len(chunk') <= Len(wrote')
    BY <1>0, <1>1, <1>3, <1>9
  <2>2. \A k \in 1..Len(chunk) : chunk[k] = wrote'[Seen + k]
    <3> SUFFICES ASSUME NEW k \in 1..Len(chunk) PROVE chunk[k] = wrote'[Seen + k]
      OBVIOUS
    <3>1. Seen + k \in 1..Len(wrote)
      BY <1>9
    <3> QED
      BY <1>1, <1>2, <3>1 DEF Conserved
  <2>3. \A k \in 1..Len(pipe') : pipe'[k] = wrote'[Seen + Len(chunk) + k]
    <3> SUFFICES ASSUME NEW k \in 1..(Len(pipe) + 1) PROVE pipe'[k] = wrote'[Seen + Len(chunk) + k]
      BY <1>3
    <3>1. CASE k = Len(pipe) + 1
      <4>1. Seen + Len(chunk) + k = Len(wrote) + 1
        BY <1>9, <3>1
      <4> QED
        BY <1>1, <1>3, <3>1, <4>1
    <3>2. CASE k \in 1..Len(pipe)
      <4>1. Seen + Len(chunk) + k \in 1..Len(wrote)
        BY <1>9, <3>2
      <4> QED
        BY <1>1, <1>2, <1>3, <3>2, <4>1 DEF Conserved
    <3> QED
      BY <1>9, <3>1, <3>2
  <2>4. Carries(line, Seen + 1)' /\ Rank(Seen + 1)' = Rank(Seen + 1)
    BY <1>0, <1>1, <1>2, <1>4, <1>5 DEF Conserved
  <2>5. total' = Len(wrote') - Len(pipe')
    BY <1>0, <1>1, <1>2, <1>3, <1>9 DEF Conserved
  <2>6. ~stdoutDone' /\ (\A j \in 1..Len(channel') : channel'[j].kind = "line")
        /\ Rank(Seen + 1)' = Received' + Len(channel')
    BY <1>0, <1>2, <1>4, <2>4 DEF Conserved
  <2>7. (\A k \in 1..Len(chunk') : chunk'[k] = wrote'[Seen' + k])
        /\ \A k \in 1..Len(pipe') : pipe'[k] = wrote'[Seen' + Len(chunk') + k]
    BY <1>0, <1>4, <2>2, <2>3
  <2> QED
    BY <2>1, <2>4, <2>5, <2>6, <2>7 DEF Conserved
<1>7. Matching'
  <2>1. Settled = Newlines /\ Settled' = Newlines' /\ \A end \in Newlines : end \in 1..(Len(wrote) + 1)
    BY <1>0, <1>s, OutputSets DEF Settled
  <2>2. ASSUME NEW j \in 1..Len(channel), channel[j].kind = "line"
        PROVE  \E end \in Settled' : Rank(end)' = Received + j - 1 /\ Carries(channel[j].bytes, end)'
    <3>1. PICK end \in Newlines : Rank(end) = Received + j - 1 /\ Carries(channel[j].bytes, end)
      BY <1>2, <2>1, <2>2 DEF Matching
    <3>2. end \in 1..(Len(wrote) + 1) /\ end \in Settled'
      BY <1>1, <2>1
    <3> QED
      BY <1>0, <1>1, <3>1, <3>2
  <2>3. ASSUME NEW end \in Settled', Rank(end)' < Received PROVE Accepted(end)'
    <3>1. end \in 1..(Len(wrote) + 1)
      BY <1>1, <1>9, <2>1
    <3>2. end # Len(wrote) + 1
      <4> SUFFICES ASSUME end = Len(wrote) + 1 PROVE FALSE
        OBVIOUS
      <4>1. Rank(Seen + 1) <= Rank(end)
        BY <1>9, <1>s, RankGrows
      <4>2. Rank(Seen + 1) \in Nat /\ Rank(end) \in Nat /\ Rank(Seen + 1) >= Received
        BY <1>2, <1>n, <1>s, OutputSets DEF Conserved
      <4> QED
        BY <1>1, <1>n, <2>3, <3>1, <4>1, <4>2
    <3> QED
      BY <1>1, <1>2, <2>1, <2>3, <3>1, <3>2 DEF Matching
  <2> QED
    BY <1>0, <1>4, <2>2, <2>3 DEF Matching
<1>8. Counted'
  BY <1>0, <1>2, <1>4 DEF Counted
<1> QED
  BY <1>0, <1>6, <1>7, <1>8 DEF StreamOK

\* When the stdout thread returns, an unterminated rest becomes a line, later
\* than every line the caller received.
LEMMA MatchingReturns ==
    ASSUME TypeOK, Conserved, Matching, reader = "reading", reader' = "returned",
           UNCHANGED <<wrote, protocol, metadata, measurements>>,
           Len(channel') \in Nat,
           \A j \in 1..Len(channel) : channel'[j] = channel[j],
           \A j \in 1..Len(channel') : j \notin 1..Len(channel) /\ channel'[j].kind = "line" =>
              \E end \in LineEnds : Rank(end) = Received + j - 1 /\ Carries(channel'[j].bytes, end)
    PROVE  Matching'
<1>s. /\ wrote \in Seq(Bytes) /\ pipe \in Seq(Bytes) /\ chunk \in Seq(Bytes)
      /\ line \in Seq(Bytes) /\ channel \in Seq(StdoutEvents)
  BY StreamTypes
<1>n. /\ Len(wrote) \in Nat /\ Len(pipe) \in Nat /\ Len(chunk) \in Nat /\ Len(line) \in Nat
      /\ Len(channel) \in Nat /\ total \in Nat /\ Received \in Nat
      /\ protocol.maxRecord \in Nat /\ protocol.maxStdout \in Nat
  BY StreamTypes
<1>1. Settled = Newlines /\ Settled' = LineEnds /\ Newlines \subseteq LineEnds /\ Received' = Received
  BY <1>s, SameOutput, OutputSets DEF Settled, Received
<1>2. ASSUME NEW j \in 1..Len(channel'), channel'[j].kind = "line"
      PROVE  \E end \in LineEnds : Rank(end) = Received + j - 1 /\ Carries(channel'[j].bytes, end)
  BY <1>1, <1>2 DEF Matching
<1>3. ASSUME NEW end \in LineEnds, Rank(end) < Received PROVE Accepted(end)
  <2>1. CASE end \in Newlines
    BY <1>1, <1>3, <2>1 DEF Matching
  <2>2. CASE end = Len(wrote) + 1
    <3>1. Seen \in Nat /\ Seen + 1 <= end /\ Rank(Seen + 1) >= Received
      BY <1>n, <2>2 DEF Conserved, Seen
    <3>2. end \in Nat
      BY <1>n, <2>2
    <3>3. Rank(Seen + 1) <= Rank(end) /\ Rank(Seen + 1) \in Nat /\ Rank(end) \in Nat
      BY <1>s, <3>1, <3>2, RankGrows, OutputSets
    <3> QED
      BY <1>3, <1>n, <3>1, <3>3
  <2> QED
    BY <1>s, <2>1, <2>2, OutputSets
<1> QED
  BY <1>1, <1>2, <1>3, SameOutput DEF Matching

\* The stdout thread gives up: it sends an error for which there is a reason.
LEMMA StreamError ==
    ASSUME TypeOK, StreamOK, reader = "reading", reader' = "returned",
           channel' = Append(channel, [kind |-> "error", bytes |-> <<>>]),
           UNCHANGED <<wrote, protocol, metadata, measurements, stdoutDone>>, Blamed'
    PROVE  StreamOK'
<1>s. /\ wrote \in Seq(Bytes) /\ pipe \in Seq(Bytes) /\ chunk \in Seq(Bytes)
      /\ line \in Seq(Bytes) /\ channel \in Seq(StdoutEvents)
  BY StreamTypes
<1>n. /\ Len(wrote) \in Nat /\ Len(pipe) \in Nat /\ Len(chunk) \in Nat /\ Len(line) \in Nat
      /\ Len(channel) \in Nat /\ total \in Nat /\ Received \in Nat
      /\ protocol.maxRecord \in Nat /\ protocol.maxStdout \in Nat
  BY StreamTypes
<1>1. Conserved /\ Matching /\ Counted
  BY DEF StreamOK
<1>2. /\ Len(channel') = Len(channel) + 1 /\ channel' # <<>>
      /\ channel'[Len(channel) + 1].kind = "error"
      /\ \A j \in 1..Len(channel) : channel'[j] = channel[j]
  <2> DEFINE event == [kind |-> "error", bytes |-> <<>>]
  <2>1. event \in StdoutEvents /\ event.kind = "error" /\ channel' = Append(channel, event)
    BY EventType
  <2> HIDE DEF event
  <2>2. /\ Len(channel') = Len(channel) + 1 /\ channel'[Len(channel) + 1] = event
        /\ \A j \in 1..Len(channel) : channel'[j] = channel[j]
    BY <1>s, <2>1
  <2>3. channel' # <<>>
    BY <1>n, <2>2
  <2> QED
    BY <2>1, <2>2, <2>3
<1>3. \A j \in 1..Len(channel') : j \in 1..Len(channel) \/ j = Len(channel) + 1
  BY <1>2, <1>n
<1>4. Matching'
  <2>1. \A j \in 1..Len(channel') : ~(j \notin 1..Len(channel) /\ channel'[j].kind = "line")
    BY <1>2, <1>3
  <2>2. Len(channel') \in Nat
    BY <1>2, <1>n
  <2> QED
    BY <1>1, <1>2, <2>1, <2>2, MatchingReturns
<1>5. Closing'
  <2>1. Len(channel') - 1 = Len(channel)
    BY <1>2, <1>n
  <2> QED
    BY <1>1, <1>2, <2>1 DEF Closing, Conserved
<1>6. Counted'
  BY <1>1 DEF Counted, Received
<1> QED
  BY <1>4, <1>5, <1>6 DEF StreamOK

\* A read moves bytes from the pipe to the chunk.
LEMMA StreamChunk ==
    ASSUME TypeOK, StreamOK, NEW n \in Nat, ReadChunk(n)
    PROVE  StreamOK'
<1>s. /\ wrote \in Seq(Bytes) /\ pipe \in Seq(Bytes) /\ chunk \in Seq(Bytes)
      /\ line \in Seq(Bytes) /\ channel \in Seq(StdoutEvents)
  BY StreamTypes
<1>n. /\ Len(wrote) \in Nat /\ Len(pipe) \in Nat /\ Len(chunk) \in Nat /\ Len(line) \in Nat
      /\ Len(channel) \in Nat /\ total \in Nat /\ Received \in Nat
      /\ protocol.maxRecord \in Nat /\ protocol.maxStdout \in Nat
  BY StreamTypes
<1>0. /\ reader = "reading" /\ chunk = <<>> /\ n \in 1..Len(pipe) /\ total' = total + n
      /\ pipe' = SubSeq(pipe, n + 1, Len(pipe))
      /\ UNCHANGED <<wrote, protocol, line, metadata, measurements, stdoutDone, readFailed, waitErrors>>
  BY DEF ReadChunk, child, collected, world
<1>1. Conserved /\ Matching /\ Counted
  BY <1>0 DEF StreamOK
<1>2. Len(chunk) = 0 /\ Len(pipe) <= Len(wrote) /\ total = Len(wrote) - Len(pipe)
  BY <1>0, <1>1, <1>n DEF Conserved
<1>3. CASE total + n > protocol.maxStdout
  <2>1. reader' = "returned" /\ channel' = Append(channel, [kind |-> "error", bytes |-> <<>>])
    BY <1>3 DEF ReadChunk, Send
  <2>2. Len(wrote) > protocol.maxStdout
    BY <1>0, <1>2, <1>3, <1>n
  <2>3. Blamed'
    BY <1>0, <2>2 DEF Blamed, Hopeless
  <2> QED
    BY <1>0, <2>1, <2>3, StreamError
<1>4. CASE ~(total + n > protocol.maxStdout)
  <2>1. chunk' = SubSeq(pipe, 1, n) /\ UNCHANGED <<channel, reader>>
    BY <1>4 DEF ReadChunk
  <2>2. Len(pipe') = Len(pipe) - n /\ \A k \in 1..(Len(pipe) - n) : pipe'[k] = pipe[n + k]
    BY <1>0, <1>s
  <2>3. Len(chunk') = n /\ \A k \in 1..n : chunk'[k] = pipe[k]
    BY <1>0, <1>s, <2>1
  <2>0. /\ n \in Nat /\ 1 <= n /\ n <= Len(pipe) /\ wrote' = wrote /\ total' = total + n
        /\ Len(wrote) \in Nat /\ Len(pipe) \in Nat /\ Len(chunk) = 0 /\ Len(pipe) <= Len(wrote)
        /\ UNCHANGED <<metadata, measurements>> /\ total = Len(wrote) - Len(pipe)
    BY <1>0, <1>2, <1>n
  <2>4. Seen' = Seen /\ Received' = Received /\ Seen \in Nat /\ Seen = Len(wrote) - Len(pipe)
    BY <2>0, <2>2, <2>3 DEF Seen, Received
  <2>5. \A k \in 1..Len(pipe) : pipe[k] = wrote[Seen + k]
    <3>1. \A k \in 1..Len(pipe) : pipe[k] = wrote[Seen + Len(chunk) + k]
      BY <1>1 DEF Conserved
    <3>2. \A k \in 1..Len(pipe) : Seen + Len(chunk) + k = Seen + k
      BY <2>0, <2>4
    <3> QED
      BY <3>1, <3>2
  <2>6. \A k \in 1..n : chunk'[k] = wrote[Seen + k]
    <3>1. \A k \in 1..n : k \in 1..Len(pipe)
      BY <2>0
    <3> QED
      BY <2>3, <2>5, <3>1
  <2>7. \A k \in 1..(Len(pipe) - n) : pipe'[k] = wrote[Seen + n + k]
    <3> SUFFICES ASSUME NEW k \in 1..(Len(pipe) - n) PROVE pipe'[k] = wrote[Seen + n + k]
      OBVIOUS
    <3>1. n + k \in 1..Len(pipe) /\ Seen + n + k = Seen + (n + k)
      BY <2>0, <2>4
    <3> QED
      BY <2>2, <2>5, <3>1
  <2>8. Carries(line, Seen + 1)' /\ Rank(Seen + 1)' = Rank(Seen + 1)
    BY <1>0, <1>1, <2>4, SameOutput DEF Conserved
  <2>9. Len(pipe') + Len(chunk') <= Len(wrote) /\ total' = Len(wrote) - Len(pipe')
    BY <2>0, <2>2, <2>3
  <2>10. Conserved'
    BY <1>0, <1>1, <2>1, <2>2, <2>3, <2>4, <2>6, <2>7, <2>8, <2>9 DEF Conserved
  <2>11. Matching' /\ Counted'
    <3>1. Settled' = Settled
      BY <1>0, <2>1, SameOutput DEF Settled
    <3> QED
      BY <1>0, <1>1, <2>1, <2>4, <3>1, SameOutput DEF Matching, Counted
  <2> QED
    BY <1>0, <2>1, <2>10, <2>11 DEF StreamOK
<1> QED
  BY <1>3, <1>4

\* After a newline the rest is empty.
LEMMA CarriesNothing ==
    ASSUME NEW end \in Nat, LineStart(end) = end
    PROVE  Carries(<<>>, end)
<1>1. Len(<<>>) = end - LineStart(end)
  OBVIOUS
<1>2. \A k \in 1..Len(<<>>) : <<>>[k] = wrote[LineStart(end) + k - 1]
  OBVIOUS
<1> QED
  BY <1>1, <1>2 DEF Carries

\* The byte at a position extends the line that ended there.
LEMMA CarriesMore ==
    ASSUME NEW end \in Nat, NEW bytes \in Seq(Bytes), Carries(bytes, end), NEW byte \in Bytes,
           wrote[end] = byte, LineStart(end) \in Nat, LineStart(end + 1) = LineStart(end)
    PROVE  Carries(Append(bytes, byte), end + 1)
<1> DEFINE longer == Append(bytes, byte)
           s == LineStart(end)
<1>1. Len(longer) = Len(bytes) + 1 /\ longer[Len(bytes) + 1] = byte /\ Len(bytes) \in Nat
      /\ \A k \in 1..Len(bytes) : longer[k] = bytes[k]
  OBVIOUS
<1>2. Len(bytes) = end - s /\ \A k \in 1..Len(bytes) : bytes[k] = wrote[s + k - 1]
  BY DEF Carries
<1>6. s \in Nat /\ LineStart(end + 1) = s
  OBVIOUS
<1> HIDE DEF longer, s
<1>3. Len(longer) = end + 1 - s
  <2>1. Len(longer) = Len(bytes) + 1 /\ Len(bytes) = end - s /\ Len(bytes) \in Nat
    BY <1>1, <1>2
  <2> QED
    BY <1>6, <2>1
<1>4. ASSUME NEW k \in 1..Len(longer) PROVE longer[k] = wrote[s + k - 1]
  <2>0. Len(longer) = Len(bytes) + 1 /\ Len(bytes) = end - s /\ Len(bytes) \in Nat
    BY <1>1, <1>2
  <2>1. CASE k \in 1..Len(bytes)
    BY <1>1, <1>2, <2>1
  <2>2. CASE k = Len(bytes) + 1
    <3>1. s + k - 1 = end
      BY <1>6, <2>0, <2>2
    <3> QED
      BY <1>1, <2>2, <3>1
  <2>3. k \in 1..Len(bytes) \/ k = Len(bytes) + 1
    BY <2>0
  <2> QED
    BY <2>1, <2>2, <2>3
<1>5. Carries(longer, end + 1)
  BY <1>3, <1>4, <1>6 DEF Carries
<1> QED
  BY <1>5 DEF longer

\* A line that is too long, terminated or not, is a reason.
LEMMA TooLong ==
    ASSUME NEW end \in 1..(Len(wrote) + 1), end > LineStart(end),
           end - LineStart(end) >= protocol.maxRecord
    PROVE  Blamed
BY DEF Blamed, Hopeless

\* A byte is looked at: a newline sends the line it ends, any other byte
\* extends it, up to a line that is too long.
LEMMA StreamByte ==
    ASSUME TypeOK, StreamOK, ReadByte
    PROVE  StreamOK'
<1>s. /\ wrote \in Seq(Bytes) /\ pipe \in Seq(Bytes) /\ chunk \in Seq(Bytes)
      /\ line \in Seq(Bytes) /\ channel \in Seq(StdoutEvents)
  BY StreamTypes
<1>n. /\ Len(wrote) \in Nat /\ Len(pipe) \in Nat /\ Len(chunk) \in Nat /\ Len(line) \in Nat
      /\ Len(channel) \in Nat /\ total \in Nat /\ Received \in Nat
      /\ protocol.maxRecord \in Nat /\ protocol.maxStdout \in Nat
  BY StreamTypes
<1>0. /\ reader = "reading" /\ chunk # <<>> /\ chunk' = Tail(chunk)
      /\ UNCHANGED <<wrote, protocol, pipe, total, metadata, measurements, stdoutDone, readFailed,
                     waitErrors>>
  BY DEF ReadByte, child, collected, world
<1>1. Conserved /\ Matching /\ Counted
  BY <1>0 DEF StreamOK
<1> DEFINE byte == Head(chunk)
           s == LineStart(Seen + 1)
<1>2. /\ Len(chunk) >= 1 /\ Len(chunk') = Len(chunk) - 1 /\ byte = chunk[1]
      /\ \A k \in 1..Len(chunk') : chunk'[k] = chunk[k + 1]
  BY <1>0, <1>s
<1>3. /\ Seen \in Nat /\ Seen' = Seen + 1 /\ Seen + Len(chunk) + Len(pipe) = Len(wrote)
      /\ Received' = Received
  <2>1. Len(pipe) + Len(chunk) <= Len(wrote) /\ UNCHANGED <<wrote, pipe, metadata, measurements>>
    BY <1>0, <1>1 DEF Conserved
  <2> QED
    BY <1>2, <1>n, <2>1 DEF Seen, Received
<1>4. Seen + 1 \in 1..Len(wrote) /\ wrote[Seen + 1] = byte
  <2>1. Seen + 1 \in 1..Len(wrote) /\ 1 \in 1..Len(chunk)
    BY <1>2, <1>3, <1>n
  <2> QED
    BY <1>1, <1>2, <2>1 DEF Conserved
<1>5. \A k \in 1..Len(chunk') : chunk'[k] = wrote[Seen' + k]
  <2> SUFFICES ASSUME NEW k \in 1..Len(chunk') PROVE chunk'[k] = wrote[Seen' + k]
    OBVIOUS
  <2>1. k + 1 \in 1..Len(chunk) /\ Seen' + k = Seen + (k + 1)
    BY <1>2, <1>3, <1>n
  <2> QED
    BY <1>1, <1>2, <2>1 DEF Conserved
<1>6. \A k \in 1..Len(pipe) : pipe[k] = wrote[Seen' + Len(chunk') + k]
  <2> SUFFICES ASSUME NEW k \in 1..Len(pipe) PROVE pipe[k] = wrote[Seen' + Len(chunk') + k]
    OBVIOUS
  <2>1. Seen' + Len(chunk') + k = Seen + Len(chunk) + k
    BY <1>2, <1>3, <1>n
  <2> QED
    BY <1>1, <2>1 DEF Conserved
<1>7. Len(pipe) + Len(chunk') <= Len(wrote)
  BY <1>2, <1>3, <1>n
<1>8. /\ s \in Nat /\ 1 <= s /\ s <= Seen + 1 /\ Len(line) = Seen + 1 - s
      /\ \A k \in 1..Len(line) : line[k] = wrote[s + k - 1]
      /\ Rank(Seen + 1) = Received + Len(channel) /\ Rank(Seen + 1) \in Nat
  <2>1. Seen + 1 \in Nat \ {0}
    BY <1>3
  <2>2. s \in 1..(Seen + 1)
    BY <1>s, <2>1, StartFacts
  <2>3. Rank(Seen + 1) \in Nat
    BY <1>s, OutputSets
  <2> QED
    BY <1>1, <1>3, <2>2, <2>3 DEF Conserved, Carries
<1> HIDE DEF byte, s
<1>9. CASE byte = "n"
  <2>1. /\ channel' = Append(channel, [kind |-> "line", bytes |-> line])
        /\ line' = <<>> /\ reader' = reader
    BY <1>9 DEF ReadByte, Send, byte
  <2>2. Seen + 1 \in Newlines /\ Seen + 1 \in Nat \ {0}
    BY <1>3, <1>4, <1>9 DEF Newlines
  <2>3. Rank(Seen + 2) = Rank(Seen + 1) + 1 /\ LineStart(Seen + 2) = Seen + 2
    <3>1. Seen + 1 + 1 = Seen + 2
      BY <1>3
    <3> QED
      BY <1>s, <2>2, <3>1, RankNext
  <2> DEFINE event == [kind |-> "line", bytes |-> line]
  <2>4. event \in StdoutEvents /\ event.kind = "line" /\ event.bytes = line
        /\ channel' = Append(channel, event)
    BY <2>1, EventType
  <2> HIDE DEF event
  <2>5. /\ Len(channel') = Len(channel) + 1 /\ channel'[Len(channel) + 1] = event
        /\ \A j \in 1..Len(channel) : channel'[j] = channel[j]
    BY <1>s, <2>4
  <2>6. \A j \in 1..Len(channel') : j \in 1..Len(channel) \/ j = Len(channel) + 1
    BY <1>n, <2>5
  <2>7. Conserved'
    <3>1. Seen' + 1 = Seen + 2 /\ Len(line') = 0 /\ 0 = Seen + 2 - (Seen + 2)
      BY <1>3, <2>1
    <3>2. Carries(line, Seen + 1)'
      <4>0. Seen + 2 \in Nat
        BY <1>3
      <4>1. Carries(<<>>, Seen + 2)
        BY <2>3, <4>0, CarriesNothing
      <4> QED
        BY <1>0, <2>1, <3>1, <4>1, SameOutput
    <3>3. Rank(Seen + 1)' = Received' + Len(channel')
      <4>1. Rank(Seen + 1)' = Rank(Seen + 2)
        BY <1>0, <3>1, SameOutput
      <4> QED
        BY <1>3, <1>8, <1>n, <2>3, <2>5, <4>1
    <3>4. \A j \in 1..Len(channel') : channel'[j].kind = "line"
      BY <1>1, <2>4, <2>5, <2>6 DEF Conserved
    <3>5. ~stdoutDone' /\ total' = Len(wrote') - Len(pipe')
      BY <1>0, <1>1 DEF Conserved
    <3> QED
      BY <1>0, <1>5, <1>6, <1>7, <3>2, <3>3, <3>4, <3>5 DEF Conserved
  <2>8. Matching'
    <3>1. Settled' = Settled /\ Settled = Newlines
      BY <1>0, <2>1, SameOutput DEF Settled
    <3>2. ASSUME NEW j \in 1..Len(channel'), channel'[j].kind = "line"
          PROVE  \E end \in Settled : Rank(end) = Received + j - 1 /\ Carries(channel'[j].bytes, end)
      <4>1. CASE j \in 1..Len(channel)
        BY <1>1, <2>5, <3>2, <4>1 DEF Matching
      <4>2. CASE j = Len(channel) + 1
        <5>1. Rank(Seen + 1) = Received + j - 1
          BY <1>8, <1>n, <4>2
        <5>2. Carries(channel'[j].bytes, Seen + 1)
          BY <1>1, <2>4, <2>5, <4>2 DEF Conserved
        <5> QED
          BY <2>2, <3>1, <5>1, <5>2
      <4> QED
        BY <2>6, <4>1, <4>2
    <3>3. \A end \in Settled : Rank(end) < Received => Accepted(end)
      BY <1>1 DEF Matching
    <3> QED
      BY <1>0, <1>3, <3>1, <3>2, <3>3, SameOutput DEF Matching
  <2>9. Counted'
    BY <1>0, <1>1, <1>3 DEF Counted
  <2> QED
    BY <1>0, <2>1, <2>7, <2>8, <2>9 DEF StreamOK
<1>10. CASE byte # "n"
  <2>1. line' = Append(line, byte)
    BY <1>10 DEF ReadByte, byte
  <2>2. Seen + 1 \notin Newlines /\ Seen + 1 \in Nat \ {0}
    BY <1>3, <1>4, <1>10 DEF Newlines
  <2>3. Rank(Seen + 2) = Rank(Seen + 1) /\ LineStart(Seen + 2) = s
    <3>1. Seen + 1 + 1 = Seen + 2
      BY <1>3
    <3> QED
      BY <1>s, <2>2, <3>1, RankNext DEF s
  <2>4. byte \in Bytes
    BY <1>0, <1>s DEF byte
  <2>5. /\ Len(line') = Len(line) + 1 /\ line'[Len(line) + 1] = byte
        /\ \A k \in 1..Len(line) : line'[k] = line[k]
    BY <1>s, <2>1, <2>4
  <2>6. Seen' + 1 = Seen + 2
    BY <1>3
  <2>7. CASE ~(Len(line) + 1 >= protocol.maxRecord)
    <3>1. UNCHANGED <<channel, reader>>
      BY <1>10, <2>7 DEF ReadByte, byte
    <3>2. Carries(line, Seen + 1)'
      <4>1. Seen + 1 \in Nat /\ Seen + 1 + 1 = Seen + 2
        BY <1>3
      <4>2. LineStart(Seen + 1) \in Nat /\ LineStart(Seen + 1 + 1) = LineStart(Seen + 1)
        BY <1>8, <2>3, <4>1 DEF s
      <4>3. wrote[Seen + 1] = byte /\ Carries(line, Seen + 1) /\ line \in Seq(Bytes)
        BY <1>1, <1>4, <1>s DEF Conserved
      <4>4. Carries(Append(line, byte), Seen + 2)
        BY <2>4, <4>1, <4>2, <4>3, CarriesMore
      <4> QED
        BY <1>0, <2>1, <2>6, <4>4, SameOutput
    <3>3. Rank(Seen + 1)' = Received' + Len(channel')
      <4>1. Rank(Seen + 1)' = Rank(Seen + 2)
        BY <1>0, <2>6, SameOutput
      <4> QED
        BY <1>3, <1>8, <2>3, <3>1, <4>1
    <3>4. ~stdoutDone' /\ total' = Len(wrote') - Len(pipe')
          /\ \A j \in 1..Len(channel') : channel'[j].kind = "line"
      BY <1>0, <1>1, <3>1 DEF Conserved
    <3>5. Conserved'
      BY <1>0, <1>5, <1>6, <1>7, <3>2, <3>3, <3>4 DEF Conserved
    <3>6. Settled' = Settled
      BY <1>0, <3>1, SameOutput DEF Settled
    <3>7. Matching' /\ Counted'
      BY <1>0, <1>1, <1>3, <3>1, <3>6, SameOutput DEF Matching, Counted
    <3> QED
      BY <1>0, <3>1, <3>5, <3>7 DEF StreamOK
  <2>8. CASE Len(line) + 1 >= protocol.maxRecord
    <3>1. reader' = "returned" /\ channel' = Append(channel, [kind |-> "error", bytes |-> <<>>])
      BY <1>10, <2>8 DEF ReadByte, Send, byte
    <3>2. PICK e : e = Seen + 2
      OBVIOUS
    <3>3. Blamed
      <4>1. LineStart(e) = s
        BY <2>3, <3>2
      <4>2. s \in Nat /\ Seen \in Nat /\ Len(line) = Seen + 1 - s /\ s <= Seen + 1
            /\ protocol.maxRecord \in Nat
        BY <1>3, <1>8, <1>n
      <4>3. e > s /\ e - s >= protocol.maxRecord
        BY <2>8, <3>2, <4>2
      <4>4. e \in 1..(Len(wrote) + 1)
        BY <1>3, <1>4, <1>n, <3>2
      <4> QED
        BY <4>1, <4>3, <4>4, TooLong
    <3>4. Blamed'
      BY <1>0, <3>1, <3>3, BlameFrame
    <3> QED
      BY <1>0, <3>1, <3>4, StreamError
  <2> QED
    BY <2>7, <2>8
<1> QED
  BY <1>9, <1>10

\* End of file: the rest of the output is its last line, if there is any.
LEMMA StreamEnd ==
    ASSUME TypeOK, StreamOK, ReadEnd
    PROVE  StreamOK'
<1>s. wrote \in Seq(Bytes) /\ line \in Seq(Bytes) /\ channel \in Seq(StdoutEvents)
  BY StreamTypes
<1>n. Len(wrote) \in Nat /\ Len(line) \in Nat /\ Len(channel) \in Nat /\ Received \in Nat
  BY StreamTypes
<1>0. /\ reader = "reading" /\ reader' = "returned" /\ chunk = <<>> /\ pipe = <<>>
      /\ channel' = channel \o Tailed \o <<[kind |-> "done", bytes |-> <<>>]>>
      /\ UNCHANGED <<wrote, protocol, metadata, measurements, stdoutDone>>
  BY DEF ReadEnd, child, collected, world
<1>1. Conserved /\ Matching /\ Counted
  BY <1>0 DEF StreamOK
<1> DEFINE e == Len(wrote) + 1
           s == LineStart(e)
           last == [kind |-> "done", bytes |-> <<>>]
           rest == [kind |-> "line", bytes |-> line]
<1>2. Seen + 1 = e
  <2>1. Len(pipe) = 0 /\ Len(chunk) = 0
    BY <1>0
  <2> QED
    BY <1>n, <2>1 DEF Seen
<1>3. Carries(line, e) /\ Rank(e) = Received + Len(channel) /\ e \in Nat \ {0} /\ ~stdoutDone
      /\ \A j \in 1..Len(channel) : channel[j].kind = "line"
  BY <1>1, <1>2, <1>n DEF Conserved
<1>4. s \in 1..e /\ (\A k \in Before(e) : k < s) /\ Len(line) = e - s
  BY <1>s, <1>3, StartFacts DEF Carries
<1>5. /\ last \in StdoutEvents /\ rest \in StdoutEvents
      /\ last.kind = "done" /\ rest.kind = "line" /\ rest.bytes = line
  BY EventType
<1>6. /\ Cardinality(LineEnds) = Rank(e) + (IF e \in LineEnds THEN 1 ELSE 0)
  BY <1>s, RankOfEnds
<1>7. Tailed = IF line = <<>> THEN <<>> ELSE <<rest>>
  BY DEF Tailed
<1>8. channel' = channel \o Tailed \o <<last>>
  BY <1>0
<1> HIDE DEF last, rest
<1>9. CASE line = <<>>
  <2>1. s = e
    BY <1>3, <1>4, <1>9
  <2>2. e \notin LineEnds
    <3> SUFFICES ASSUME e \in LineEnds PROVE FALSE
      OBVIOUS
    <3>1. wrote # <<>> /\ wrote[Len(wrote)] # "n"
      <4>1. e \notin Newlines
        BY <1>n DEF Newlines
      <4> QED
        BY <4>1 DEF LineEnds
    <3>2. Len(wrote) \in Nat \ {0}
      BY <1>s, <3>1
    <3>3. CASE Before(e) = {}
      <4>1. s = 1
        BY <1>s, <1>3, <3>3, StartFacts
      <4> QED
        BY <2>1, <3>2, <4>1
    <3>4. CASE Before(e) # {}
      <4>1. s - 1 \in Before(e)
        BY <1>s, <1>3, <3>4, StartFacts
      <4>2. Len(wrote) \in Newlines
        BY <1>n, <2>1, <4>1, BeforeMember
      <4> QED
        BY <3>1, <4>2 DEF Newlines
    <3> QED
      BY <3>3, <3>4
  <2>3. /\ Len(channel') = Len(channel) + 1 /\ channel'[Len(channel) + 1] = last
        /\ \A j \in 1..Len(channel) : channel'[j] = channel[j]
    BY <1>s, <1>5, <1>7, <1>8, <1>9
  <2>4. channel' # <<>> /\ Len(channel') \in Nat /\ Len(channel') - 1 = Len(channel)
        /\ \A j \in 1..Len(channel') : j \in 1..Len(channel) \/ j = Len(channel) + 1
    BY <1>n, <2>3
  <2>5. Matching'
    <3>1. \A j \in 1..Len(channel') : ~(j \notin 1..Len(channel) /\ channel'[j].kind = "line")
      BY <1>5, <2>3, <2>4
    <3> QED
      BY <1>0, <1>1, <2>3, <2>4, <3>1, MatchingReturns
  <2>6. Cardinality(LineEnds) = Received + Len(channel') - 1
    BY <1>3, <1>6, <1>n, <2>2, <2>3
  <2>7. Closing'
    <3>1. Cardinality(LineEnds)' = Received' + Len(channel') - 1
      BY <1>0, <2>6, SameOutput DEF Received
    <3>2. channel'[Len(channel')].kind = "done"
      BY <1>5, <2>3
    <3>3. \A j \in 1..(Len(channel') - 1) : channel'[j].kind = "line"
      BY <1>3, <2>3, <2>4
    <3> QED
      BY <1>0, <1>3, <2>4, <3>1, <3>2, <3>3 DEF Closing
  <2>8. Counted'
    BY <1>0, <1>1 DEF Counted, Received
  <2> QED
    BY <1>0, <2>5, <2>7, <2>8 DEF StreamOK
<1>10. CASE line # <<>>
  <2>1. s < e
    BY <1>3, <1>4, <1>n, <1>s, <1>10
  <2>2. e \in LineEnds
    <3>1. Len(wrote) >= 1 /\ Len(wrote) >= s
      BY <1>4, <1>n, <2>1
    <3>2. Len(wrote) \notin Before(e)
      BY <1>4, <1>n, <3>1
    <3>3. Len(wrote) \notin Newlines
      BY <1>n, <3>2, BeforeMember
    <3>4. wrote # <<>> /\ wrote[Len(wrote)] # "n"
      BY <1>s, <1>n, <3>1, <3>3 DEF Newlines
    <3> QED
      BY <3>4 DEF LineEnds
  <2>3. /\ Len(channel') = Len(channel) + 2 /\ channel'[Len(channel) + 2] = last
        /\ channel'[Len(channel) + 1] = rest
        /\ \A j \in 1..Len(channel) : channel'[j] = channel[j]
    <3>1. Tailed = <<rest>>
      BY <1>7, <1>10
    <3> DEFINE mid == channel \o <<rest>>
    <3>2. mid \in Seq(StdoutEvents) /\ Len(mid) = Len(channel) + 1 /\ mid[Len(channel) + 1] = rest
          /\ \A j \in 1..Len(channel) : mid[j] = channel[j]
      BY <1>s, <1>5
    <3>3. channel' = mid \o <<last>>
      BY <1>8, <3>1
    <3> HIDE DEF mid
    <3>4. /\ Len(channel') = Len(mid) + 1 /\ channel'[Len(mid) + 1] = last
          /\ \A j \in 1..Len(mid) : channel'[j] = mid[j]
      BY <1>5, <3>2, <3>3
    <3>5. Len(mid) + 1 = Len(channel) + 2 /\ Len(channel) + 1 \in 1..Len(mid)
          /\ \A j \in 1..Len(channel) : j \in 1..Len(mid)
      BY <1>n, <3>2
    <3> QED
      BY <3>2, <3>4, <3>5
  <2>4. channel' # <<>> /\ Len(channel') \in Nat /\ Len(channel') - 1 = Len(channel) + 1
        /\ (\A j \in 1..Len(channel') :
              j \in 1..Len(channel) \/ j = Len(channel) + 1 \/ j = Len(channel) + 2)
        /\ \A j \in 1..(Len(channel') - 1) : j \in 1..Len(channel) \/ j = Len(channel) + 1
    BY <1>n, <2>3
  <2>5. Matching'
    <3>1. ASSUME NEW j \in 1..Len(channel'), j \notin 1..Len(channel), channel'[j].kind = "line"
          PROVE  \E end \in LineEnds : Rank(end) = Received + j - 1 /\ Carries(channel'[j].bytes, end)
      <4>1. j = Len(channel) + 1
        BY <1>5, <2>3, <2>4, <3>1
      <4>2. Rank(e) = Received + j - 1
        BY <1>3, <1>n, <4>1
      <4>3. Carries(channel'[j].bytes, e)
        BY <1>3, <1>5, <2>3, <4>1
      <4> QED
        BY <2>2, <4>2, <4>3
    <3> QED
      BY <1>0, <1>1, <2>3, <2>4, <3>1, MatchingReturns
  <2>6. Cardinality(LineEnds) = Received + Len(channel') - 1
    BY <1>3, <1>6, <1>n, <2>2, <2>3
  <2>7. Closing'
    <3>1. Cardinality(LineEnds)' = Received' + Len(channel') - 1
      BY <1>0, <2>6, SameOutput DEF Received
    <3>2. channel'[Len(channel')].kind = "done"
      BY <1>5, <2>3
    <3>3. \A j \in 1..(Len(channel') - 1) : channel'[j].kind = "line"
      BY <1>3, <1>5, <2>3, <2>4
    <3> QED
      BY <1>0, <1>3, <2>4, <3>1, <3>2, <3>3 DEF Closing
  <2>8. Counted'
    BY <1>0, <1>1 DEF Counted, Received
  <2> QED
    BY <1>0, <2>5, <2>7, <2>8 DEF StreamOK
<1> QED
  BY <1>9, <1>10

-----------------------------------------------------------------------------
(* The caller                                                              *)

\* The first event of the channel, and the channel without it.
LEMMA ChannelHead ==
    ASSUME TypeOK, channel # <<>>, channel' = Tail(channel)
    PROVE  /\ Len(channel) \in Nat /\ Len(channel) >= 1 /\ Head(channel) = channel[1]
           /\ channel[1].bytes \in Seq(Bytes)
           /\ Len(channel') = Len(channel) - 1
           /\ \A j \in 1..Len(channel') : j + 1 \in 1..Len(channel) /\ channel'[j] = channel[j + 1]
<1>1. channel \in Seq(StdoutEvents)
  BY StreamTypes
<1>2. /\ Len(channel) \in Nat /\ Len(channel) >= 1 /\ Head(channel) = channel[1]
      /\ Len(channel') = Len(channel) - 1
      /\ \A j \in 1..(Len(channel) - 1) : channel'[j] = channel[j + 1]
  BY <1>1
<1>3. 1 \in 1..Len(channel)
  BY <1>2
<1>4. channel[1] \in StdoutEvents
  BY <1>1, <1>3
<1>5. channel[1].bytes \in Seq(Bytes)
  BY <1>4 DEF StdoutEvents, ByteStrings
<1>6. \A j \in 1..(Len(channel) - 1) : j + 1 \in 1..Len(channel)
  BY <1>2
<1> QED
  BY <1>2, <1>5, <1>6

\* The caller checks a line it receives against what CompleteProtocol asks of
\* the line of its index.
LEMMA CheckedLine ==
    ASSUME TypeOK, Counted, NEW bytes \in Seq(Bytes), NEW end \in LineEnds,
           Rank(end) = Received, Carries(bytes, end)
    PROVE  Accepted(end) <=> ~(\/ Len(bytes) + 1 > protocol.maxRecord
                               \/ metadata >= protocol.meta /\ ~Parses(bytes))
<1> DEFINE s == LineStart(end)
<1>t. /\ wrote \in Seq(Bytes) /\ metadata \in Nat /\ measurements \in Nat
      /\ protocol.meta \in Nat /\ protocol.records \in Nat /\ protocol.maxRecord \in Nat
  BY StreamTypes
<1>1. end \in Nat \ {0}
  BY <1>t, OutputSets
<1>2. s \in Nat /\ 1 <= s /\ s <= end
  <2>1. s \in 1..end
    BY <1>t, <1>1, StartFacts
  <2> QED
    BY <1>1, <2>1
<1>3. Len(bytes) = end - s /\ Len(bytes) \in Nat
      /\ \A k \in 1..Len(bytes) : bytes[k] = wrote[s + k - 1]
  BY DEF Carries
<1>4. Received >= protocol.meta <=> metadata >= protocol.meta
  BY <1>t DEF Counted, Received
<1> HIDE DEF s
<1>9. end \in Nat /\ s \in Nat /\ 1 <= s /\ s <= end /\ Len(bytes) = end - s /\ Len(bytes) \in Nat
      /\ protocol.maxRecord \in Nat
  BY <1>t, <1>1, <1>2, <1>3
<1>5. end - s < protocol.maxRecord <=> ~(Len(bytes) + 1 > protocol.maxRecord)
  BY <1>9
<1>6. bytes # <<>> <=> end > s
  <2>1. bytes # <<>> <=> Len(bytes) # 0
    OBVIOUS
  <2> QED
    BY <1>9, <2>1
<1>7. (\A k \in DOMAIN bytes : bytes[k] = "x") <=> \A k \in s..(end - 1) : wrote[k] = "x"
  <2>0. DOMAIN bytes = 1..Len(bytes)
    OBVIOUS
  <2>1. ASSUME \A k \in DOMAIN bytes : bytes[k] = "x", NEW k \in s..(end - 1)
        PROVE  wrote[k] = "x"
    <3>1. k - s + 1 \in 1..Len(bytes) /\ s + (k - s + 1) - 1 = k
      BY <1>9
    <3>2. bytes[k - s + 1] = wrote[k]
      BY <1>3, <3>1
    <3> QED
      BY <2>0, <2>1, <3>1, <3>2
  <2>2. ASSUME \A k \in s..(end - 1) : wrote[k] = "x", NEW k \in DOMAIN bytes
        PROVE  bytes[k] = "x"
    <3>1. k \in 1..Len(bytes)
      BY <2>0
    <3>2. s + k - 1 \in s..(end - 1)
      BY <1>9, <3>1
    <3> QED
      BY <1>3, <2>2, <3>1, <3>2
  <2> QED
    BY <2>1, <2>2
<1>8. Parses(bytes) <=> end > s /\ \A k \in s..(end - 1) : wrote[k] = "x"
  BY <1>6, <1>7 DEF Parses
<1>10. Accepted(end) <=> /\ end - s < protocol.maxRecord
                         /\ metadata >= protocol.meta => Parses(bytes)
  BY <1>4, <1>8 DEF Accepted, s
<1> QED
  BY <1>5, <1>10

\* A line is received: it is counted, or it is the reason of the failure.
LEMMA StreamLine ==
    ASSUME TypeOK, StreamOK, ReceiveLine
    PROVE  \/ failure' = failure /\ StreamOK'
           \/ failure' = "output" /\ Blamed'
<1>0. /\ channel # <<>> /\ Head(channel).kind = "line" /\ channel' = Tail(channel)
      /\ UNCHANGED <<wrote, protocol, pipe, chunk, line, total, reader, stdoutDone, readFailed,
                     waitErrors>>
  BY DEF ReceiveLine, child, stdoutThread, world
<1>t. /\ wrote \in Seq(Bytes) /\ metadata \in Nat /\ measurements \in Nat /\ Received \in Nat
      /\ protocol.meta \in Nat /\ protocol.records \in Nat /\ protocol.maxRecord \in Nat
  BY StreamTypes
<1>1. /\ Len(channel) \in Nat /\ Len(channel) >= 1 /\ Head(channel) = channel[1]
      /\ channel[1].bytes \in Seq(Bytes)
      /\ Len(channel') = Len(channel) - 1
      /\ \A j \in 1..Len(channel') : j + 1 \in 1..Len(channel) /\ channel'[j] = channel[j + 1]
  BY <1>0, ChannelHead
<1>2. Matching /\ Counted
  BY DEF StreamOK
<1>c. 1 \in 1..Len(channel) /\ Received + 1 - 1 = Received
  BY <1>1, <1>t
<1> DEFINE bytes == channel[1].bytes
<1>3. PICK end \in Settled : Rank(end) = Received /\ Carries(bytes, end)
  BY <1>0, <1>1, <1>2, <1>c DEF Matching
<1>4. Settled \subseteq LineEnds
  BY DEF Settled, LineEnds
<1> DEFINE refused == \/ metadata + measurements >= protocol.meta + protocol.records
                      \/ Len(bytes) + 1 > protocol.maxRecord
                      \/ metadata >= protocol.meta /\ ~Parses(bytes)
<1>5. refused <=> Received >= protocol.meta + protocol.records \/ ~Accepted(end)
  BY <1>1, <1>2, <1>3, <1>4, CheckedLine DEF Received
<1>6. \/ refused /\ failure' = "output"
      \/ /\ ~refused /\ metadata < protocol.meta /\ metadata' = metadata + 1
         /\ UNCHANGED <<measurements, failure>>
      \/ /\ ~refused /\ metadata >= protocol.meta /\ measurements' = measurements + 1
         /\ UNCHANGED <<metadata, failure>>
  BY <1>1 DEF ReceiveLine, supervision_failure
<1> HIDE DEF bytes, refused
<1>7. CASE refused
  <2>1. Blamed
    BY <1>3, <1>5, <1>7 DEF Blamed, Hopeless
  <2>2. Blamed'
    BY <1>0, <2>1, BlameFrame
  <2> QED
    BY <1>6, <1>7, <2>2
<1>8. CASE ~refused
  <2>1. /\ failure' = failure
        /\ \/ metadata < protocol.meta /\ metadata' = metadata + 1 /\ measurements' = measurements
           \/ metadata >= protocol.meta /\ measurements' = measurements + 1 /\ metadata' = metadata
    BY <1>6, <1>8
  <2>2. Received < protocol.meta + protocol.records /\ Accepted(end)
    BY <1>5, <1>8, <1>t
  <2>3. Received' = Received + 1
    BY <1>t, <2>1 DEF Received
  <2>4. Counted'
    BY <1>0, <1>2, <1>t, <2>1, <2>2, <2>3 DEF Counted
  <2>5. Settled' = Settled
    BY <1>0, SameOutput DEF Settled
  <2>6. Matching'
    <3>1. ASSUME NEW j \in 1..Len(channel'), channel'[j].kind = "line"
          PROVE  \E e \in Settled : Rank(e) = Received' + j - 1 /\ Carries(channel'[j].bytes, e)
      <4>1. j + 1 \in 1..Len(channel) /\ channel'[j] = channel[j + 1]
        BY <1>1
      <4>2. Received + (j + 1) - 1 = Received' + j - 1
        BY <1>1, <1>t, <2>3
      <4> QED
        BY <1>2, <3>1, <4>1, <4>2 DEF Matching
    <3>2. ASSUME NEW e \in Settled, Rank(e) < Received' PROVE Accepted(e)
      <4>1. Rank(e) \in Nat
        BY <1>t, OutputSets
      <4>2. CASE Rank(e) < Received
        BY <1>2, <4>2 DEF Matching
      <4>3. CASE Rank(e) = Received
        <5>1. e = end
          BY <1>3, <1>4, <1>t, <4>3, RankOfEnds
        <5> QED
          BY <2>2, <5>1
      <4> QED
        BY <1>t, <2>3, <3>2, <4>1, <4>2, <4>3
    <3> QED
      BY <1>0, <2>5, <3>1, <3>2, SameOutput DEF Matching
  <2>7. ASSUME reader = "reading" PROVE Conserved'
    <3>1. Conserved
      BY <2>7 DEF StreamOK
    <3>2. Seen' = Seen
      BY <1>0 DEF Seen
    <3>3. \A j \in 1..Len(channel') : channel'[j].kind = "line"
      BY <1>1, <3>1 DEF Conserved
    <3>4. Rank(Seen + 1) = Received' + Len(channel')
      <4>1. Rank(Seen + 1) = Received + Len(channel)
        BY <3>1 DEF Conserved
      <4> QED
        BY <1>1, <1>t, <2>3, <4>1
    <3>5. Rank(Seen + 1)' = Received' + Len(channel') /\ Carries(line, Seen + 1)'
      BY <1>0, <3>1, <3>2, <3>4, SameOutput DEF Conserved
    <3> QED
      BY <1>0, <3>1, <3>2, <3>3, <3>5 DEF Conserved
  <2>8. ASSUME reader = "returned" PROVE Closing'
    <3>1. Closing /\ ~stdoutDone
      BY <1>0, <2>8 DEF StreamOK, Closing
    <3> DEFINE n == Len(channel)
    <3>2. /\ \A j \in 1..(n - 1) : channel[j].kind = "line"
          /\ \/ channel[n].kind = "done" /\ Cardinality(LineEnds) = Received + n - 1
             \/ channel[n].kind = "error" /\ Blamed
      BY <3>1 DEF Closing
    <3>3. n # 1 /\ n \in Nat /\ n > 1
      BY <1>0, <1>1, <3>2
    <3>4. Len(channel') = n - 1 /\ n - 1 \in 1..Len(channel') /\ n - 1 + 1 = n
      BY <1>1, <3>3
    <3>5. channel' # <<>> /\ channel'[Len(channel')] = channel[n]
      <4>1. channel'[n - 1] = channel[n]
        BY <1>1, <3>4
      <4>2. channel' # <<>>
        BY <3>3, <3>4
      <4> QED
        BY <3>4, <4>1, <4>2
    <3>6. ASSUME NEW j \in 1..(Len(channel') - 1) PROVE channel'[j].kind = "line"
      <4>1. j \in 1..Len(channel') /\ j + 1 \in 1..(n - 1)
        BY <3>3, <3>4
      <4> QED
        BY <1>1, <3>2, <4>1
    <3>7. Received + n - 1 = Received' + Len(channel') - 1
      BY <1>t, <2>3, <3>3, <3>4
    <3>8. Blamed => Blamed'
      BY <1>0, BlameFrame
    <3>9. Cardinality(LineEnds)' = Cardinality(LineEnds)
      BY <1>0, SameOutput
    <3> QED
      BY <1>0, <3>1, <3>2, <3>5, <3>6, <3>7, <3>8, <3>9 DEF Closing
  <2>9. reader # "none"
    BY <1>0 DEF StreamOK
  <2> QED
    BY <1>0, <2>1, <2>4, <2>6, <2>7, <2>8, <2>9 DEF StreamOK
<1> QED
  BY <1>7, <1>8

\* What is in the channel once the stdout thread is done or failed.
LEMMA LastEvent ==
    ASSUME TypeOK, StreamOK, channel # <<>>, channel' = Tail(channel),
           Head(channel).kind \in {"error", "done"}
    PROVE  /\ reader = "returned" /\ Len(channel) = 1 /\ Len(channel') = 0 /\ ~stdoutDone
           /\ Head(channel).kind = "error" => Blamed
           /\ Head(channel).kind = "done" => Cardinality(LineEnds) = Received
<1>1. /\ Len(channel) \in Nat /\ Len(channel) >= 1 /\ Head(channel) = channel[1]
      /\ Len(channel') = Len(channel) - 1
  BY ChannelHead
<1>2. 1 \in 1..Len(channel) /\ (Len(channel) # 1 => 1 \in 1..(Len(channel) - 1))
  BY <1>1
<1>3. reader # "none" /\ reader # "reading"
  BY <1>1, <1>2 DEF StreamOK, Conserved
<1>4. reader = "returned"
  BY <1>3 DEF TypeOK
<1>5. Closing /\ ~stdoutDone
  BY <1>4 DEF StreamOK, Closing
<1>6. Len(channel) = 1
  BY <1>1, <1>2, <1>5 DEF Closing
<1>7. Received \in Nat
  BY StreamTypes
<1>8. \/ channel[1].kind = "done" /\ Cardinality(LineEnds) = Received + 1 - 1
      \/ channel[1].kind = "error" /\ Blamed
  BY <1>5, <1>6 DEF Closing
<1> QED
  BY <1>1, <1>4, <1>5, <1>6, <1>7, <1>8

\* An error is received with its reason.
LEMMA StreamFails ==
    ASSUME TypeOK, StreamOK, ReceiveError
    PROVE  Blamed'
<1>0. /\ channel # <<>> /\ Head(channel).kind = "error" /\ channel' = Tail(channel)
      /\ UNCHANGED <<wrote, protocol, reader, readFailed, waitErrors>>
  BY DEF ReceiveError, child, stdoutThread, world
<1>1. Blamed
  BY <1>0, LastEvent
<1> QED
  BY <1>0, <1>1, BlameFrame

\* The end of the output is received after its last line.
LEMMA StreamDone ==
    ASSUME TypeOK, StreamOK, ReceiveDone
    PROVE  StreamOK'
<1>0. /\ stdoutDone' = TRUE
      /\ UNCHANGED <<wrote, protocol, pipe, chunk, line, total, reader, metadata, measurements,
                     readFailed, waitErrors>>
  BY DEF ReceiveDone, child, stdoutThread, world
<1>1. CASE channel # <<>> /\ Head(channel).kind = "done" /\ channel' = Tail(channel)
  <2>1. reader = "returned" /\ Len(channel') = 0 /\ Cardinality(LineEnds) = Received
    BY <1>1, LastEvent
  <2>2. channel' = <<>>
    <3>1. channel \in Seq(StdoutEvents)
      BY StreamTypes
    <3>2. channel' \in Seq(StdoutEvents)
      BY <1>1, <3>1
    <3> QED
      BY <2>1, <3>2
  <2>3. Received' = Received /\ Settled' = Settled
    BY <1>0, SameOutput DEF Received, Settled
  <2>4. Closing'
    BY <1>0, <2>1, <2>2, <2>3, SameOutput DEF Closing
  <2>5. \A end \in Settled : Rank(end) < Received => Accepted(end)
    BY DEF StreamOK, Matching
  <2>6. Matching'
    BY <1>0, <2>1, <2>3, <2>5, SameOutput DEF Matching
  <2>7. Counted'
    BY <1>0, <2>3 DEF StreamOK, Counted
  <2> QED
    BY <1>0, <2>1, <2>4, <2>6, <2>7 DEF StreamOK
<1>2. CASE channel = <<>> /\ reader = "returned" /\ channel' = channel
  <2>1. stdoutDone
    BY <1>2 DEF StreamOK, Closing
  <2>2. stdoutDone' = stdoutDone
    BY <1>0, <2>1 DEF TypeOK
  <2>3. Blamed => Blamed'
    BY <1>0, BlameFrame
  <2> QED
    BY <1>0, <1>2, <2>2, <2>3, StreamFrame
<1> QED
  BY <1>1, <1>2 DEF ReceiveDone

\* The stream starts empty.
LEMMA StreamStarts ==
    ASSUME TypeOK, StreamOK, reader = "none", reader' = "reading",
           UNCHANGED <<wrote, protocol, pipe, chunk, line, total, channel, metadata,
                       measurements, stdoutDone>>
    PROVE  StreamOK'
<1>1. /\ wrote = <<>> /\ pipe = <<>> /\ channel = <<>> /\ chunk = <<>> /\ line = <<>>
      /\ total = 0 /\ Received = 0 /\ ~stdoutDone /\ Counted
  BY DEF StreamOK
<1>2. wrote \in Seq(Bytes) /\ Len(wrote) = 0 /\ Len(pipe) = 0 /\ Len(chunk) = 0
      /\ Len(line) = 0 /\ Len(channel) = 0
  BY <1>1, StreamTypes
<1>3. Newlines = {} /\ Settled' = {}
  <2>1. Newlines = {}
    BY <1>2 DEF Newlines
  <2> QED
    BY <2>1, SameOutput DEF Settled
<1>4. Seen = 0 /\ Seen' = 0 /\ Received' = 0
  <2>1. Seen = 0
    BY <1>2 DEF Seen
  <2>2. Seen' = Seen /\ Received' = Received
    BY DEF Seen, Received
  <2> QED
    BY <1>1, <2>1, <2>2
<1>5. Before(1) = {}
  BY <1>3, BeforeMember
<1>6. Rank(1) = 0 /\ LineStart(1) = 1
  <2>1. LineStart(1) = 1
    BY <1>2, <1>5, StartFacts
  <2> QED
    BY <1>5, <2>1, FS_EmptySet DEF Rank
<1>7. Carries(<<>>, 1)
  BY <1>6, CarriesNothing
<1>8. Carries(line, Seen + 1)' /\ Rank(Seen + 1)' = 0
  <2>1. Seen' + 1 = 1 /\ line' = <<>>
    BY <1>1, <1>4
  <2> QED
    BY <1>6, <1>7, <2>1, SameOutput
<1>9. Conserved'
  <2>1. (\A k \in 1..Len(chunk') : chunk'[k] = wrote'[Seen' + k])
        /\ (\A k \in 1..Len(pipe') : pipe'[k] = wrote'[Seen' + Len(chunk') + k])
        /\ (\A j \in 1..Len(channel') : channel'[j].kind = "line")
    BY <1>2
  <2>2. Len(pipe') + Len(chunk') <= Len(wrote') /\ total' = Len(wrote') - Len(pipe')
        /\ Received' + Len(channel') = 0
    BY <1>1, <1>2, <1>4
  <2> QED
    BY <1>1, <1>8, <2>1, <2>2 DEF Conserved
<1>10. Matching' /\ Counted'
  BY <1>1, <1>2, <1>3 DEF Matching, Counted, Received
<1> QED
  BY <1>9, <1>10 DEF StreamOK

-----------------------------------------------------------------------------
(* Every step keeps the verdict on the stream                              *)

\* Steps that leave the stream and the failure alone.
LEMMA VerdictFrame ==
    ASSUME TypeOK, StreamVerdict, waitErrors > 0 => waitErrors' > 0,
           UNCHANGED <<wrote, protocol, pipe, chunk, line, total, reader, channel, metadata,
                       measurements, stdoutDone, readFailed>>,
           failure' \in {failure, "deadline"}
    PROVE  StreamVerdict'
<1>1. Blamed => Blamed'
  BY BlameFrame
<1>2. StreamOK => StreamOK'
  BY <1>1, StreamFrame
<1> QED
  BY <1>1, <1>2 DEF StreamVerdict

\* The helper, the threads and the clock.
LEMMA VerdictOthers ==
    ASSUME TypeOK, StreamVerdict, Helper \/ StdoutReader \/ DrainStderr \/ DeadlinePasses
    PROVE  StreamVerdict'
<1>1. ASSUME NEW byte \in Bytes, HelperWrites(byte) PROVE StreamVerdict'
  <2>1. failure' = failure
    BY <1>1 DEF HelperWrites
  <2>2. StreamOK => StreamOK'
    BY <1>1, StreamLonger
  <2>3. Blamed => Blamed'
    BY <1>1, BlameLonger
  <2> QED
    BY <2>1, <2>2, <2>3 DEF StreamVerdict
<1>2. CASE HelperWritesStderr \/ HelperClosesStdout \/ HelperStops \/ DrainStderr \/ DeadlinePasses
  <2>1. UNCHANGED <<wrote, protocol, pipe, chunk, line, total, reader, channel, metadata,
                    measurements, stdoutDone, readFailed, waitErrors, failure>>
    BY <1>2 DEF HelperWritesStderr, HelperClosesStdout, HelperStops, DrainStderr, DeadlinePasses,
       child, stdoutThread, collected, world
  <2> QED
    BY <2>1, VerdictFrame
<1>3. CASE StdoutReader
  <2>1. /\ reader = "reading" /\ (readFailed => readFailed')
        /\ UNCHANGED <<wrote, protocol, waitErrors, failure>>
    BY <1>3 DEF StdoutReader, ReadChunk, ReadByte, ReadError, ReadEnd, child, world
  <2>2. Blamed => Blamed'
    BY <2>1, BlameFrame
  <2>3. ASSUME StreamOK PROVE StreamOK'
    <3>1. ASSUME NEW n \in 1..PipeCapacity, ReadChunk(n) PROVE StreamOK'
      <4>1. n \in Nat
        BY SupervisorAssumption
      <4> QED
        BY <2>3, <3>1, <4>1, StreamChunk
    <3>2. CASE ReadByte
      BY <2>3, <3>2, StreamByte
    <3>3. CASE ReadEnd
      BY <2>3, <3>3, StreamEnd
    <3>4. CASE ReadError
      <4>1. /\ reader' = "returned" /\ channel' = Append(channel, [kind |-> "error", bytes |-> <<>>])
            /\ UNCHANGED <<metadata, measurements, stdoutDone>> /\ readFailed'
        BY <3>4 DEF ReadError, Send, collected
      <4>2. Blamed'
        BY <4>1 DEF Blamed
      <4> QED
        BY <2>1, <2>3, <4>1, <4>2, StreamError
    <3> QED
      BY <1>3, <3>1, <3>2, <3>3, <3>4 DEF StdoutReader
  <2> QED
    BY <2>1, <2>2, <2>3 DEF StreamVerdict
<1> QED
  BY <1>1, <1>2, <1>3 DEF Helper

\* The calling thread.
LEMMA VerdictCaller ==
    ASSUME ReapInv, CallerOK, StreamVerdict, Caller
    PROVE  StreamVerdict'
<1>0. TypeOK /\ waitErrors \in Nat
  BY SupervisorAssumption DEF ReapInv, TypeOK
<1>1. spc \in Supervising => failure = "none" /\ StreamOK
  BY DEF CallerOK, StreamVerdict
<1>2. CASE CheckBounds \/ SpawnFails \/ LoopTop \/ ReceiveTimeout \/ Kill \/ Join
  <2>1. /\ UNCHANGED <<wrote, protocol, pipe, chunk, line, total, reader, channel, metadata,
                       measurements, stdoutDone, readFailed, waitErrors>>
        /\ failure' \in {failure, "deadline"}
    BY <1>2 DEF CheckBounds, SpawnFails, LoopTop, ReceiveTimeout, Kill, Join, supervision_failure,
       child, stdoutThread, collected, world
  <2> QED
    BY <1>0, <2>1, VerdictFrame
<1>3. CASE Terminate \/ ReapKilled \/ LastWait
  <2>1. UNCHANGED <<wrote, protocol, pipe, chunk, line, total, reader, channel, metadata,
                    measurements, stdoutDone, readFailed, failure>>
    BY <1>3 DEF Terminate, ReapKilled, LastWait, stdoutThread, collected, world
  <2>2. waitErrors' = waitErrors \/ waitErrors' = waitErrors + 1
    BY <1>3 DEF Terminate, ReapKilled, LastWait, WaitError, Reap
  <2>3. waitErrors > 0 => waitErrors' > 0
    BY <1>0, <2>2
  <2> QED
    BY <1>0, <2>1, <2>3, VerdictFrame
<1>4. CASE Poll
  <2>1. /\ spc = "poll"
        /\ UNCHANGED <<wrote, protocol, pipe, chunk, line, total, reader, channel, metadata,
                       measurements, stdoutDone, readFailed>>
    BY <1>4 DEF Poll, stdoutThread, collected, world
  <2>2. CASE UNCHANGED <<failure, waitErrors>>
    BY <1>0, <2>1, <2>2, VerdictFrame
  <2>3. CASE reaped = "none" /\ WaitError /\ supervision_failure("output")
    <3>1. helper # "reaped"
      BY <2>1, <2>3 DEF ReapInv, KnowsReap
    <3>2. waitErrors' = waitErrors + 1 /\ failure' = "output"
      BY <2>3, <3>1 DEF WaitError, supervision_failure
    <3>3. waitErrors' > 0
      BY <1>0, <3>2
    <3> QED
      BY <3>2, <3>3 DEF StreamVerdict, Blamed
  <2>4. \/ UNCHANGED <<failure, waitErrors>>
        \/ reaped = "none" /\ WaitError /\ supervision_failure("output")
    BY <1>4 DEF Poll, Reap
  <2> QED
    BY <2>2, <2>3, <2>4
<1>5. CASE Spawn
  <2>1. /\ spc = "spawn" /\ reader' = "reading" /\ failure' = failure
        /\ UNCHANGED <<wrote, protocol, pipe, chunk, line, total, channel, metadata,
                       measurements, stdoutDone>>
    BY <1>5 DEF Spawn, collected
  <2>2. reader = "none" /\ failure = "none" /\ StreamOK
    BY <1>1, <2>1 DEF ReapInv, KnowsSpawn, CallerOK, Supervising
  <2>3. StreamOK'
    BY <1>0, <2>1, <2>2, StreamStarts
  <2> QED
    BY <2>1, <2>2, <2>3 DEF StreamVerdict
<1>6. CASE ReceiveLine
  <2>1. failure = "none" /\ StreamOK
    BY <1>1, <1>6 DEF ReceiveLine, Supervising
  <2> QED
    BY <1>0, <1>6, <2>1, StreamLine DEF StreamVerdict
<1>7. CASE ReceiveError
  <2>1. failure = "none" /\ StreamOK /\ failure' = "output"
    BY <1>1, <1>7 DEF ReceiveError, Supervising, supervision_failure
  <2> QED
    BY <1>0, <1>7, <2>1, StreamFails DEF StreamVerdict
<1>8. CASE ReceiveDone
  <2>1. failure = "none" /\ StreamOK /\ failure' = failure
    BY <1>1, <1>8 DEF ReceiveDone, Supervising
  <2> QED
    BY <1>0, <1>8, <2>1, StreamDone DEF StreamVerdict
<1> QED
  BY <1>2, <1>3, <1>4, <1>5, <1>6, <1>7, <1>8 DEF Caller

-----------------------------------------------------------------------------
(* Every step keeps the caller's place                                     *)

\* What Classified looks at.
LEMMA SameClass ==
    ASSUME UNCHANGED <<protocol, exitCode, failure, reaped, metadata, measurements>>
    PROVE  Classified' = Classified
BY DEF Classified, completed_success, Failed

\* The helper, the threads and the clock: a helper that stops after the caller
\* returned was given up on, so its exit status is not looked at.
LEMMA CallerOthers ==
    ASSUME ReapInv, CallerOK, Helper \/ StdoutReader \/ DrainStderr \/ DeadlinePasses
    PROVE  CallerOK'
<1>1. UNCHANGED <<spc, failure, reaped, result, metadata, measurements, protocol, killed, stdoutDone>>
  BY DEF Helper, StdoutReader, HelperWrites, HelperWritesStderr, HelperClosesStdout, HelperStops,
     ReadChunk, ReadByte, ReadError, ReadEnd, DrainStderr, DeadlinePasses, child, collected, world
<1>2. \/ UNCHANGED <<helper, exitCode, reader>>
      \/ helper = "running" /\ helper' = "zombie" /\ reader' = reader
      \/ UNCHANGED <<helper, exitCode>> /\ reader = "reading" /\ reader' \in {"reading", "returned"}
  BY DEF Helper, StdoutReader, HelperWrites, HelperWritesStderr, HelperClosesStdout, HelperStops,
     ReadChunk, ReadByte, ReadError, ReadEnd, DrainStderr, DeadlinePasses, child, stdoutThread
<1>3. Fits' <=> Fits
  BY <1>1 DEF Fits
<1>4. CASE UNCHANGED <<helper, exitCode, reader>>
  <2>1. Classified' = Classified
    BY <1>1, <1>4, SameClass
  <2> QED
    BY <1>1, <1>3, <1>4, <2>1 DEF CallerOK
<1>5. CASE helper = "running" /\ helper' = "zombie" /\ reader' = reader
  <2>1. spc = "returned" => failure # "none" /\ result = Classified /\ reader = "returned"
    BY <1>5 DEF CallerOK
  <2>2. failure # "none" => Classified' = Classified
    BY <1>1 DEF Classified, Failed
  <2> QED
    BY <1>1, <1>3, <1>5, <2>1, <2>2 DEF CallerOK
<1>6. CASE UNCHANGED <<helper, exitCode>> /\ reader = "reading" /\ reader' \in {"reading", "returned"}
  BY <1>1, <1>3, <1>6 DEF CallerOK
<1> QED
  BY <1>2, <1>4, <1>5, <1>6

\* The calling thread.
LEMMA CallerCaller ==
    ASSUME ReapInv, CallerOK, Caller
    PROVE  CallerOK'
<1>0. /\ spc \notin {"check", "spawn", "returned"} => helper # "none"
      /\ spc \in {"check", "spawn"} => helper = "none"
      /\ spc \notin {"join", "returned"} => (reaped = "none" <=> helper # "reaped")
  BY DEF ReapInv, KnowsReap, KnowsSpawn
<1>1. Caller => protocol' = protocol
  BY DEF Caller, CheckBounds, Spawn, SpawnFails, LoopTop, ReceiveLine, ReceiveError, ReceiveDone,
     ReceiveTimeout, Poll, Terminate, Kill, ReapKilled, LastWait, Join, world
<1>2. Fits' <=> Fits
  BY <1>1 DEF Fits
<1>3. CASE CheckBounds \/ SpawnFails
  <2>1. /\ UNCHANGED <<helper, exitCode, killed, reader, failure, reaped, stdoutDone>>
        /\ helper = "none" /\ failure = "none" /\ ~killed
        /\ \/ spc' = "spawn" /\ Fits /\ result' = result /\ spc = "check"
           \/ spc' = "returned" /\ result' \in {Failed("output", FALSE), Failed("spawn", FALSE)}
    BY <1>0, <1>3 DEF CheckBounds, SpawnFails, Return, child, stdoutThread, collected, Fits,
       CallerOK, Supervising
  <2> QED
    BY <1>2, <2>1 DEF CallerOK, Supervising, Terminating
<1>4. CASE Spawn
  <2>1. /\ spc = "spawn" /\ helper' = "running" /\ reader' = "reading" /\ spc' = "loop"
        /\ UNCHANGED <<exitCode, killed, failure, reaped, stdoutDone, result>> /\ helper = "none"
    BY <1>0, <1>4 DEF Spawn, collected
  <2> QED
    BY <1>2, <2>1 DEF CallerOK, Supervising, Terminating
<1>5. CASE LoopTop \/ ReceiveLine \/ ReceiveError \/ ReceiveDone \/ ReceiveTimeout
  <2>1. /\ UNCHANGED <<helper, exitCode, killed, reader, reaped, result>> /\ spc \in {"loop", "receive"}
        /\ \/ spc' \in {"loop", "receive", "poll"} /\ failure' = failure
           \/ spc' \in {"terminate", "join"} /\ failure' # "none"
           \/ spc' = "join" /\ stdoutDone' /\ reaped # "none" /\ failure' = failure
    BY <1>5 DEF LoopTop, ReceiveLine, ReceiveError, ReceiveDone, ReceiveTimeout,
       supervision_failure, child, stdoutThread, collected
  <2> QED
    BY <1>0, <1>2, <2>1 DEF CallerOK, Supervising, Terminating
<1>6. CASE Poll
  <2>1. /\ UNCHANGED <<exitCode, killed, reader, result, stdoutDone>> /\ spc = "poll"
        /\ \/ spc' = "loop" /\ failure' = failure
              /\ (helper' = helper \/ (helper = "zombie" /\ helper' = "reaped"))
           \/ spc' = "terminate" /\ failure' # "none" /\ helper' = helper
    BY <1>6 DEF Poll, Reap, WaitError, supervision_failure, stdoutThread, collected
  <2> QED
    BY <1>0, <1>2, <2>1 DEF CallerOK, Supervising, Terminating
<1>7. CASE Terminate \/ ReapKilled \/ LastWait
  <2>1. /\ UNCHANGED <<exitCode, killed, reader, result, stdoutDone, failure>> /\ spc \in Terminating
        /\ spc' \in {"join", "kill", "killUnknown", "lastWait"}
        /\ helper' = helper \/ (helper = "zombie" /\ helper' = "reaped")
    BY <1>7 DEF Terminate, ReapKilled, LastWait, Reap, WaitError, stdoutThread, collected, Terminating
  <2> QED
    BY <1>0, <1>2, <2>1 DEF CallerOK, Supervising, Terminating
<1>8. CASE Kill
  <2>1. /\ UNCHANGED <<helper, exitCode, reader, result, stdoutDone, failure, reaped>>
        /\ spc \in Terminating /\ spc' \in {"reap", "lastWait"}
    BY <1>8 DEF Kill, stdoutThread, collected, Terminating
  <2> QED
    BY <1>0, <1>2, <2>1 DEF CallerOK, Supervising, Terminating
<1>9. CASE Join
  <2>1. /\ UNCHANGED <<helper, exitCode, killed, reader, stdoutDone, failure, reaped, metadata,
                       measurements>>
        /\ spc = "join" /\ spc' = "returned" /\ result' = Classified /\ reader = "returned"
    BY <1>9 DEF Join, Return, child, stdoutThread, collected
  <2>2. Classified' = Classified
    BY <1>1, <2>1, SameClass
  <2> QED
    BY <1>0, <1>2, <2>1, <2>2 DEF CallerOK, Supervising, Terminating
<1> QED
  BY <1>3, <1>4, <1>5, <1>6, <1>7, <1>8, <1>9 DEF Caller

-----------------------------------------------------------------------------
(* The theorems                                                            *)

\* Nothing was written, received or returned yet.
LEMMA ProtocolInit ==
    ASSUME Init
    PROVE  CallerOK /\ StreamVerdict
<1>1. CallerOK
  BY DEF Init, CallerOK, Supervising, Terminating
<1>2. Received = 0 /\ wrote = <<>>
  BY DEF Init, Received
<1>3. Newlines = {} /\ Settled = {}
  <2>1. Newlines = {}
    BY <1>2 DEF Newlines
  <2> QED
    BY <2>1 DEF Settled, Init
<1>4. Matching
  BY <1>3 DEF Matching, Init
<1>5. protocol.meta \in Nat /\ protocol.records \in Nat
  BY SupervisorAssumption DEF Init
<1>6. Counted
  BY <1>2, <1>5 DEF Counted, Init
<1>7. StreamOK
  BY <1>2, <1>4, <1>6 DEF StreamOK, Init
<1> QED
  BY <1>1, <1>7 DEF StreamVerdict, Init

\* The invariant holds: the caller's counts and checks are about the lines of
\* what the helper wrote.
THEOREM ProtocolInvariant == Spec => []ProtocolInv
<1>1. Init => ProtocolInv
  <2> SUFFICES ASSUME Init PROVE ProtocolInv
    OBVIOUS
  <2>1. ReapInv
    BY TypeInit DEF ReapInv, Init, KnowsReap, KnowsSpawn, CountsWaitErrors, ResourcesOnlyFromReap,
       Terminating, NoResult
  <2> QED
    BY <2>1, ProtocolInit DEF ProtocolInv
<1>2. ProtocolInv /\ [Next]_vars => ProtocolInv'
  <2> SUFFICES ASSUME ProtocolInv, [Next]_vars PROVE ProtocolInv'
    OBVIOUS
  <2>0. ReapInv /\ CallerOK /\ StreamVerdict /\ TypeOK
    BY DEF ProtocolInv, ReapInv
  <2>1. CASE UNCHANGED vars
    <3>1. ReapInv'
      BY <2>0, <2>1 DEF vars, ReapInv, TypeOK, KnowsReap, KnowsSpawn, CountsWaitErrors,
         ResourcesOnlyFromReap
    <3>2. StreamVerdict'
      BY <2>0, <2>1, VerdictFrame DEF vars
    <3>3. CallerOK'
      <4>1. Classified' = Classified
        BY <2>1, SameClass DEF vars
      <4> QED
        BY <2>0, <2>1, <4>1 DEF vars, CallerOK, Fits
    <3> QED
      BY <3>1, <3>2, <3>3 DEF ProtocolInv
  <2>2. CASE Helper \/ StdoutReader \/ DrainStderr \/ DeadlinePasses
    BY <2>0, <2>2, ReapInvOthers, CallerOthers, VerdictOthers DEF ProtocolInv
  <2>3. CASE Caller
    BY <2>0, <2>3, ReapInvCaller, CallerCaller, VerdictCaller DEF ProtocolInv
  <2> QED
    BY <2>1, <2>2, <2>3 DEF Next, Returned
<1> QED
  BY <1>1, <1>2, PTL DEF Spec

\* When every line was received, the caller's counts are those of the output
\* and every line is as CompleteProtocol asks.
LEMMA ReturnedOutput ==
    ASSUME ProtocolInv, spc = "returned", helper # "none", failure = "none"
    PROVE  /\ Cardinality(LineEnds) = metadata + measurements
           /\ \A end \in LineEnds : Accepted(end)
           /\ metadata <= protocol.meta
           /\ metadata < protocol.meta => measurements = 0
<1>1. /\ stdoutDone /\ reader = "returned" /\ StreamOK /\ TypeOK
  BY DEF ProtocolInv, CallerOK, StreamVerdict, ReapInv
<1>2. Closing /\ Matching /\ Counted
  BY <1>1 DEF StreamOK
<1>3. Cardinality(LineEnds) = Received /\ Settled = LineEnds
  BY <1>1, <1>2 DEF Closing, Settled
<1>4. wrote \in Seq(Bytes)
  BY <1>1, StreamTypes
<1>5. \A end \in LineEnds : Rank(end) < Received
  BY <1>3, <1>4, RankOfEnds
<1> QED
  BY <1>2, <1>3, <1>5 DEF Matching, Counted, Received

\* How execute classified what it returned.
LEMMA ReturnedClass ==
    ASSUME ProtocolInv, result.failure # "pending"
    PROVE  /\ spc = "returned"
           /\ \/ helper = "none" /\ exitCode = "none" /\ result.failure \in {"output", "spawn"}
              \/ /\ helper # "none" /\ Fits /\ result = Classified
                 /\ failure = "none" => helper = "reaped" /\ reaped # "none" /\ ~killed
<1>1. spc = "returned"
  BY DEF ProtocolInv, CallerOK, NoResult
<1> QED
  BY <1>1 DEF ProtocolInv, CallerOK, Failed

\* SuccessMeansCompleteProtocol: execute reports success only for the complete
\* protocol, however the helper's bytes, its exit and the deadline interleaved.
THEOREM CompleteSuccess == Spec => []SuccessMeansCompleteProtocol
<1>1. ProtocolInv => SuccessMeansCompleteProtocol
  <2> SUFFICES ASSUME ProtocolInv, result.failure = "none"
               PROVE  /\ CompleteProtocol
                      /\ exitCode = "zero" /\ helper = "reaped" /\ ~killed
                      /\ result = [failure |-> "none", metadata |-> protocol.meta,
                                   measurements |-> protocol.records, resources |-> TRUE]
    BY DEF SuccessMeansCompleteProtocol
  <2>1. /\ spc = "returned" /\ helper # "none" /\ result = Classified
        /\ failure = "none" => helper = "reaped" /\ ~killed
    BY ReturnedClass
  <2>2. /\ failure = "none" /\ exitCode = "zero" /\ metadata = protocol.meta
        /\ measurements = protocol.records
        /\ result = [failure |-> "none", metadata |-> metadata, measurements |-> measurements,
                     resources |-> TRUE]
    BY <2>1 DEF Classified, completed_success, Failed
  <2>3. CompleteProtocol
    <3>1. wrote \in Seq(Bytes)
      BY StreamTypes DEF ProtocolInv, ReapInv
    <3> QED
      BY <2>1, <2>2, <3>1, ReturnedOutput, CompleteByLine
  <2> QED
    BY <2>1, <2>2, <2>3
<1> QED
  BY <1>1, ProtocolInvariant, PTL

\* AccountingNeverMasksFailure: completed_success looks at the accounting last.
THEOREM AccountingLast == Spec => []AccountingNeverMasksFailure
<1>1. ProtocolInv => AccountingNeverMasksFailure
  <2> SUFFICES ASSUME ProtocolInv, result.failure = "resource"
               PROVE  CompleteProtocol /\ exitCode = "zero" /\ reaped = "error" /\ failure = "none"
    BY DEF AccountingNeverMasksFailure
  <2>0. TypeOK
    BY DEF ProtocolInv, ReapInv
  <2>1. /\ spc = "returned" /\ helper # "none" /\ result = Classified
        /\ failure = "none" => reaped # "none"
    BY ReturnedClass
  <2>2. /\ failure = "none" /\ exitCode = "zero" /\ metadata = protocol.meta
        /\ measurements = protocol.records /\ reaped # "exact"
    BY <2>0, <2>1 DEF Classified, completed_success, Failed, TypeOK
  <2>3. CompleteProtocol
    <3>1. wrote \in Seq(Bytes)
      BY <2>0, StreamTypes
    <3> QED
      BY <2>1, <2>2, <3>1, ReturnedOutput, CompleteByLine
  <2> QED
    BY <2>0, <2>1, <2>2, <2>3 DEF TypeOK
<1> QED
  BY <1>1, ProtocolInvariant, PTL

\* ConformingHelperIsAccepted: nothing a conforming helper writes is refused,
\* by the size of a read, of a record or of the whole, by the number of lines
\* or by the content of one.
THEOREM ConformingAccepted == Spec => []ConformingHelperIsAccepted
<1>1. ProtocolInv => ConformingHelperIsAccepted
  <2> SUFFICES ASSUME ProtocolInv, result.failure \in {"output", "exit", "special"},
                      CompleteProtocol, exitCode = "zero", ~readFailed, ~(waitErrors > 0)
               PROVE  FALSE
    BY DEF ConformingHelperIsAccepted
  <2>0. TypeOK /\ wrote \in Seq(Bytes) /\ metadata \in Nat /\ measurements \in Nat
        /\ protocol.meta \in Nat /\ protocol.records \in Nat
    BY StreamTypes DEF ProtocolInv, ReapInv
  <2>1. spc = "returned" /\ helper # "none" /\ Fits /\ result = Classified
    BY ReturnedClass
  <2>2. CASE failure = "none"
    <3>1. metadata # protocol.meta \/ measurements # protocol.records
      BY <2>1, <2>2 DEF Classified, completed_success, Failed
    <3>2. /\ protocol.meta + protocol.records = metadata + measurements
          /\ metadata <= protocol.meta /\ (metadata < protocol.meta => measurements = 0)
      BY <2>0, <2>1, <2>2, ReturnedOutput, CompleteByLine
    <3> QED
      BY <2>0, <3>1, <3>2
  <2>3. CASE failure = "output"
    <3>1. Hopeless
      BY <2>3 DEF ProtocolInv, StreamVerdict, Blamed
    <3> QED
      BY <2>0, <2>1, <3>1, HopelessIncomplete
  <2>4. CASE failure = "deadline"
    BY <2>1, <2>4 DEF Classified, Failed
  <2> QED
    BY <2>0, <2>2, <2>3, <2>4 DEF TypeOK
<1> QED
  BY <1>1, ProtocolInvariant, PTL

=============================================================================
