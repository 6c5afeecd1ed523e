-------------------------- MODULE ChildSupervisor --------------------------
(***************************************************************************)
(* child_supervisor.rs: one call of `execute`.  The calling thread spawns  *)
(* a fixed helper, a reader thread turns the helper's stdout into events   *)
(* on an unbounded channel, a second thread drains its stderr, and the     *)
(* caller polls channel, child and deadline until it can say what became   *)
(* of the protocol.  The helper is external: it may write anything, close  *)
(* its pipes, exit with any status or never stop.                          *)
(*                                                                         *)
(* Bytes are "x" (part of a record that parses and validates), "b" (part   *)
(* of one that does not) and "n" (newline).  Time is one flag: whether the *)
(* deadline has passed.  Messages and diagnostics are left out.            *)
(***************************************************************************)
EXTENDS Naturals, Sequences, FiniteSets

CONSTANTS
    Protocols,       \* ChildProtocol values to supervise under
    PipeCapacity,    \* bytes the stdout pipe holds before the writer blocks
    StderrCapacity,  \* the same for stderr; 0 stands for a helper silent on stderr
    MaxWritten,      \* bound: bytes the helper writes to stdout
    MaxWaitErrors    \* bound: wait4 calls that fail for another reason than EINTR

ASSUME SupervisorAssumption ==
    /\ Protocols \subseteq [meta : Nat, records : Nat, maxRecord : Nat, maxStdout : Nat]
    /\ PipeCapacity \in Nat \ {0}
    /\ StderrCapacity \in Nat
    /\ MaxWritten \in Nat
    /\ MaxWaitErrors \in Nat

Bytes == {"x", "b", "n"}

VARIABLES
    protocol,      \* the ChildProtocol of this call
    spc,           \* the calling thread
    helper,        \* the child process as the kernel sees it
    exitCode,      \* its exit status once it stopped
    killed,        \* a SIGKILL is on its way
    outOpen,       \* the helper holds the write end of stdout
    pipe,          \* bytes in the stdout pipe
    wrote,         \* every byte the helper ever wrote to stdout
    errPipe,       \* bytes in the stderr pipe
    reader,        \* the stdout thread
    chunk,         \* bytes it read and has not looked at yet
    line,          \* bytes of the current line
    total,         \* bytes it read so far
    readFailed,    \* its read returned an error
    channel,       \* stdout events not received yet
    errReader,     \* the stderr thread
    metadata,      \* metadata lines accepted
    measurements,  \* measurement records accepted
    stdoutDone,    \* supervise's stdout_done
    reaped,        \* resources of the reaped child: none yet, exact, or an error
    failure,       \* the supervision failure, if any
    expired,       \* the deadline has passed
    waitErrors,    \* wait4 errors so far
    result         \* the ChildExecution returned

vars == <<protocol, spc, helper, exitCode, killed, outOpen, pipe, wrote, errPipe, reader,
          chunk, line, total, readFailed, channel, errReader, metadata, measurements,
          stdoutDone, reaped, failure, expired, waitErrors, result>>

\* Who owns which variables.
child == <<helper, exitCode, killed, outOpen, wrote>>
stdoutThread == <<reader, chunk, line, total, readFailed>>
collected == <<metadata, measurements, stdoutDone>>
world == <<protocol, expired, errPipe, errReader>>

NoResult == [failure |-> "pending", metadata |-> 0, measurements |-> 0, resources |-> FALSE]

Failed(code, resources) ==
    [failure |-> code, metadata |-> 0, measurements |-> 0, resources |-> resources]

Init ==
    /\ protocol \in Protocols
    /\ spc = "check" /\ helper = "none" /\ exitCode = "none" /\ killed = FALSE
    /\ outOpen = FALSE /\ pipe = <<>> /\ wrote = <<>> /\ errPipe = 0
    /\ reader = "none" /\ chunk = <<>> /\ line = <<>> /\ total = 0 /\ readFailed = FALSE
    /\ channel = <<>> /\ errReader = "none"
    /\ metadata = 0 /\ measurements = 0 /\ stdoutDone = FALSE
    /\ reaped = "none" /\ failure = "none" /\ expired = FALSE /\ waitErrors = 0
    /\ result = NoResult

-----------------------------------------------------------------------------
(* The helper (external) and the clock.                                    *)

HelperWrites(byte) ==
    /\ helper = "running" /\ outOpen /\ ~killed
    /\ reader = "reading" /\ Len(pipe) < PipeCapacity
    /\ Len(wrote) < MaxWritten
    /\ pipe' = Append(pipe, byte)
    /\ wrote' = Append(wrote, byte)
    /\ UNCHANGED <<helper, exitCode, killed, outOpen, spc, stdoutThread, channel, collected,
                   reaped, failure, waitErrors, result, world>>

HelperWritesStderr ==
    /\ helper = "running" /\ ~killed /\ errPipe < StderrCapacity
    /\ errPipe' = errPipe + 1
    /\ UNCHANGED <<child, pipe, spc, stdoutThread, channel, collected, reaped, failure,
                   waitErrors, result, protocol, expired, errReader>>

HelperClosesStdout ==
    /\ helper = "running" /\ outOpen
    /\ outOpen' = FALSE
    /\ UNCHANGED <<helper, exitCode, killed, wrote, pipe, spc, stdoutThread, channel, collected,
                   reaped, failure, waitErrors, result, world>>

\* It exits by itself, is stopped by a write into a pipe nobody reads, or
\* receives the SIGKILL; its ends of the pipes close with it.
HelperStops ==
    /\ helper = "running"
    /\ exitCode' \in IF killed THEN {"signal"} ELSE {"zero", "special", "other", "signal"}
    /\ helper' = "zombie"
    /\ outOpen' = FALSE
    /\ UNCHANGED <<killed, wrote, pipe, spc, stdoutThread, channel, collected, reaped, failure,
                   waitErrors, result, world>>

DeadlinePasses ==
    /\ helper # "none" /\ ~expired
    /\ expired' = TRUE
    /\ UNCHANGED <<child, pipe, spc, stdoutThread, channel, collected, reaped, failure,
                   waitErrors, result, protocol, errPipe, errReader>>

-----------------------------------------------------------------------------
(* The stdout thread: read_stdout.                                         *)

Send(event) == channel' = Append(channel, event)

\* A read returns what is in the pipe, or part of it; the size limit is applied
\* before any byte of the chunk is looked at.
ReadChunk(n) ==
    /\ reader = "reading" /\ chunk = <<>> /\ n \in 1..Len(pipe)
    /\ total' = total + n
    /\ pipe' = SubSeq(pipe, n + 1, Len(pipe))
    /\ IF total + n > protocol.maxStdout
       THEN Send([kind |-> "error", bytes |-> <<>>]) /\ reader' = "returned" /\ UNCHANGED chunk
       ELSE chunk' = SubSeq(pipe, 1, n) /\ UNCHANGED <<channel, reader>>
    /\ UNCHANGED <<child, line, readFailed, spc, collected, reaped, failure, waitErrors,
                   result, world>>

\* Mutant: the newline is counted against the record twice.
ReadByte_OffByOne ==
    /\ reader = "reading" /\ chunk # <<>>
    /\ chunk' = Tail(chunk)
    /\ \/ /\ Head(chunk) = "n"
          /\ Send([kind |-> "line", bytes |-> line])
          /\ line' = <<>>
          /\ UNCHANGED reader
       \/ /\ Head(chunk) # "n"
          /\ line' = Append(line, Head(chunk))
          /\ IF Len(line) + 2 >= protocol.maxRecord
             THEN Send([kind |-> "error", bytes |-> <<>>]) /\ reader' = "returned"
             ELSE UNCHANGED <<channel, reader>>
    /\ UNCHANGED <<child, pipe, total, readFailed, spc, collected, reaped, failure, waitErrors,
                   result, world>>

\* A newline sends the line; any other byte extends it up to the record limit.
ReadByte ==
    /\ reader = "reading" /\ chunk # <<>>
    /\ chunk' = Tail(chunk)
    /\ \/ /\ Head(chunk) = "n"
          /\ Send([kind |-> "line", bytes |-> line])
          /\ line' = <<>>
          /\ UNCHANGED reader
       \/ /\ Head(chunk) # "n"
          /\ line' = Append(line, Head(chunk))
          /\ IF Len(line) + 1 >= protocol.maxRecord
             THEN Send([kind |-> "error", bytes |-> <<>>]) /\ reader' = "returned"
             ELSE UNCHANGED <<channel, reader>>
    /\ UNCHANGED <<child, pipe, total, readFailed, spc, collected, reaped, failure, waitErrors,
                   result, world>>

ReadError ==
    /\ reader = "reading" /\ chunk = <<>>
    /\ Send([kind |-> "error", bytes |-> <<>>])
    /\ reader' = "returned" /\ readFailed' = TRUE
    /\ UNCHANGED <<child, pipe, chunk, line, total, spc, collected, reaped, failure,
                   waitErrors, result, world>>

\* End of file: an unterminated last line is still a line.
Tailed == IF line = <<>> THEN <<>> ELSE <<[kind |-> "line", bytes |-> line]>>

ReadEnd ==
    /\ reader = "reading" /\ chunk = <<>> /\ pipe = <<>> /\ ~outOpen
    /\ channel' = channel \o Tailed \o <<[kind |-> "done", bytes |-> <<>>]>>
    /\ reader' = "returned"
    /\ UNCHANGED <<child, pipe, chunk, line, total, readFailed, spc, collected, reaped, failure,
                   waitErrors, result, world>>

(* The stderr thread: read_stderr drains until end of file; what it retains *)
(* is bounded and only reaches messages.                                    *)

\* Mutant: the thread stops once it has retained enough.
DrainStderr_StopsEarly ==
    /\ errReader = "reading"
    /\ \/ errPipe > 0 \/ helper \in {"zombie", "reaped"}
    /\ errReader' = "returned" /\ UNCHANGED errPipe
    /\ UNCHANGED <<child, pipe, spc, stdoutThread, channel, collected, reaped, failure,
                   waitErrors, result, protocol, expired>>

DrainStderr ==
    /\ errReader = "reading"
    /\ \/ errPipe > 0 /\ errPipe' = errPipe - 1 /\ UNCHANGED errReader
       \/ /\ errPipe = 0 /\ helper \in {"zombie", "reaped"}
          /\ errReader' = "returned" /\ UNCHANGED errPipe
    /\ UNCHANGED <<child, pipe, spc, stdoutThread, channel, collected, reaped, failure,
                   waitErrors, result, protocol, expired>>
-----------------------------------------------------------------------------
(* wait4 as the kernel answers it: the child is reaped, and convert_       *)
(* resource_usage makes exact resources of its rusage or an error; or the  *)
(* call fails, as it must for a child that is already reaped.              *)

Reap(outcome) == helper' = "reaped" /\ reaped' = outcome /\ UNCHANGED waitErrors

WaitError ==
    /\ helper = "reaped" \/ waitErrors < MaxWaitErrors
    /\ waitErrors' = IF helper = "reaped" THEN waitErrors ELSE waitErrors + 1
    /\ UNCHANGED <<helper, reaped>>

-----------------------------------------------------------------------------
(* The calling thread: execute, supervise, terminate_and_reap.             *)

Return(execution) == result' = execution /\ spc' = "returned"

\* The whole protocol must fit the transport bound, or nothing is spawned.
CheckBounds ==
    /\ spc = "check"
    /\ IF (protocol.meta + protocol.records) * protocol.maxRecord <= protocol.maxStdout
       THEN spc' = "spawn" /\ UNCHANGED result
       ELSE Return(Failed("output", FALSE))
    /\ UNCHANGED <<child, pipe, stdoutThread, channel, collected, reaped, failure, waitErrors,
                   world>>

Spawn ==
    /\ spc = "spawn"
    /\ helper' = "running" /\ outOpen' = TRUE
    /\ reader' = "reading" /\ errReader' = "reading"
    /\ spc' = "loop"
    /\ UNCHANGED <<exitCode, killed, wrote, pipe, chunk, line, total, readFailed, channel,
                   collected, reaped, failure, waitErrors, result, protocol, expired, errPipe>>

SpawnFails ==
    /\ spc = "spawn"
    /\ Return(Failed("spawn", FALSE))
    /\ UNCHANGED <<child, pipe, stdoutThread, channel, collected, reaped, failure, waitErrors,
                   world>>

\* Mutant: the resources of a child already reaped are forgotten.
supervision_failure_Forgets(code) ==
    /\ failure' = code
    /\ spc' = "terminate"

\* supervision_failure: a child that was already reaped is not terminated.
supervision_failure(code) ==
    /\ failure' = code
    /\ spc' = IF reaped = "none" THEN "terminate" ELSE "join"

\* Mutant: the loop ends with the child's exit, whatever is still in flight.
LoopTop_ExitIsEnough ==
    /\ spc = "loop"
    /\ \/ /\ reaped # "none"
          /\ spc' = "join" /\ UNCHANGED failure
       \/ /\ reaped = "none"
          /\ IF expired THEN supervision_failure("deadline")
             ELSE spc' = "receive" /\ UNCHANGED failure
    /\ UNCHANGED <<child, pipe, stdoutThread, channel, collected, reaped, waitErrors, result,
                   world>>

\* Mutant: the deadline is only watched while stdout is open.
LoopTop_DeadlineOnlyForOutput ==
    /\ spc = "loop"
    /\ \/ /\ stdoutDone /\ reaped # "none"
          /\ spc' = "join" /\ UNCHANGED failure
       \/ /\ ~(stdoutDone /\ reaped # "none")
          /\ IF expired /\ ~stdoutDone THEN supervision_failure("deadline")
             ELSE spc' = "receive" /\ UNCHANGED failure
    /\ UNCHANGED <<child, pipe, stdoutThread, channel, collected, reaped, waitErrors, result,
                   world>>

\* Top of supervise's loop: it is left once stdout is done and the exit known;
\* otherwise the deadline comes first.
LoopTop ==
    /\ spc = "loop"
    /\ \/ /\ stdoutDone /\ reaped # "none"
          /\ spc' = "join" /\ UNCHANGED failure
       \/ /\ ~(stdoutDone /\ reaped # "none")
          /\ IF expired THEN supervision_failure("deadline")
             ELSE spc' = "receive" /\ UNCHANGED failure
    /\ UNCHANGED <<child, pipe, stdoutThread, channel, collected, reaped, waitErrors, result,
                   world>>

Parses(bytes) == bytes # <<>> /\ \A k \in DOMAIN bytes : bytes[k] = "x"

\* A line: refused when it is one too many, too long or (past the metadata) not
\* the record expected at its position.  Metadata is kept raw and `continue`s,
\* without the poll of the child.
ReceiveLine ==
    LET bytes == Head(channel).bytes
        refused == \/ metadata + measurements >= protocol.meta + protocol.records
                   \/ Len(bytes) + 1 > protocol.maxRecord
                   \/ metadata >= protocol.meta /\ ~Parses(bytes)
    IN  /\ spc = "receive" /\ channel # <<>> /\ Head(channel).kind = "line"
        /\ channel' = Tail(channel)
        /\ \/ refused /\ supervision_failure("output") /\ UNCHANGED <<metadata, measurements>>
           \/ /\ ~refused /\ metadata < protocol.meta
              /\ metadata' = metadata + 1 /\ spc' = "loop"
              /\ UNCHANGED <<measurements, failure>>
           \/ /\ ~refused /\ metadata >= protocol.meta
              /\ measurements' = measurements + 1 /\ spc' = "poll"
              /\ UNCHANGED <<metadata, failure>>
        /\ UNCHANGED <<child, pipe, stdoutThread, stdoutDone, reaped, waitErrors, result, world>>

ReceiveError ==
    /\ spc = "receive" /\ channel # <<>> /\ Head(channel).kind = "error"
    /\ channel' = Tail(channel)
    /\ supervision_failure("output")
    /\ UNCHANGED <<child, pipe, stdoutThread, collected, reaped, waitErrors, result, world>>

\* Done, or Disconnected once the reader's sender is gone.
ReceiveDone ==
    /\ spc = "receive"
    /\ \/ channel # <<>> /\ Head(channel).kind = "done" /\ channel' = Tail(channel)
       \/ channel = <<>> /\ reader = "returned" /\ UNCHANGED channel
    /\ stdoutDone' = TRUE /\ spc' = "poll"
    /\ UNCHANGED <<child, pipe, stdoutThread, metadata, measurements, reaped, failure,
                   waitErrors, result, world>>

ReceiveTimeout ==
    /\ spc = "receive" /\ channel = <<>> /\ reader = "reading"
    /\ spc' = "poll"
    /\ UNCHANGED <<child, pipe, stdoutThread, channel, collected, reaped, failure, waitErrors,
                   result, world>>

\* wait4(WNOHANG) at the bottom of the loop, unless the exit is already known.
Poll ==
    /\ spc = "poll"
    /\ \/ /\ reaped # "none" \/ helper = "running"
          /\ spc' = "loop" /\ UNCHANGED <<helper, reaped, failure, waitErrors>>
       \/ /\ reaped = "none" /\ helper = "zombie"
          /\ \E outcome \in {"exact", "error"} : Reap(outcome)
          /\ spc' = "loop" /\ UNCHANGED failure
       \/ reaped = "none" /\ WaitError /\ supervision_failure("output")
    /\ UNCHANGED <<exitCode, killed, outOpen, wrote, pipe, stdoutThread, channel, collected,
                   result, world>>

\* terminate_and_reap: look first, then kill and wait.
Terminate ==
    /\ spc = "terminate"
    /\ \/ /\ helper = "zombie"
          /\ \E outcome \in {"exact", "error"} : Reap(outcome)
          /\ spc' = "join"
       \/ helper = "running" /\ spc' = "kill" /\ UNCHANGED <<helper, reaped, waitErrors>>
       \/ WaitError /\ spc' = "killUnknown"
    /\ UNCHANGED <<exitCode, killed, outOpen, wrote, pipe, stdoutThread, channel, collected,
                   failure, result, world>>

\* Mutant: the killed child is left to itself.
Kill_NoReap ==
    /\ spc \in {"kill", "killUnknown"}
    /\ killed' = TRUE
    /\ spc' = "join"
    /\ UNCHANGED <<helper, exitCode, outOpen, wrote, pipe, stdoutThread, channel, collected,
                   reaped, failure, waitErrors, result, world>>

Kill ==
    /\ spc \in {"kill", "killUnknown"}
    /\ killed' = TRUE
    /\ spc' = IF spc = "kill" THEN "reap" ELSE "lastWait"
    /\ UNCHANGED <<helper, exitCode, outOpen, wrote, pipe, stdoutThread, channel, collected,
                   reaped, failure, waitErrors, result, world>>

\* The blocking wait4 after the kill.
ReapKilled ==
    /\ spc = "reap"
    /\ \/ /\ helper = "zombie"
          /\ \E outcome \in {"exact", "error"} : Reap(outcome)
          /\ spc' = "join"
       \/ WaitError /\ spc' = "lastWait"
    /\ UNCHANGED <<exitCode, killed, outOpen, wrote, pipe, stdoutThread, channel, collected,
                   failure, result, world>>

\* Child::wait, the last resort: it reaps without accounting, or fails too.
LastWait ==
    /\ spc = "lastWait"
    /\ \/ helper = "zombie" /\ Reap("error")
       \/ /\ waitErrors < MaxWaitErrors
          /\ waitErrors' = waitErrors + 1 /\ reaped' = "error" /\ UNCHANGED helper
    /\ spc' = "join"
    /\ UNCHANGED <<exitCode, killed, outOpen, wrote, pipe, stdoutThread, channel, collected,
                   failure, result, world>>

\* completed_success: the counts, then the accounting.
completed_success ==
    IF metadata # protocol.meta \/ measurements # protocol.records
    THEN Failed("output", reaped = "exact")
    ELSE IF reaped = "exact"
    THEN [failure |-> "none", metadata |-> metadata, measurements |-> measurements,
          resources |-> TRUE]
    ELSE Failed("resource", FALSE)

\* Mutant: the accounting is looked at before the failure.
Classified_AccountingFirst ==
    IF reaped # "exact" THEN Failed("resource", FALSE)
    ELSE IF failure # "none" THEN Failed(failure, TRUE)
    ELSE IF exitCode = "zero" THEN completed_success
    ELSE IF exitCode = "special" THEN Failed("special", TRUE)
    ELSE Failed("exit", TRUE)

\* Mutant: resources are attached whatever the reap said.
Classified_AnyResources ==
    IF failure # "none" THEN Failed(failure, TRUE)
    ELSE IF exitCode = "zero" THEN completed_success
    ELSE Failed("exit", TRUE)

\* Mutant: the status itself is used as the failure code.
Classified_RawStatus ==
    IF failure # "none" THEN Failed(failure, reaped = "exact")
    ELSE IF exitCode = "zero" THEN completed_success
    ELSE Failed(exitCode, reaped = "exact")

\* Both threads are joined, then the outcome is classified.
Classified ==
    IF failure # "none" THEN Failed(failure, reaped = "exact")
    ELSE IF exitCode = "zero" THEN completed_success
    ELSE IF exitCode = "special" THEN Failed("special", reaped = "exact")
    ELSE Failed("exit", reaped = "exact")

Join ==
    /\ spc = "join" /\ reader = "returned" /\ errReader = "returned"
    /\ Return(Classified)
    /\ UNCHANGED <<child, pipe, stdoutThread, channel, collected, reaped, failure, waitErrors,
                   world>>

-----------------------------------------------------------------------------
Helper == (\E byte \in Bytes : HelperWrites(byte)) \/ HelperWritesStderr
          \/ HelperClosesStdout \/ HelperStops

StdoutReader == (\E n \in 1..PipeCapacity : ReadChunk(n)) \/ ReadByte \/ ReadError \/ ReadEnd

Caller == CheckBounds \/ Spawn \/ SpawnFails \/ LoopTop \/ ReceiveLine \/ ReceiveError
          \/ ReceiveDone \/ ReceiveTimeout \/ Poll \/ Terminate \/ Kill \/ ReapKilled
          \/ LastWait \/ Join

Returned == spc = "returned" /\ UNCHANGED vars

Next == Helper \/ StdoutReader \/ DrainStderr \/ DeadlinePasses \/ Caller \/ Returned

Spec == Init /\ [][Next]_vars

\* The three threads run, time passes and a SIGKILL arrives.  The helper owes
\* nothing: it may stop writing and never exit.
FairSpec ==
    /\ Spec
    /\ WF_vars(Caller) /\ WF_vars(StdoutReader) /\ WF_vars(DrainStderr)
    /\ WF_vars(DeadlinePasses) /\ WF_vars(HelperStops /\ killed)

-----------------------------------------------------------------------------
(* Properties.                                                             *)

ByteStrings == Seq(Bytes)

\* The type invariant of the variables.
TypeOK ==
    /\ protocol \in Protocols
    /\ spc \in {"check", "spawn", "loop", "receive", "poll", "terminate", "kill",
                "killUnknown", "reap", "lastWait", "join", "returned"}
    /\ helper \in {"none", "running", "zombie", "reaped"}
    /\ exitCode \in {"none", "zero", "special", "other", "signal"}
    /\ killed \in BOOLEAN /\ outOpen \in BOOLEAN /\ readFailed \in BOOLEAN
    /\ stdoutDone \in BOOLEAN /\ expired \in BOOLEAN
    /\ pipe \in ByteStrings /\ wrote \in ByteStrings
    /\ chunk \in ByteStrings /\ line \in ByteStrings
    /\ errPipe \in 0..StderrCapacity /\ total \in Nat
    /\ reader \in {"none", "reading", "returned"}
    /\ errReader \in {"none", "reading", "returned"}
    /\ channel \in Seq([kind : {"line", "error", "done"}, bytes : ByteStrings])
    /\ metadata \in Nat /\ measurements \in Nat
    /\ reaped \in {"none", "exact", "error"}
    /\ failure \in {"none", "output", "deadline"}
    /\ waitErrors \in 0..MaxWaitErrors
    /\ result \in [failure : {"pending", "none", "output", "spawn", "deadline", "special",
                              "exit", "resource"},
                   metadata : Nat, measurements : Nat, resources : BOOLEAN]

Newlines == {k \in 1..Len(wrote) : wrote[k] = "n"}

\* The lines of everything the helper wrote, by where each one ends; an
\* unterminated rest is a line.
LineEnds == Newlines \cup (IF wrote # <<>> /\ wrote[Len(wrote)] # "n" THEN {Len(wrote) + 1} ELSE {})

LineStart(end) ==
    LET before == {k \in Newlines : k < end}
    IN  IF before = {} THEN 1 ELSE 1 + CHOOSE k \in before : \A j \in before : j <= k

\* The helper's output, taken as a whole and without regard to how it was
\* read, is the complete protocol: exactly the expected lines, each within the
\* record limit, every record past the metadata one that parses and validates.
CompleteProtocol ==
    /\ Cardinality(LineEnds) = protocol.meta + protocol.records
    /\ \A end \in LineEnds :
         /\ end - LineStart(end) < protocol.maxRecord
         /\ Cardinality({k \in LineEnds : k < end}) >= protocol.meta =>
               /\ end > LineStart(end)
               /\ \A k \in LineStart(end)..(end - 1) : wrote[k] = "x"

\* Success is never reported for less: the helper wrote the complete protocol
\* and nothing else, exited with status zero, and was accounted exactly - in
\* whatever order its last bytes, its exit and the deadline were seen.
SuccessMeansCompleteProtocol ==
    result.failure = "none" =>
        /\ CompleteProtocol
        /\ exitCode = "zero" /\ helper = "reaped" /\ ~killed
        /\ result = [failure |-> "none", metadata |-> protocol.meta,
                     measurements |-> protocol.records, resources |-> TRUE]

\* A helper that writes the complete protocol and exits with status zero is
\* refused only for the deadline, an I/O or wait error, or its accounting:
\* the transport bounds never turn down a conforming helper.
ConformingHelperIsAccepted ==
    result.failure \in {"output", "exit", "special"} =>
        \/ ~CompleteProtocol \/ exitCode # "zero" \/ readFailed \/ waitErrors > 0

\* An accounting problem is reported only when nothing else went wrong.
AccountingNeverMasksFailure ==
    result.failure = "resource" =>
        CompleteProtocol /\ exitCode = "zero" /\ reaped = "error" /\ failure = "none"

\* No signal is sent to a process that was already reaped, whose ID may by then
\* belong to another process.
NoSignalAfterReap == spc \in {"kill", "killUnknown"} => helper # "reaped"

\* When execute returns, the child it started has been reaped, unless two
\* wait calls in a row failed.
ChildReapedOnReturn ==
    spc = "returned" => helper \in {"none", "reaped"} \/ waitErrors >= 2

\* Resources are reported only from the exact accounting of this child's reap.
ResourcesOnlyFromReap == result.resources => helper = "reaped" /\ reaped = "exact"

\* execute returns, even when the helper never exits, never closes its pipes
\* or never stops writing.
ExecuteReturns == <>(spc = "returned")

\* Neither thread ever leaves the helper blocked on a full pipe: stdout is
\* read or its read end is closed, stderr is always drained.
HelperNeverBlockedForEver ==
    /\ (Len(pipe) = PipeCapacity) ~> (Len(pipe) < PipeCapacity \/ reader = "returned")
    /\ (StderrCapacity > 0 /\ errPipe = StderrCapacity) ~> (errPipe < StderrCapacity)
=============================================================================
