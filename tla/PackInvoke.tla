------------------------------- MODULE PackInvoke -------------------------------
(***************************************************************************)
(* One call of a pack: `invoke`, `wait_for_pack`, `receive_output` and the *)
(* two reader threads, against a pack that may read, write, close its      *)
(* pipes, leave a descendant that holds them, exit or do nothing at all.   *)
(*                                                                         *)
(* The three pipes have a capacity.  What goes through them is counted,    *)
(* not spelled: a response is ResponseSize units of output that say        *)
(* "result", fewer are cut JSON and more are trailing output.              *)
(***************************************************************************)
EXTENDS Integers

CONSTANTS
    RequestSize, ResponseSize, \* units of a request, of a whole response
    PipeCapacity,              \* units that a pipe holds
    MaxOutput,                 \* bound on what is written to one stream
    Timeout                    \* ticks until the deadline

ASSUME PackInvokeAssumption ==
    /\ RequestSize \in Nat /\ ResponseSize \in Nat
    /\ PipeCapacity \in Nat \ {0}
    /\ MaxOutput \in Nat /\ Timeout \in Nat \ {0}

Streams == {"stdout", "stderr"}
Pipes == {"stdin"} \cup Streams
Programs == {"pack", "descendant"}

VARIABLES
    host,       \* where `invoke` is
    written,    \* units of the request written
    remaining,  \* ticks until the deadline, once it exists
    pipe,       \* units in each pipe
    holders,    \* programs that hold the other end of each pipe
    emitted,    \* units the programs wrote to each stream
    received,   \* units the reader of each stream took
    reader,     \* the reader threads
    pack,       \* the process, until it is waited for
    status,     \* its exit status
    descendant, \* the process it left behind
    answer,     \* what its response says
    outcome     \* what `invoke` returned

callVars == <<host, written, remaining, pipe, holders, emitted, received, reader,
              pack, status, descendant, answer, outcome>>
programVars == <<pipe, holders, emitted, descendant, answer>>
readerVars == <<received, reader>>

Waiting == {"poll", "stdout", "stderr"}

CallInit ==
    /\ host = "start" /\ written = 0 /\ remaining = Timeout
    /\ pipe = [p \in Pipes |-> 0]
    /\ holders = [p \in Pipes |-> {}]
    /\ emitted = [s \in Streams |-> 0]
    /\ received = [s \in Streams |-> 0]
    /\ reader = [s \in Streams |-> "none"]
    /\ pack = "none" /\ status = "none" /\ descendant = "none"
    /\ answer \in {"result", "error"}
    /\ outcome = "none"

Return(result) == host' = "returned" /\ outcome' = result

-----------------------------------------------------------------------------
\* The settings are invalid or the executable cannot be started.
Reject ==
    /\ host = "start"
    /\ Return("refused")
    /\ UNCHANGED <<written, remaining, pack, status, programVars, readerVars>>

Spawn ==
    /\ host = "start"
    /\ host' = "write"
    /\ pack' = "running"
    /\ holders' = [p \in Pipes |-> {"pack"}]
    /\ UNCHANGED <<written, remaining, pipe, emitted, descendant, answer, status,
                   outcome, readerVars>>

\* `write_all`, a unit at a time; it blocks while the pipe is full.
WriteRequest ==
    /\ host = "write"
    /\ written < RequestSize
    /\ holders["stdin"] # {}
    /\ pipe["stdin"] < PipeCapacity
    /\ written' = written + 1
    /\ pipe' = [pipe EXCEPT !["stdin"] = @ + 1]
    /\ UNCHANGED <<host, remaining, holders, emitted, descendant, answer, pack,
                   status, outcome, readerVars>>

\* The request is out, or nobody is left to read it; either way the call goes
\* on: it starts the readers and sets the deadline.
StartReaders ==
    /\ host = "write"
    /\ written = RequestSize \/ holders["stdin"] = {}
    /\ host' = "poll"
    /\ remaining' = Timeout
    /\ reader' = [s \in Streams |-> "reading"]
    /\ UNCHANGED <<written, received, pack, status, outcome, programVars>>

\* Slip: one thread reads the streams, one after the other.
ReadInTurn(s) ==
    /\ reader[s] = "reading" /\ pipe[s] > 0
    /\ s = "stderr" => reader["stdout"] = "sent"
    /\ pipe' = [pipe EXCEPT ![s] = @ - 1]
    /\ received' = [received EXCEPT ![s] = @ + 1]
    /\ UNCHANGED <<host, written, remaining, holders, emitted, descendant, answer,
                   reader, pack, status, outcome>>

\* `read_all`.
Read(s) ==
    /\ reader[s] = "reading" /\ pipe[s] > 0
    /\ pipe' = [pipe EXCEPT ![s] = @ - 1]
    /\ received' = [received EXCEPT ![s] = @ + 1]
    /\ UNCHANGED <<host, written, remaining, holders, emitted, descendant, answer,
                   reader, pack, status, outcome>>

\* Slip: the reader stops when the pack exits.
ReadUntilExit(s) ==
    /\ reader[s] = "reading" /\ pipe[s] = 0 /\ "pack" \notin holders[s]
    /\ reader' = [reader EXCEPT ![s] = "sent"]
    /\ UNCHANGED <<host, written, remaining, received, pack, status, outcome,
                   programVars>>

\* The end of the stream: nothing is left in it and nobody can add to it.
EndOfFile(s) ==
    /\ reader[s] = "reading" /\ pipe[s] = 0 /\ holders[s] = {}
    /\ reader' = [reader EXCEPT ![s] = "sent"]
    /\ UNCHANGED <<host, written, remaining, received, pack, status, outcome,
                   programVars>>

-----------------------------------------------------------------------------
\* `try_wait`, every ten milliseconds.
PackExited ==
    /\ host = "poll" /\ pack = "exited"
    /\ pack' = "waited for"
    /\ host' = "stdout"
    /\ UNCHANGED <<written, remaining, status, outcome, programVars, readerVars>>

\* Slip: the call times out and lets the pack run.
Abandon ==
    /\ host = "poll" /\ pack = "running" /\ remaining = 0
    /\ Return("refused")
    /\ UNCHANGED <<written, remaining, pack, status, programVars, readerVars>>

KillPack ==
    /\ host = "poll" /\ pack = "running" /\ remaining = 0
    /\ host' = "killing"
    /\ UNCHANGED <<written, remaining, pack, status, outcome, programVars,
                   readerVars>>

\* `wait` returns.
Killed ==
    /\ host = "killing" /\ pack = "exited"
    /\ pack' = "waited for"
    /\ Return("refused")
    /\ UNCHANGED <<written, remaining, status, programVars, readerVars>>

Receive(s, next) ==
    /\ host = s /\ reader[s] = "sent"
    /\ host' = next
    /\ UNCHANGED <<written, remaining, pack, status, outcome, programVars,
                   readerVars>>

\* Slip: the second stream is awaited without a limit.
OutputTimeoutOnce(s) ==
    /\ host = s /\ reader[s] # "sent" /\ remaining = 0 /\ s = "stdout"
    /\ Return("refused")
    /\ UNCHANGED <<written, remaining, pack, status, programVars, readerVars>>

\* Somebody else still holds the stream at the deadline.
OutputTimeout(s) ==
    /\ host = s /\ reader[s] # "sent" /\ remaining = 0
    /\ Return("refused")
    /\ UNCHANGED <<written, remaining, pack, status, programVars, readerVars>>

Accepted ==
    /\ status = "success"
    /\ written = RequestSize
    /\ received["stdout"] = ResponseSize
    /\ answer = "result"

Conclude ==
    /\ host = "conclude"
    /\ Return(IF Accepted THEN "accepted" ELSE "refused")
    /\ UNCHANGED <<written, remaining, pack, status, programVars, readerVars>>

Tick ==
    /\ host \in Waiting /\ remaining > 0
    /\ remaining' = remaining - 1
    /\ UNCHANGED <<host, written, pack, status, outcome, programVars, readerVars>>

-----------------------------------------------------------------------------
\* The programs, which nothing obliges to take any of these steps.
ReadInput(p) ==
    /\ p \in holders["stdin"] /\ pipe["stdin"] > 0
    /\ pipe' = [pipe EXCEPT !["stdin"] = @ - 1]
    /\ UNCHANGED <<host, written, remaining, holders, emitted, descendant, answer,
                   pack, status, outcome, readerVars>>

WriteOutput(p, s) ==
    /\ p \in holders[s] /\ pipe[s] < PipeCapacity /\ emitted[s] < MaxOutput
    /\ pipe' = [pipe EXCEPT ![s] = @ + 1]
    /\ emitted' = [emitted EXCEPT ![s] = @ + 1]
    /\ UNCHANGED <<host, written, remaining, holders, descendant, answer,
                   pack, status, outcome, readerVars>>

ClosePipe(p, f) ==
    /\ p \in holders[f]
    /\ holders' = [holders EXCEPT ![f] = @ \ {p}]
    /\ UNCHANGED <<host, written, remaining, pipe, emitted, descendant, answer,
                   pack, status, outcome, readerVars>>

\* The descendant inherits what the pack has open.
Fork ==
    /\ pack = "running" /\ descendant = "none"
    /\ descendant' = "forked"
    /\ holders' = [f \in Pipes |-> IF "pack" \in holders[f]
                                   THEN Programs ELSE holders[f]]
    /\ UNCHANGED <<host, written, remaining, pipe, emitted, answer,
                   pack, status, outcome, readerVars>>

Exit(code) ==
    /\ pack = "running"
    /\ pack' = "exited" /\ status' = code
    /\ holders' = [f \in Pipes |-> holders[f] \ {"pack"}]
    /\ UNCHANGED <<host, written, remaining, pipe, emitted, descendant, answer,
                   outcome, readerVars>>

\* What the kill does to the pack; its descendant lives on.
Die == host = "killing" /\ Exit("failure")

-----------------------------------------------------------------------------
Host ==
    \/ Reject \/ Spawn \/ WriteRequest \/ StartReaders
    \/ PackExited \/ KillPack \/ Killed
    \/ Receive("stdout", "stderr") \/ Receive("stderr", "conclude")
    \/ \E s \in Streams : OutputTimeout(s)
    \/ Conclude

Reader(s) == Read(s) \/ EndOfFile(s)

Program ==
    \/ \E p \in Programs :
        \/ ReadInput(p)
        \/ \E s \in Streams : WriteOutput(p, s)
        \/ \E f \in Pipes : ClosePipe(p, f)
    \/ Fork
    \/ \E code \in {"success", "failure"} : Exit(code)

CallNext == Host \/ Tick \/ (\E s \in Streams : Reader(s)) \/ Program \/ Die

\* The host's thread and its readers run when they can, time passes, and a
\* killed process dies.  Of a pack nothing is assumed.
Fairness ==
    /\ WF_callVars(Host) /\ WF_callVars(Tick) /\ WF_callVars(Die)
    /\ \A s \in Streams : WF_callVars(Reader(s))

CallSpec == CallInit /\ [][CallNext]_callVars /\ Fairness

-----------------------------------------------------------------------------
TypeOK ==
    /\ host \in {"start", "write", "poll", "killing", "stdout", "stderr",
                 "conclude", "returned"}
    /\ written \in 0 .. RequestSize
    /\ remaining \in 0 .. Timeout
    /\ pipe \in [Pipes -> 0 .. PipeCapacity]
    /\ holders \in [Pipes -> SUBSET Programs]
    /\ emitted \in [Streams -> 0 .. MaxOutput]
    /\ received \in [Streams -> 0 .. MaxOutput]
    /\ reader \in [Streams -> {"none", "reading", "sent"}]
    /\ pack \in {"none", "running", "exited", "waited for"}
    /\ status \in {"none", "success", "failure"}
    /\ descendant \in {"none", "forked"}
    /\ answer \in {"result", "error"}
    /\ outcome \in {"none", "accepted", "refused"}

\* An answer that is accepted is all that the pack and its descendants wrote
\* and ever can write, to both streams, from a pack that was given the whole
\* request and succeeded: nothing is cut by the exit, the deadline or the order
\* in which the streams end.
AnswerWhole ==
    outcome = "accepted" =>
        /\ status = "success" /\ written = RequestSize
        /\ \A s \in Streams :
            received[s] = emitted[s] /\ pipe[s] = 0 /\ holders[s] = {}

\* However a call returns, the pack it started has ended and was waited for.
NoPackLeft == host = "returned" => pack \in {"none", "waited for"}

\* Once it waits, a call returns: whatever the pack and its descendants do or
\* fail to do, and whoever keeps their output open.
CallReturns == host = "poll" ~> host = "returned"

\* A stream that is full is drained while the other one is still open, so a
\* pack that writes much to both is not stopped by the host.
Drained ==
    \A s \in Streams :
        (reader[s] # "none" /\ pipe[s] = PipeCapacity) ~> pipe[s] < PipeCapacity

\* docs/packs.md: "operations time out after 30 seconds".
OperationEnds == <>(host = "returned")

=============================================================================
