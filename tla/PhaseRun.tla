------------------------------ MODULE PhaseRun ------------------------------
(***************************************************************************)
(* One phase of a build: BuildExecutor::run_phase of ribosome-core.  bash  *)
(* runs the script with its output and errors in two pipes.  On the host   *)
(* two threads read the pipes line by line and send the lines to the       *)
(* builder, which writes them to the transcript as they come; in the       *)
(* sandbox the builder collects both pipes and writes them at the end.     *)
(* The script may leave a process in the background that holds the pipes.  *)
(***************************************************************************)
EXTENDS Naturals, Sequences, FiniteSets

CONSTANTS
    MaxLines,  \* bound: the lines that the script's processes write
    PipeSize   \* the lines that a pipe holds (64 KiB in Linux)

ASSUME PhaseAssumption == MaxLines \in Nat /\ PipeSize \in Nat \ {0}

VARIABLES
    sandboxed,
    proc,        \* bash, and the process that it leaves in the background
    holds,       \* the pipes that each of them has open
    pending,     \* the line that each is about to write
    written,     \* history: what was written to each stream
    pipe,
    reader,      \* the thread that reads each pipe, on the host
    chan,        \* the lines that were read and not yet taken
    line,        \* the line that the builder has in hand
    transcript,
    pc, result

script == <<proc, holds, pending, written>>
builder == <<reader, chan, line, transcript, pc, result>>
vars == <<sandboxed, script, pipe, builder>>

Stream == {"out", "err"}
Proc == {"bash", "child"}
\* A binary line is one that is not UTF-8.
Line == [of : Stream, text : {"plain", "binary"}, n : 1..MaxLines]
NoLine == [of |-> "none"]

Init ==
    /\ sandboxed \in BOOLEAN
    /\ proc = [p \in Proc |-> "none"]
    /\ holds = [p \in Proc |-> {}]
    /\ pending = [p \in Proc |-> NoLine]
    /\ written = [s \in Stream |-> <<>>]
    /\ pipe = [s \in Stream |-> <<>>]
    /\ reader = [s \in Stream |-> "none"]
    /\ chan = <<>>
    /\ line = NoLine
    /\ transcript = <<>>
    /\ pc = "start"
    /\ result = "none"

Returns(r) == pc' = "returned" /\ result' = r
Holders(s) == {p \in Proc : s \in holds[p]}
\* The lines of stream s, in their order.
Of(s, lines) ==
    LET of[n \in 0..Len(lines)] ==
            IF n = 0 THEN <<>>
            ELSE IF lines[n].of = s THEN Append(of[n - 1], lines[n]) ELSE of[n - 1]
    IN  of[Len(lines)]
Printed == Len(written["out"]) + Len(written["err"]) + Cardinality({p \in Proc : pending[p] # NoLine})

-----------------------------------------------------------------------------
\* The phase begins: bash has both pipes, and on the host each has its thread.
Spawn ==
    /\ pc = "start"
    /\ proc' = [proc EXCEPT !["bash"] = "running"]
    /\ holds' = [holds EXCEPT !["bash"] = Stream]
    /\ reader' = [s \in Stream |-> IF sandboxed THEN "none" ELSE "reading"]
    /\ pc' = IF sandboxed THEN "collect" ELSE "recv"
    /\ UNCHANGED <<sandboxed, pending, written, pipe, chan, line, transcript, result>>

\* The transcript, the build directory, bash or systemd-nspawn fails it.
SpawnFails ==
    /\ pc = "start"
    /\ Returns("error")
    /\ UNCHANGED <<sandboxed, script, pipe, reader, chan, line, transcript>>

-----------------------------------------------------------------------------
\* The script's processes.
Emit(p, s, text) ==
    /\ proc[p] = "running" /\ pending[p] = NoLine
    /\ s \in holds[p]
    /\ Printed < MaxLines
    /\ pending' = [pending EXCEPT ![p] = [of |-> s, text |-> text, n |-> Printed + 1]]
    /\ UNCHANGED <<sandboxed, proc, holds, written, pipe, builder>>

\* The write ends once the pipe has room for the line.
Write(p) ==
    /\ pending[p] # NoLine
    /\ LET s == pending[p].of IN
        /\ reader[s] # "ended"
        /\ Len(pipe[s]) < PipeSize
        /\ pipe' = [pipe EXCEPT ![s] = Append(@, pending[p])]
        /\ written' = [written EXCEPT ![s] = Append(@, pending[p])]
    /\ pending' = [pending EXCEPT ![p] = NoLine]
    /\ UNCHANGED <<sandboxed, proc, holds, builder>>

\* Nobody reads the pipe any more: SIGPIPE ends the program that writes, and
\* the script, unless it takes no notice of it.
WriteBroken(p, dies) ==
    /\ pending[p] # NoLine
    /\ LET s == pending[p].of IN
        /\ reader[s] = "ended"
        /\ written' = [written EXCEPT ![s] = Append(@, pending[p])]
    /\ pending' = [pending EXCEPT ![p] = NoLine]
    /\ proc' = IF dies THEN [proc EXCEPT ![p] = "failed"] ELSE proc
    /\ holds' = IF dies THEN [holds EXCEPT ![p] = {}] ELSE holds
    /\ UNCHANGED <<sandboxed, pipe, builder>>

\* The script leaves a process in the background, with some of its pipes.
Fork(kept) ==
    /\ proc["bash"] = "running" /\ pending["bash"] = NoLine
    /\ proc["child"] = "none"
    /\ proc' = [proc EXCEPT !["child"] = "running"]
    /\ holds' = [holds EXCEPT !["child"] = kept]
    /\ UNCHANGED <<sandboxed, pending, written, pipe, builder>>

\* What ends with a process: the container ends with the bash that it runs.
EndWith(p) == IF p = "bash" /\ sandboxed THEN Proc ELSE {p}

ProcExits(p, status) ==
    /\ proc[p] = "running" /\ pending[p] = NoLine
    /\ proc' = [q \in Proc |-> CASE q = p -> status
                                 [] q \in EndWith(p) \ {p} /\ proc[q] = "running" -> "failed"
                                 [] OTHER -> proc[q]]
    /\ holds' = [q \in Proc |-> IF q \in EndWith(p) THEN {} ELSE holds[q]]
    /\ pending' = [q \in Proc |-> IF q \in EndWith(p) THEN NoLine ELSE pending[q]]
    /\ UNCHANGED <<sandboxed, written, pipe, builder>>

-----------------------------------------------------------------------------
\* The reader threads.  Nobody receives once the builder has returned.
Send(l) == chan' = IF pc = "returned" THEN chan ELSE Append(chan, l)

\* A bug: the threads are one, which reads the errors after the output.
ReadInTurn(s) ==
    /\ reader[s] = "reading" /\ pipe[s] # <<>>
    /\ s = "err" => reader["out"] = "ended"
    /\ Head(pipe[s]).text = "plain"
    /\ Send(Head(pipe[s]))
    /\ pipe' = [pipe EXCEPT ![s] = Tail(@)]
    /\ UNCHANGED <<sandboxed, script, reader, line, transcript, pc, result>>

ReadLine(s) ==
    /\ reader[s] = "reading" /\ pipe[s] # <<>>
    /\ Head(pipe[s]).text = "plain"
    /\ Send(Head(pipe[s]))
    /\ pipe' = [pipe EXCEPT ![s] = Tail(@)]
    /\ UNCHANGED <<sandboxed, script, reader, line, transcript, pc, result>>

\* lines() fails on a line that is not UTF-8, and map_while ends with it: the
\* thread drops its end of the pipe, and what is in it.
ReadFails(s) ==
    /\ reader[s] = "reading" /\ pipe[s] # <<>>
    /\ Head(pipe[s]).text = "binary"
    /\ reader' = [reader EXCEPT ![s] = "ended"]
    /\ pipe' = [pipe EXCEPT ![s] = <<>>]
    /\ UNCHANGED <<sandboxed, script, chan, line, transcript, pc, result>>

ReadEnds(s) ==
    /\ reader[s] = "reading" /\ pipe[s] = <<>>
    /\ Holders(s) = {}
    /\ reader' = [reader EXCEPT ![s] = "ended"]
    /\ UNCHANGED <<sandboxed, script, pipe, chan, line, transcript, pc, result>>

-----------------------------------------------------------------------------
\* The builder on the host: run_phase_host.
Recv ==
    /\ pc = "recv" /\ chan # <<>>
    /\ line' = Head(chan)
    /\ chan' = Tail(chan)
    /\ pc' = "transcribe"
    /\ UNCHANGED <<sandboxed, script, pipe, reader, transcript, result>>

Transcribe ==
    /\ pc = "transcribe"
    /\ transcript' = Append(transcript, line)
    /\ line' = NoLine
    /\ pc' = "recv"
    /\ UNCHANGED <<sandboxed, script, pipe, reader, chan, result>>

\* A bug: the threads are stopped too, and leave the pipes open.
LeakPipes ==
    /\ pc = "transcribe"
    /\ line' = NoLine
    /\ chan' = <<>>
    /\ reader' = [s \in Stream |-> "none"]
    /\ Returns("error")
    /\ UNCHANGED <<sandboxed, script, pipe, transcript>>

\* A transcript that cannot be written ends the phase at once: bash and the
\* threads go on.
TranscribeFails ==
    /\ pc = "transcribe"
    /\ line' = NoLine
    /\ chan' = <<>>
    /\ Returns("error")
    /\ UNCHANGED <<sandboxed, script, pipe, reader, transcript>>

\* A bug: the loop ends with bash, whatever the threads still have to read.
RecvUntilExit ==
    /\ pc = "recv" /\ chan = <<>>
    /\ proc["bash"] # "running"
    /\ pc' = "wait"
    /\ UNCHANGED <<sandboxed, script, pipe, reader, chan, line, transcript, result>>

\* A bug: the loop ends with the output, whatever is still read of the errors.
RecvEndsEarly ==
    /\ pc = "recv" /\ chan = <<>>
    /\ reader["out"] = "ended"
    /\ pc' = "wait"
    /\ UNCHANGED <<sandboxed, script, pipe, reader, chan, line, transcript, result>>

\* Every sender is dropped: recv fails, and the threads can be joined.
RecvEnds ==
    /\ pc = "recv" /\ chan = <<>>
    /\ \A s \in Stream : reader[s] = "ended"
    /\ pc' = "wait"
    /\ UNCHANGED <<sandboxed, script, pipe, reader, chan, line, transcript, result>>

Wait ==
    /\ pc = "wait"
    /\ proc["bash"] # "running"
    /\ Returns(proc["bash"])
    /\ UNCHANGED <<sandboxed, script, pipe, reader, chan, line, transcript>>

\* ribosome exits after an error, and its threads with it.
Exit ==
    /\ pc = "returned"
    /\ \E s \in Stream : reader[s] = "reading"
    /\ reader' = [s \in Stream |-> "ended"]
    /\ pipe' = [s \in Stream |-> <<>>]
    /\ UNCHANGED <<sandboxed, script, chan, line, transcript, pc, result>>

-----------------------------------------------------------------------------
\* The builder of a sandboxed phase: Command::output reads both pipes to their
\* end and waits, and the bytes that are not UTF-8 are replaced.
Collect(s) ==
    /\ pc = "collect" /\ pipe[s] # <<>>
    /\ chan' = Append(chan, Head(pipe[s]))
    /\ pipe' = [pipe EXCEPT ![s] = Tail(@)]
    /\ UNCHANGED <<sandboxed, script, reader, line, transcript, pc, result>>

CollectEnds ==
    /\ pc = "collect"
    /\ \A s \in Stream : pipe[s] = <<>> /\ Holders(s) = {}
    /\ proc["bash"] # "running"
    /\ pc' = "append out"
    /\ UNCHANGED <<sandboxed, script, pipe, reader, chan, line, transcript, result>>

AppendOut ==
    /\ pc = "append out"
    /\ transcript' = transcript \o Of("out", chan)
    /\ pc' = "append err"
    /\ UNCHANGED <<sandboxed, script, pipe, reader, chan, line, result>>

AppendErr ==
    /\ pc = "append err"
    /\ transcript' = transcript \o Of("err", chan)
    /\ Returns(proc["bash"])
    /\ UNCHANGED <<sandboxed, script, pipe, reader, chan, line>>

AppendFails ==
    /\ pc \in {"append out", "append err"}
    /\ Returns("error")
    /\ UNCHANGED <<sandboxed, script, pipe, reader, chan, line, transcript>>

-----------------------------------------------------------------------------
BashSteps ==
    \/ Write("bash")
    \/ \E dies \in BOOLEAN : WriteBroken("bash", dies)
    \/ \E status \in {"ok", "failed"} : ProcExits("bash", status)
ChildSteps ==
    \/ Write("child")
    \/ \E dies \in BOOLEAN : WriteBroken("child", dies)
    \/ \E status \in {"ok", "failed"} : ProcExits("child", status)
Reader(s) == ReadLine(s) \/ ReadFails(s) \/ ReadEnds(s)
Main ==
    \/ Spawn \/ SpawnFails
    \/ Recv \/ Transcribe \/ TranscribeFails \/ RecvEnds \/ Wait
    \/ \E s \in Stream : Collect(s)
    \/ CollectEnds \/ AppendOut \/ AppendErr \/ AppendFails

Next ==
    \/ \E p \in Proc, s \in Stream, text \in {"plain", "binary"} : Emit(p, s, text)
    \/ \E kept \in SUBSET Stream : Fork(kept)
    \/ BashSteps \/ ChildSteps
    \/ \E s \in Stream : Reader(s)
    \/ Main \/ Exit

\* The builder and its threads run, and bash comes to its end if its writes do.
\* Nothing is asked of the process in the background.
Spec == /\ Init /\ [][Next]_vars
        /\ WF_vars(Main) /\ WF_vars(BashSteps)
        /\ \A s \in Stream : WF_vars(Reader(s))

-----------------------------------------------------------------------------
TypeOK ==
    /\ sandboxed \in BOOLEAN
    /\ proc \in [Proc -> {"none", "running", "ok", "failed"}]
    /\ holds \in [Proc -> SUBSET Stream]
    /\ pending \in [Proc -> Line \cup {NoLine}]
    /\ written \in [Stream -> Seq(Line)]
    /\ pipe \in [Stream -> Seq(Line)]
    /\ \A s \in Stream : Len(pipe[s]) <= PipeSize
    /\ reader \in [Stream -> {"none", "reading", "ended"}]
    /\ chan \in Seq(Line)
    /\ line \in Line \cup {NoLine}
    /\ transcript \in Seq(Line)
    /\ pc \in {"start", "recv", "transcribe", "wait", "collect", "append out", "append err",
               "returned"}
    /\ result \in {"none", "ok", "failed", "error"}

\* A thread stopped at a line that it could not decode.
Cut(s) == ~sandboxed /\ \E n \in DOMAIN written[s] : written[s][n].text = "binary"
Returned == result \in {"ok", "failed"}

(* No line is lost, doubled or put before an earlier one of its stream,      *)
(* whichever thread is faster and whoever wrote it, up to the first line     *)
(* that is not UTF-8: a phase that returned bash's status has in the         *)
(* transcript all that the script and its background processes wrote, and    *)
(* one that has not has a part of it from the beginning.                     *)
OutputKept ==
    \A s \in Stream :
        LET kept == Of(s, transcript) IN
        /\ kept = SubSeq(written[s], 1, Len(kept))
        /\ Returned /\ ~Cut(s) => kept = written[s]

(* A phase that returned bash's status has nothing of its script left that   *)
(* could write to its output: bash has ended, with that status, and so has   *)
(* whatever kept a pipe that is read to its end open.                        *)
ScriptOver ==
    Returned => /\ proc["bash"] = result
                /\ \A s \in Stream : ~Cut(s) => Holders(s) = {}

(* Full pipes, whichever is read first, and a transcript that fails hold     *)
(* nobody up: a phase returns, unless a background process of a script on    *)
(* the host keeps its output open for ever.                                  *)
PhaseReturns ==
    \/ <>(pc = "returned")
    \/ ~sandboxed /\ <>[](proc["child"] = "running" /\ holds["child"] # {})

(* After a phase that ended in an error, too, bash comes to its end: none    *)
(* that blocks on a pipe is left behind.                                     *)
BashEnds == (proc["bash"] = "running") ~> (proc["bash"] # "running")

(* "Lines from both streams are forwarded ... as they arrive and appended to *)
(* the transcript log": all of them, once the phase has returned a status.   *)
AllTranscribed == Returned => \A s \in Stream : Of(s, transcript) = written[s]
=============================================================================
