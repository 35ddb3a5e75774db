--------------------------------- MODULE StdErr ---------------------------------
(***************************************************************************)
(* The stderr of a container: what the function writes there goes through  *)
(* a pipe to the scanner that StdErrCallback starts, and line by line to   *)
(* the logger.  The pipe is bounded and the writer waits when it is full;  *)
(* the longest line of bufio.Scanner is bounded too, and at a longer one   *)
(* the scanner stops for good, with the pipe open.                         *)
(*                                                                         *)
(* A unit of text is <<i, j>>: the j-th of call i, which writes one line,  *)
(* the last unit its newline.  The startup exchange is a call like others. *)
(***************************************************************************)
EXTENDS Naturals, Sequences, SequencesExt

CONSTANTS
  PipeSize,  \* units the pipe holds
  TokenSize, \* the longest line of the scanner, its newline included
  MaxLine,   \* bound: the longest line written
  MaxCalls   \* bound: calls

ASSUME StdErrAssumption == {PipeSize, TokenSize, MaxLine, MaxCalls} \subseteq Nat \ {0}

VARIABLES
  plan,    \* the length of the line that each call writes, 0 for none
  call,    \* calls so far, the present one included
  busy,    \* it has not returned
  col,     \* units it has written
  process, \* "new", "runs", "ended", or "failed" to start
  closed,  \* Go's end of the pipe was closed
  pipe, buf, \* what the pipe and the scanner's buffer hold
  reader,  \* the goroutine: "scan" or "stopped"
  logged   \* the lines the callback was called for

writer == <<call, busy, col>>
stream == <<pipe, buf, reader, logged>>
vars   == <<plan, writer, process, closed, stream>>

IsNewline(u) == u[2] = plan[u[1]]

Init ==
  /\ plan \in [1 .. MaxCalls -> 0 .. MaxLine]
  /\ call = 0 /\ busy = FALSE /\ col = 0
  /\ process = "new" /\ closed = FALSE
  /\ pipe = <<>> /\ buf = <<>> /\ reader = "scan" /\ logged = <<>>

-----------------------------------------------------------------------------
(* StartWithStderr: the goroutine is there before the process is.          *)
Start ==
  /\ process = "new"
  /\ process' = "runs"
  /\ UNCHANGED <<plan, writer, closed, stream>>

(* Mutant: the closer of StdErrCallback is forgotten.                      *)
StartFailedOpen ==
  /\ process = "new"
  /\ process' = "failed"
  /\ UNCHANGED <<plan, writer, closed, stream>>

StartFailed ==
  /\ process = "new"
  /\ process' = "failed" /\ closed' = TRUE
  /\ UNCHANGED <<plan, writer, stream>>

(* Send encodes a request; the mutex lets one at a time in.                *)
Send ==
  /\ process = "runs" /\ ~busy /\ call < MaxCalls
  /\ call' = call + 1 /\ busy' = TRUE /\ col' = 0
  /\ UNCHANGED <<plan, process, closed, stream>>

(* The function writes, which waits while the pipe is full ...             *)
Write ==
  /\ process = "runs" /\ busy /\ col < plan[call]
  /\ Len(pipe) < PipeSize
  /\ pipe' = Append(pipe, <<call, col + 1>>)
  /\ col' = col + 1
  /\ UNCHANGED <<plan, call, busy, process, closed, buf, reader, logged>>

(* ... and then returns; Send decodes its reply.                           *)
Return ==
  /\ process = "runs" /\ busy /\ col = plan[call]
  /\ busy' = FALSE
  /\ UNCHANGED <<plan, call, col, process, closed, stream>>

(* The process dies or is killed; Send decodes the end of stdout.          *)
Exit ==
  /\ process = "runs"
  /\ process' = "ended" /\ busy' = FALSE
  /\ UNCHANGED <<plan, call, col, closed, stream>>

-----------------------------------------------------------------------------
(* scanner.Scan: the first line of the buffer, or more from the pipe ...   *)
Newlines == {k \in DOMAIN buf : IsNewline(buf[k])}

(* Mutant: the callback gets what a Read returned.                         *)
TokenBuffer ==
  /\ reader = "scan" /\ Newlines # {}
  /\ logged' = Append(logged, buf) /\ buf' = <<>>
  /\ UNCHANGED <<plan, writer, process, closed, pipe, reader>>

FirstLine ==
  \E k \in Newlines :
    /\ \A l \in Newlines : k <= l
    /\ logged' = Append(logged, SubSeq(buf, 1, k))
    /\ buf' = SubSeq(buf, k + 1, Len(buf))

(* Mutant: Scan is called once.                                            *)
TokenOnce ==
  /\ reader = "scan" /\ FirstLine
  /\ reader' = "stopped"
  /\ UNCHANGED <<plan, writer, process, closed, pipe>>

Token ==
  /\ reader = "scan" /\ FirstLine
  /\ UNCHANGED <<plan, writer, process, closed, pipe, reader>>

AtEnd == closed \/ (process = "ended" /\ pipe = <<>>)

CanRead == reader = "scan" /\ Newlines = {} /\ Len(buf) < TokenSize

Read ==
  /\ CanRead /\ ~closed
  /\ \E n \in 1 .. Len(pipe) :
       /\ Len(buf) + n <= TokenSize
       /\ buf' = buf \o SubSeq(pipe, 1, n)
       /\ pipe' = SubSeq(pipe, n + 1, Len(pipe))
  /\ UNCHANGED <<plan, writer, process, closed, reader, logged>>

(* ... until a line does not fit, or the text ends, perhaps in a line.     *)
TooLong ==
  /\ reader = "scan" /\ Newlines = {} /\ Len(buf) = TokenSize
  /\ reader' = "stopped"
  /\ UNCHANGED <<plan, writer, process, closed, pipe, buf, logged>>

(* Mutant: only lines that end in a newline are passed on.                 *)
EofDrops ==
  /\ CanRead /\ AtEnd
  /\ reader' = "stopped"
  /\ UNCHANGED <<plan, writer, process, closed, pipe, buf, logged>>

Eof ==
  /\ CanRead /\ AtEnd
  /\ reader' = "stopped" /\ buf' = <<>>
  /\ logged' = IF buf = <<>> THEN logged ELSE Append(logged, buf)
  /\ UNCHANGED <<plan, writer, process, closed, pipe>>

-----------------------------------------------------------------------------
Scan == Token \/ Read \/ TooLong \/ Eof

Over == process \in {"ended", "failed"} /\ UNCHANGED vars

Next == Start \/ StartFailed \/ Send \/ Write \/ Return \/ Exit \/ Scan \/ Over

(* The function, and the goroutine of StdErrCallback, go on.               *)
Fairness == WF_vars(Write) /\ WF_vars(Return) /\ WF_vars(Scan)

Spec == Init /\ [][Next]_vars /\ Fairness

-----------------------------------------------------------------------------
Line(i, n) == [j \in 1 .. n |-> <<i, j>>]

Written == FlattenSeq([i \in 1 .. call |-> Line(i, IF i = call THEN col ELSE plan[i])])

(* The log is what was written, cut at the newlines: nothing is lost,      *)
(* doubled or swapped between the container, the scanner and the callback, *)
(* and but for the last text of a dead container no line is broken up.     *)
LinesInOrder ==
  /\ FlattenSeq(logged) \o buf \o pipe = Written
  /\ \A k \in DOMAIN logged :
       \/ \E i \in 1 .. call : logged[k] = Line(i, plan[i])
       \/ k = Len(logged) /\ process = "ended" /\ reader = "stopped"

Fits(i) == \A h \in 1 .. i : plan[h] <= TokenSize

(* A function that logs is not held up, and its call returns: writing on   *)
(* stderr blocks it for ever only after a line that was too long.          *)
Unblocked == busy ~> ~busy \/ ~Fits(call)

(* Each line of stderr reaches the logger, up to the first one that is too *)
(* long; the last words of a container that dies do, too.                  *)
LastWords ==
  \A i \in 1 .. MaxCalls : Fits(i) =>
    /\ call = i /\ col = plan[i] /\ col > 0 ~> Contains(logged, Line(i, plan[i]))
    /\ call = i /\ process = "ended" ~> FlattenSeq(logged) = Written

(* No goroutine of StdErrCallback outlives its container, also if it could *)
(* not be started ("If it doesn't return an error and for some reason Wait *)
(* is not called for the process, the Close of the closer should be        *)
(* called").                                                               *)
ReaderEnds == process \in {"ended", "failed"} ~> reader = "stopped"

(* jproc.go: "register a callback to be called for each line of stderr".   *)
EachLine ==
  \A i \in 1 .. MaxCalls :
    call = i /\ col = plan[i] /\ col > 0 ~> Contains(logged, Line(i, plan[i]))
================================================================================
