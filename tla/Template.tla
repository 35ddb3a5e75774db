-------------------------------- MODULE Template --------------------------------
(***************************************************************************)
(* The SAM template (formation.Functions): a file the developer edits, and *)
(* the table of functions mlessd keeps of it.  The table is refreshed by a *)
(* ticker and by every request before it looks its function up; a refresh  *)
(* is a Stat and, if the modification time is a new one, an Open, both     *)
(* under the mutex, with the file free to change between and after them.   *)
(* The directory of the template exists.                                   *)
(*                                                                         *)
(* What is read of a template is abstracted to its version.                *)
(***************************************************************************)
EXTENDS Naturals

CONSTANTS
  Requests,    \* invokeHandler's goroutines
  Opener,      \* New, which reads the template first
  Ticker,      \* the goroutine of the refresh ticker
  Nobody,      \* no goroutine: the mutex is free
  MaxVersion,  \* bound: versions of the template
  MaxWrites    \* bound: writes to the file

Refreshers == Requests \cup {Opener, Ticker}

(* What the file holds: a version, a text that does not parse (half of a   *)
(* version, say), or there is no file.                                     *)
Versions == 1 .. MaxVersion
Bad      == MaxVersion + 1
Missing  == MaxVersion + 2
Content  == Versions \cup {Bad, Missing}

ASSUME TemplateAssumption ==
  /\ {Opener, Ticker} \cap Requests = {} /\ Opener # Ticker
  /\ Nobody \notin Refreshers
  /\ MaxVersion \in Nat \ {0} /\ MaxWrites \in Nat

VARIABLES
  content,   \* what the file holds
  mtime,     \* its modification time, from 1 up
  latest,    \* the latest version written
  writes,    \* writes so far
  hidden,    \* ghost: the last write left the time of the one before
  functions, \* the table: the version it was read from, 0 if it is empty
  modTime,   \* Functions.modTime, 0 the zero time
  ticking,   \* refreshTicker is not nil
  due,       \* a tick is in its channel
  lock,      \* Functions.lock
  pc,        \* where each goroutine is
  seen,      \* the modification time its Stat saw
  read,      \* what its Open found, 0 if it has not opened the file
  result,    \* what a request's Get found: the version of the table
  asked,     \* ghost: the version in the file when the request arrived, 0
             \* if it had none, or none to be told from an earlier one
  spoilt     \* ghost: the file did not parse or was gone since it arrived

file  == <<content, mtime, latest, writes, hidden>>
table == <<functions, modTime>>
clock == <<ticking, due>>
found == <<seen, read>>
ghost == <<asked, spoilt>>
vars  == <<file, table, clock, lock, pc, found, result, ghost>>

-----------------------------------------------------------------------------
Init ==
  /\ content \in {1, Bad, Missing}
  /\ mtime = 1 /\ latest = 1 /\ writes = 0 /\ hidden = FALSE
  /\ functions = 0 /\ modTime = 0
  /\ ticking = TRUE /\ due = FALSE
  /\ lock = Nobody
  /\ pc = [a \in Refreshers |-> IF a = Opener THEN "refresh"
                                ELSE IF a = Ticker THEN "start" ELSE "idle"]
  /\ seen = [a \in Refreshers |-> 0]
  /\ read = [a \in Refreshers |-> 0]
  /\ result = [a \in Requests |-> 0]
  /\ asked = [a \in Requests |-> 0]
  /\ spoilt = [a \in Requests |-> FALSE]

(* The developer's editor: the next version, a text that does not parse,   *)
(* the latest version again, or the file is removed.  The clock of the     *)
(* file system may not have moved since the last write.                    *)
Write(c, m) ==
  /\ writes < MaxWrites
  /\ c \in {latest, latest + 1, Bad, Missing} \cap Content
  /\ m \in {mtime, mtime + 1}
  /\ c \in Versions \/ c # content
  /\ content' = c
  /\ mtime' = m
  /\ latest' = IF c \in Versions THEN c ELSE latest
  /\ writes' = writes + 1
  /\ hidden' = (m = mtime)
  /\ spoilt' = [a \in Requests |-> spoilt[a] \/ c \notin Versions]
  /\ UNCHANGED <<table, clock, lock, pc, found, result, asked>>

-----------------------------------------------------------------------------
(* A request arrives once New has returned without an error.               *)
Arrive(a) ==
  /\ a \in Requests
  /\ pc[Opener] = "idle"
  /\ pc[a] = "idle"
  /\ pc' = [pc EXCEPT ![a] = "refresh"]
  /\ asked' = [asked EXCEPT ![a] = IF content \in Versions /\ ~hidden THEN content ELSE 0]
  /\ spoilt' = [spoilt EXCEPT ![a] = content \notin Versions]
  /\ UNCHANGED <<file, table, clock, lock, found, result>>

(* The ticker and its goroutine start before New's own Refresh does.  The  *)
(* goroutine evaluates refreshTicker.C once, before its first tick.        *)
Range ==
  /\ pc[Ticker] = "start"
  /\ ticking
  /\ pc' = [pc EXCEPT ![Ticker] = "idle"]
  /\ UNCHANGED <<file, table, clock, lock, found, result, ghost>>

(* By then Close has set it to nil: the program panics.                    *)
Panic ==
  /\ pc[Ticker] = "start"
  /\ ~ticking
  /\ pc' = [a \in Refreshers |-> "panic"]
  /\ UNCHANGED <<file, table, clock, lock, found, result, ghost>>

(* Mutant: the ticker is not stopped.                                      *)
FireAlways ==
  /\ ~due
  /\ due' = TRUE
  /\ UNCHANGED <<file, table, ticking, lock, pc, found, result, ghost>>

(* The channel holds one tick; main leaves if New returns an error.        *)
Fire ==
  /\ ticking /\ ~due
  /\ pc[Opener] # "failed"
  /\ due' = TRUE
  /\ UNCHANGED <<file, table, ticking, lock, pc, found, result, ghost>>

Tick ==
  /\ due
  /\ pc[Ticker] = "idle"
  /\ due' = FALSE
  /\ pc' = [pc EXCEPT ![Ticker] = "refresh"]
  /\ UNCHANGED <<file, table, ticking, lock, found, result, ghost>>

Close ==
  /\ pc[Opener] = "idle"
  /\ ticking
  /\ lock = Nobody
  /\ ticking' = FALSE
  /\ UNCHANGED <<file, table, due, lock, pc, found, result, ghost>>

-----------------------------------------------------------------------------
(* Refresh.  A request ignores its error, New does not.                    *)
After(a, error) ==
  IF a \in Requests THEN "get"
  ELSE IF a = Opener /\ error THEN "failed" ELSE "idle"

(* Mutant: Refresh does not take the mutex.                                *)
FreeAlways == TRUE

Free == lock = Nobody

Refresh(a) ==
  /\ pc[a] = "refresh"
  /\ Free
  /\ lock' = a
  /\ pc' = [pc EXCEPT ![a] = "stat"]
  /\ UNCHANGED <<file, table, clock, found, result, ghost>>

(* read, first half: no file, the same file, or one to open.               *)
StatFailed(a) ==
  /\ pc[a] = "stat"
  /\ content = Missing
  /\ lock' = Nobody
  /\ pc' = [pc EXCEPT ![a] = After(a, TRUE)]
  /\ UNCHANGED <<file, table, clock, found, result, ghost>>

(* Mutant: times are compared with the precision of two writes.            *)
SameNearly(t) == modTime # 0 /\ t <= modTime + 1

Same(t) == t = modTime

StatSame(a) ==
  /\ pc[a] = "stat"
  /\ content # Missing
  /\ Same(mtime)
  /\ lock' = Nobody
  /\ pc' = [pc EXCEPT ![a] = After(a, FALSE)]
  /\ UNCHANGED <<file, table, clock, found, result, ghost>>

StatNew(a) ==
  /\ pc[a] = "stat"
  /\ content # Missing
  /\ ~Same(mtime)
  /\ seen' = [seen EXCEPT ![a] = mtime]
  /\ pc' = [pc EXCEPT ![a] = "open"]
  /\ UNCHANGED <<file, table, clock, lock, read, result, ghost>>

(* read, second half: what Open finds need not be what Stat saw.           *)
Open(a) ==
  /\ pc[a] = "open"
  /\ read' = [read EXCEPT ![a] = content]
  /\ pc' = [pc EXCEPT ![a] = "assign"]
  /\ UNCHANGED <<file, table, clock, lock, seen, result, ghost>>

(* Mutant: the error of Open is not looked at.                             *)
Unchecked(c) == c

Parsed(c) == IF c \in Versions THEN c ELSE 0

(* The assignments of Refresh: whatever Open found, the time that Stat saw *)
(* is taken; an error empties the table.                                   *)
Assign(a) ==
  /\ pc[a] = "assign"
  /\ functions' = Parsed(read[a])
  /\ modTime' = seen[a]
  /\ seen' = [seen EXCEPT ![a] = 0]
  /\ read' = [read EXCEPT ![a] = 0]
  /\ lock' = Nobody
  /\ pc' = [pc EXCEPT ![a] = After(a, read[a] \notin Versions)]
  /\ UNCHANGED <<file, clock, result, ghost>>

-----------------------------------------------------------------------------
(* Functions.Get takes the mutex once more: another refresh may have come  *)
(* between, and the name is looked up in the table of that moment.         *)
Get(a) ==
  /\ pc[a] = "get"
  /\ lock = Nobody
  /\ result' = [result EXCEPT ![a] = functions]
  /\ pc' = [pc EXCEPT ![a] = "done"]
  /\ UNCHANGED <<file, table, clock, lock, found, ghost>>

-----------------------------------------------------------------------------
RefreshStep(a) == StatFailed(a) \/ StatSame(a) \/ StatNew(a) \/ Open(a) \/ Assign(a)

Edit == \E c \in Content : \E m \in {mtime, mtime + 1} : Write(c, m)

(* The server did not start or is dead, or its ticker is stopped and       *)
(* nobody comes.                                                           *)
Quiet ==
  /\ pc[Opener] \in {"failed", "panic"} \/ ~ticking
  /\ \A a \in Refreshers : pc[a] \in {"idle", "done", "failed", "panic"}
  /\ UNCHANGED vars

Next ==
  \/ \E a \in Refreshers : Arrive(a) \/ Refresh(a) \/ RefreshStep(a) \/ Get(a)
  \/ Range \/ Panic \/ Fire \/ Tick
  \/ Close
  \/ Edit
  \/ Quiet

Spec == Init /\ [][Next]_vars

(* Goroutines go on, get the mutex in turn, and the ticker ticks.          *)
Fairness ==
  /\ WF_vars(Range) /\ WF_vars(Fire) /\ WF_vars(Tick)
  /\ \A a \in Refreshers : SF_vars(Refresh(a)) /\ WF_vars(RefreshStep(a)) /\ SF_vars(Get(a))

LiveSpec == Spec /\ Fairness

-----------------------------------------------------------------------------
TypeOK ==
  /\ content \in Content
  /\ mtime \in 1 .. 1 + MaxWrites
  /\ latest \in Versions
  /\ writes \in 0 .. MaxWrites /\ hidden \in BOOLEAN
  /\ functions \in 0 .. MaxVersion
  /\ modTime \in 0 .. 1 + MaxWrites
  /\ ticking \in BOOLEAN /\ due \in BOOLEAN
  /\ lock \in Refreshers \cup {Nobody}
  /\ pc \in [Refreshers -> {"idle", "refresh", "stat", "open", "assign", "get", "done",
                          "start", "failed", "panic"}]
  /\ seen \in [Refreshers -> 0 .. 1 + MaxWrites]
  /\ read \in [Refreshers -> Content \cup {0}]
  /\ result \in [Requests -> 0 .. MaxVersion]
  /\ asked \in [Requests -> 0 .. MaxVersion]
  /\ spoilt \in [Requests -> BOOLEAN]

(* A request works with a definition at least as new as the template that  *)
(* was on disk when it arrived, unless there was a moment since when the   *)
(* template did not parse or was gone, or the last write before it left    *)
(* the modification time that the file had already.                        *)
FreshDefinition ==
  \A a \in Requests : pc[a] = "done" =>
    result[a] >= asked[a] \/ spoilt[a]

(* The table never goes back to an older version of the template: no       *)
(* refresh that read the file earlier stores its table later.              *)
TableMovesOn ==
  [][functions # 0 /\ functions' # 0 => functions' >= functions]_vars

(* The table follows the file: once the developer leaves a template that   *)
(* parses alone, the ticker brings the table to it, and a table that was   *)
(* emptied by a half-written file is filled again - if that last write has *)
(* a modification time of its own.                                         *)
Reloaded ==
  <>[](content \in Versions /\ ~hidden) /\ [](ticking /\ pc[Opener] # "failed")
    => <>[](functions = content)

(* "stop automatic refresh": once closed, the ticker's goroutine finishes  *)
(* the tick it has, and refreshes no more.                                 *)
StopsRefreshing ==
  ~ticking ~> [](pc[Ticker] \in {"start", "idle", "panic"})
================================================================================
