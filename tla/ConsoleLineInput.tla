---------------------------- MODULE ConsoleLineInput ----------------------------
(***************************************************************************)
(* ConsoleLineInput: a thread that reads the console, so that the main     *)
(* thread need not wait for it, and the queue of lines between the two.    *)
(*                                                                         *)
(* The console is the part of Windows it depends on: ReadConsoleW returns  *)
(* some of the characters typed, or fails when the user has closed the     *)
(* console or when the read is cancelled.  A cancellation only reaches a   *)
(* reader that is inside ReadConsoleW.                                     *)
(*                                                                         *)
(* A character is named by the line it belongs to and whether it ends it.  *)
(***************************************************************************)
EXTENDS Naturals, Sequences

CONSTANT ReadSize   \* the characters ReadConsoleW returns at most (256 in the code)

ASSUME ReadSizeAssumption == ReadSize \in Nat \ {0}

VARIABLES
  reader,     \* where the thread is, see ReaderPlaces
  stopping,   \* m_stopping
  finished,   \* m_finished
  lines,      \* m_lines
  line,       \* the characters of the line being read
  chunk,      \* the characters ReadConsoleW returned, not yet looked at
  console,    \* the characters typed and not yet read
  closed      \* whether the user has closed the console

readerVars == <<reader, stopping, finished, lines, line, chunk, console, closed>>

\* Not started, at the test of m_stopping, about to call ReadConsoleW, inside it,
\* looking at a chunk, about to set m_finished, and gone.
ReaderPlaces == {"new", "testing", "entering", "reading", "pushing", "leaving", "gone"}

Char(n, last) == [line |-> n, last |-> last]
LineOf(n, length) == [i \in 1..length |-> Char(n, i = length)]

ConsoleInit ==
  /\ reader = "new" /\ stopping = FALSE /\ finished = FALSE
  /\ lines = <<>> /\ line = <<>> /\ chunk = <<>>
  /\ console = <<>> /\ closed = FALSE

-----------------------------------------------------------------------------
(* ReadLines, on its own thread *)

TestStopping ==
  /\ reader = "testing"
  /\ reader' = IF stopping THEN "leaving" ELSE "entering"
  /\ UNCHANGED <<stopping, finished, lines, line, chunk, console, closed>>

EnterRead ==
  /\ reader = "entering" /\ reader' = "reading"
  /\ UNCHANGED <<stopping, finished, lines, line, chunk, console, closed>>

ReadConsole ==
  /\ reader = "reading" /\ console # <<>>
  /\ reader' = "pushing"
  /\ \E n \in 1..ReadSize : /\ n <= Len(console)
                            /\ chunk' = SubSeq(console, 1, n)
                            /\ console' = SubSeq(console, n + 1, Len(console))
  /\ UNCHANGED <<stopping, finished, lines, line, closed>>

ReadFails ==
  /\ reader = "reading" /\ console = <<>> /\ closed
  /\ reader' = "leaving"
  /\ UNCHANGED <<stopping, finished, lines, line, chunk, console, closed>>

\* The line is moved into the queue under the lock, and a new one begun.
TakeChar_KeepsLine ==
  /\ reader = "pushing"
  /\ chunk' = Tail(chunk)
  /\ line' = Append(line, Head(chunk))
  /\ lines' = IF Head(chunk).last THEN Append(lines, line') ELSE lines
  /\ reader' = IF chunk' = <<>> THEN "testing" ELSE "pushing"
  /\ UNCHANGED <<stopping, finished, console, closed>>

TakeChar ==
  /\ reader = "pushing"
  /\ chunk' = Tail(chunk)
  /\ LET whole == Append(line, Head(chunk))
     IN IF Head(chunk).last
        THEN lines' = Append(lines, whole) /\ line' = <<>>
        ELSE line' = whole /\ UNCHANGED lines
  /\ reader' = IF chunk' = <<>> THEN "testing" ELSE "pushing"
  /\ UNCHANGED <<stopping, finished, console, closed>>

Finish ==
  /\ reader = "leaving"
  /\ finished' = TRUE /\ reader' = "gone"
  /\ UNCHANGED <<stopping, lines, line, chunk, console, closed>>

ReadLines ==
  \/ TestStopping \/ EnterRead \/ ReadConsole \/ ReadFails
  \/ TakeChar \/ Finish

-----------------------------------------------------------------------------
(* What the main thread calls *)

StartReader ==
  /\ reader = "new" /\ reader' = "testing"
  /\ UNCHANGED <<stopping, finished, lines, line, chunk, console, closed>>

TryPop ==
  /\ lines # <<>>
  /\ lines' = Tail(lines)
  /\ UNCHANGED <<reader, stopping, finished, line, chunk, console, closed>>

\* The destructor: tells the thread to stop, then cancels its read for as long as the
\* thread is not gone.
TellToStop ==
  /\ stopping' = TRUE
  /\ UNCHANGED <<reader, finished, lines, line, chunk, console, closed>>

CancelRead ==
  /\ reader' = IF reader = "reading" THEN "leaving" ELSE reader
  /\ UNCHANGED <<stopping, finished, lines, line, chunk, console, closed>>

-----------------------------------------------------------------------------
(* The user *)

TypeLine(n, length) ==
  /\ ~closed
  /\ console' = console \o LineOf(n, length)
  /\ UNCHANGED <<reader, stopping, finished, lines, line, chunk, closed>>

CloseConsole ==
  /\ ~closed /\ closed' = TRUE
  /\ UNCHANGED <<reader, stopping, finished, lines, line, chunk, console>>
=================================================================================
