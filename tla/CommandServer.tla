---------------------------- MODULE CommandServer ----------------------------
(***************************************************************************)
(* CommandServer (commandServer.cpp): requests read from stdin by the      *)
(* event loop.  Level-triggered epoll announces what the kernel holds;     *)
(* getline reads through stdio's buffer, which the loop knows nothing of.  *)
(* Stdin is a pipe.  A line counts for where its newline is; the text      *)
(* after the last newline is the tail.                                     *)
(***************************************************************************)
EXTENDS Integers, Sequences

CONSTANTS
  Commands,         \* requests that may be registered
  Others,           \* further texts of a line
  MaxLines          \* bound: lines the writer begins

ASSUME LinesAssumption ==
  MaxLines \in Nat /\ "" \notin Commands /\ "" \notin Others

Lines == Commands \cup Others \cup {""}

NoTail == "no tail"

VARIABLES
  input,            \* lines in the kernel's pipe
  buffer,           \* lines in stdio's buffer
  tail,             \* the text after the last newline
  tailRead,         \* that text has been read into stdio's buffer
  closed,           \* the writer has closed its end
  broken,           \* epoll reports EPOLLERR
  pc,               \* "setup", "loop" (npollLoop), "getline" or "done"
  mDispatchTable, mIsEof, mMonitoring,
  watched,          \* stdin is registered with epoll
  sent,             \* history: lines ended, by a newline or by the close
  handled,          \* history: lines parseInput returned
  answered          \* history: requests whose command ran

writerVars == <<tail, tailRead, closed, broken, sent>>
serverVars == <<pc, mDispatchTable, mIsEof, mMonitoring, watched, handled,
                answered>>
vars == <<input, buffer, writerVars, serverVars>>

Init ==
  /\ input = <<>> /\ buffer = <<>> /\ sent = <<>>
  /\ tail = NoTail /\ tailRead = FALSE
  /\ closed = FALSE /\ broken = FALSE
  /\ pc = "setup"
  /\ mDispatchTable = {}
  /\ mIsEof = FALSE /\ mMonitoring = FALSE /\ watched = FALSE
  /\ handled = <<>> /\ answered = <<>>

-----------------------------------------------------------------------------
(* The writer at the other end of stdin.                                   *)

WriteText(l) ==
  /\ ~closed /\ tail = NoTail /\ l # ""
  /\ Len(sent) < MaxLines
  /\ tail' = l
  /\ tailRead' = FALSE
  /\ UNCHANGED <<input, buffer, closed, broken, sent, serverVars>>

(* The newline of the tail, or an empty line.                              *)
WriteNewline ==
  /\ ~closed
  /\ Len(sent) < MaxLines
  /\ LET l == IF tail = NoTail THEN "" ELSE tail IN
       /\ input' = Append(input, l)
       /\ sent' = Append(sent, l)
  /\ tail' = NoTail
  /\ tailRead' = FALSE
  /\ UNCHANGED <<buffer, closed, broken, serverVars>>

Close ==
  /\ ~closed
  /\ closed' = TRUE
  /\ UNCHANGED <<input, buffer, tail, tailRead, broken, sent, serverVars>>

Break ==
  /\ ~broken
  /\ broken' = TRUE
  /\ UNCHANGED <<input, buffer, tail, tailRead, closed, sent, serverVars>>

Writer == (\E l \in Lines : WriteText(l)) \/ WriteNewline \/ Close \/ Break

-----------------------------------------------------------------------------
(* Before the loop.                                                        *)

AddCommand(c) ==
  /\ pc = "setup"
  /\ mDispatchTable' = mDispatchTable \cup {c}
  /\ UNCHANGED <<input, buffer, writerVars, pc, mIsEof, mMonitoring, watched,
                 handled, answered>>

(* npollAddFd fails for a stdin epoll cannot watch, and answers 0 anyhow.  *)
MonitorStdin ==
  /\ pc = "setup"
  /\ pc' = "loop"
  /\ mMonitoring' = TRUE
  /\ watched' \in BOOLEAN
  /\ UNCHANGED <<input, buffer, writerVars, mDispatchTable, mIsEof, handled,
                 answered>>

-----------------------------------------------------------------------------
(* onStdinReadable.                                                        *)

TailInPipe == tail # NoTail /\ ~tailRead

Readable == input # <<>> \/ TailInPipe \/ closed

(* stopMonitoring; the callback both programs install ends the loop.       *)
StopMonitoring ==
  /\ mIsEof' = TRUE
  /\ watched' = FALSE
  /\ pc' = "done"

(* Faulty variant: a hang-up is taken for the end.                         *)
StdinErrorOrHangup ==
  /\ pc = "loop" /\ watched /\ (broken \/ closed)
  /\ StopMonitoring
  /\ UNCHANGED <<input, buffer, writerVars, mDispatchTable, mMonitoring,
                 handled, answered>>

StdinError ==
  /\ pc = "loop" /\ watched /\ broken
  /\ StopMonitoring
  /\ UNCHANGED <<input, buffer, writerVars, mDispatchTable, mMonitoring,
                 handled, answered>>

StdinReadable ==
  /\ pc = "loop" /\ watched /\ ~broken
  /\ Readable
  /\ pc' = "getline"
  /\ UNCHANGED <<input, buffer, writerVars, mDispatchTable, mIsEof,
                 mMonitoring, watched, handled, answered>>

(* getline finds no newline in stdio's buffer and reads: some of the lines *)
(* that wait in the pipe, or all there is.                                 *)
ReadSome(k) ==
  /\ pc = "getline" /\ buffer = <<>>
  /\ buffer' = SubSeq(input, 1, k)
  /\ input' = SubSeq(input, k + 1, Len(input))
  /\ UNCHANGED <<writerVars, serverVars>>

ReadAll ==
  /\ pc = "getline" /\ buffer = <<>>
  /\ TailInPipe
  /\ buffer' = input
  /\ input' = <<>>
  /\ tailRead' = TRUE
  /\ UNCHANGED <<tail, closed, broken, sent, serverVars>>

(* parseInput fails on an empty line unless the table is empty, which      *)
(* makes every line raw input.                                             *)
Parses(l) == mDispatchTable = {} \/ l # ""

Dispatch(l) ==
  /\ handled' = Append(handled, l)
  /\ answered' = IF l \in mDispatchTable THEN Append(answered, l) ELSE answered
  /\ IF Parses(l) THEN pc' = "loop" /\ UNCHANGED <<mIsEof, watched>>
     ELSE StopMonitoring

(* Faulty variant: what stdio has buffered beyond the line is dropped.     *)
TakeLineDropsRest ==
  /\ pc = "getline" /\ buffer # <<>>
  /\ buffer' = <<>>
  /\ Dispatch(Head(buffer))
  /\ UNCHANGED <<input, writerVars, mDispatchTable, mMonitoring>>

(* Faulty variant: lines are taken until there are no more.                *)
TakeLineAndMore ==
  /\ pc = "getline" /\ buffer # <<>> /\ Parses(Head(buffer))
  /\ buffer' = Tail(buffer)
  /\ handled' = Append(handled, Head(buffer))
  /\ UNCHANGED <<input, writerVars, pc, mDispatchTable, mIsEof, mMonitoring,
                 watched, answered>>

TakeLine ==
  /\ pc = "getline" /\ buffer # <<>>
  /\ buffer' = Tail(buffer)
  /\ Dispatch(Head(buffer))
  /\ UNCHANGED <<input, writerVars, mDispatchTable, mMonitoring>>

InputEnds ==
  /\ pc = "getline" /\ buffer = <<>> /\ input = <<>>
  /\ ~TailInPipe /\ closed

(* Faulty variant: what getline answers is not looked at.                  *)
TakeTailUnchecked ==
  /\ InputEnds /\ mDispatchTable # {}
  /\ Dispatch(tail)
  /\ sent' = Append(sent, tail)
  /\ tail' = NoTail
  /\ tailRead' = FALSE
  /\ UNCHANGED <<input, buffer, closed, broken, mDispatchTable, mMonitoring>>

(* The tail ends the input: a request like any other, but not as raw       *)
(* input, where cin is no longer good.                                     *)
TakeTail ==
  /\ InputEnds /\ tail # NoTail /\ mDispatchTable # {}
  /\ Dispatch(tail)
  /\ sent' = Append(sent, tail)
  /\ tail' = NoTail
  /\ tailRead' = FALSE
  /\ UNCHANGED <<input, buffer, closed, broken, mDispatchTable, mMonitoring>>

(* Faulty variant: the end of the input is taken for "nothing to read".    *)
EndOfInputUnnoticed ==
  /\ InputEnds /\ (tail = NoTail \/ mDispatchTable = {})
  /\ pc' = "loop"
  /\ UNCHANGED <<input, buffer, writerVars, mDispatchTable, mIsEof,
                 mMonitoring, watched, handled, answered>>

EndOfInput ==
  /\ InputEnds /\ (tail = NoTail \/ mDispatchTable = {})
  /\ StopMonitoring
  /\ UNCHANGED <<input, buffer, writerVars, mDispatchTable, mMonitoring,
                 handled, answered>>

-----------------------------------------------------------------------------
Server ==
  \/ MonitorStdin \/ StdinError \/ StdinReadable
  \/ (\E k \in 1 .. Len(input) : ReadSome(k)) \/ ReadAll
  \/ TakeLine \/ TakeTail \/ EndOfInput

Next == Writer \/ (\E c \in Commands : AddCommand(c)) \/ Server

Spec == Init /\ [][Next]_vars

(* The thread keeps running unless a read blocks.                          *)
FairSpec == Spec /\ WF_vars(Server)

-----------------------------------------------------------------------------
(* The shape of the state.                                                 *)
TypeOK ==
  /\ input \in Seq(Lines) /\ buffer \in Seq(Lines) /\ sent \in Seq(Lines)
  /\ handled \in Seq(Lines) /\ answered \in Seq(Commands)
  /\ tail \in (Lines \ {""}) \cup {NoTail}
  /\ tailRead \in BOOLEAN /\ closed \in BOOLEAN /\ broken \in BOOLEAN
  /\ pc \in {"setup", "loop", "getline", "done"}
  /\ mDispatchTable \subseteq Commands
  /\ mIsEof \in BOOLEAN /\ mMonitoring \in BOOLEAN /\ watched \in BOOLEAN

(* Requests are taken in the order they were written, each once, although  *)
(* they pass through two buffers of which the loop sees only one.          *)
RequestsInOrder == handled \o buffer \o input = sent

(* Why the loop ends.  Either stdin broke, or the last line failed to      *)
(* parse (the empty line of a command server), or the writer closed and    *)
(* everything before the end was handled: the lines stdio had buffered,    *)
(* one per hang-up event, and a last text without its newline, which only  *)
(* raw input drops.                                                        *)
EofComesLast ==
  mIsEof /\ ~broken /\ (handled = <<>> \/ Parses(handled[Len(handled)]))
    => /\ closed
       /\ buffer = <<>> /\ input = <<>>
       /\ tail = NoTail \/ mDispatchTable = {}

(* getline makes the loop wait only for the rest of a line: an event for   *)
(* stdin is one line or less, so with nothing begun there is nothing to    *)
(* wait for.                                                               *)
WaitsOnlyInsideLine ==
  pc = "getline" /\ buffer = <<>> /\ input = <<>> /\ ~closed => tail # NoTail

(* The close of stdin ends the loop, whatever was buffered before it.      *)
EofNoticed == closed /\ watched ~> mIsEof

(* commandServer.h: processing of stdin does not block.                    *)
NeverBlocks ==
  pc = "getline" => buffer # <<>> \/ input # <<>> \/ TailInPipe \/ closed

(* commandServer.h: a request is read and its response written.  The       *)
(* requests are the lines that name a registered command.                  *)
Requests == SelectSeq(sent, LAMBDA l : l \in mDispatchTable)

RequestAnswered ==
  \A k \in 1 .. MaxLines :
    watched /\ Len(Requests) >= k ~> Len(answered) >= k \/ mIsEof

=============================================================================
