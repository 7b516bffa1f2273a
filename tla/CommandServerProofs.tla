------------------------- MODULE CommandServerProofs -------------------------
(***************************************************************************)
(* Proofs about CommandServer, for every table of commands and every       *)
(* number of lines.                                                        *)
(***************************************************************************)
EXTENDS CommandServer, SequenceTheorems, TLAPS

(* The types, flags and sequences apart.                                   *)
Flags ==
  /\ tailRead \in BOOLEAN /\ closed \in BOOLEAN /\ broken \in BOOLEAN
  /\ mIsEof \in BOOLEAN /\ mMonitoring \in BOOLEAN /\ watched \in BOOLEAN

Data ==
  /\ input \in Seq(Lines) /\ buffer \in Seq(Lines) /\ sent \in Seq(Lines)
  /\ handled \in Seq(Lines) /\ answered \in Seq(Commands)
  /\ tail \in (Lines \ {""}) \cup {NoTail}
  /\ pc \in {"setup", "loop", "getline", "done"}
  /\ mDispatchTable \subseteq Commands

LEMMA TypeParts == TypeOK <=> Flags /\ Data
  BY DEF TypeOK, Flags, Data

(* What the sequence operators keep.                                       *)
LEMMA Appended ==
  ASSUME NEW S, NEW s \in Seq(S), NEW e \in S
  PROVE  /\ Append(s, e) \in Seq(S) /\ Append(s, e) # <<>>
         /\ Append(s, e)[Len(Append(s, e))] = e
  OBVIOUS

LEMMA Parted ==
  ASSUME NEW S, NEW s \in Seq(S), s # <<>>
  PROVE  Head(s) \in S /\ Tail(s) \in Seq(S)
  OBVIOUS

LEMMA Cut ==
  ASSUME NEW S, NEW s \in Seq(S), NEW k \in 1 .. Len(s)
  PROVE  SubSeq(s, 1, k) \in Seq(S) /\ SubSeq(s, k + 1, Len(s)) \in Seq(S)
  OBVIOUS

(* Why the loop has ended, and that nothing happens to the server then.    *)
EndInv ==
  mIsEof =>
    /\ pc = "done"
    /\ \/ broken
       \/ handled # <<>> /\ ~Parses(handled[Len(handled)])
       \/ /\ closed /\ buffer = <<>> /\ input = <<>>
          /\ tail = NoTail \/ mDispatchTable = {}

LEMMA FlagsHold == Flags /\ [Next]_vars => Flags'
<1> SUFFICES ASSUME Flags, [Next]_vars PROVE Flags'
  OBVIOUS
<1> USE DEF Flags, vars, writerVars, serverVars
<1>1. CASE Writer
  BY <1>1 DEF Writer, WriteText, WriteNewline, Close, Break
<1>2. CASE (\E c \in Commands : AddCommand(c)) \/ MonitorStdin
  BY <1>2 DEF AddCommand, MonitorStdin
<1>3. CASE StdinError \/ StdinReadable
  BY <1>3 DEF StdinError, StdinReadable, StopMonitoring
<1>4. CASE (\E k \in 1 .. Len(input) : ReadSome(k)) \/ ReadAll
  BY <1>4 DEF ReadSome, ReadAll
<1>5. CASE TakeLine \/ TakeTail \/ EndOfInput
  BY <1>5 DEF TakeLine, TakeTail, EndOfInput, Dispatch, StopMonitoring
<1>6. CASE UNCHANGED vars
  BY <1>6
<1> QED
  BY <1>1, <1>2, <1>3, <1>4, <1>5, <1>6 DEF Next, Server

(* A line that is dispatched keeps the types of the server's data.         *)
LEMMA DispatchData ==
  ASSUME Data, NEW l \in Lines, Dispatch(l)
  PROVE  /\ handled' \in Seq(Lines) /\ answered' \in Seq(Commands)
         /\ pc' \in {"loop", "done"}
<1>1. handled' \in Seq(Lines)
  BY Appended DEF Data, Dispatch
<1>2. answered' \in Seq(Commands)
  <2>1. CASE l \in mDispatchTable
    <3>1. l \in Commands /\ answered' = Append(answered, l)
      BY <2>1 DEF Data, Dispatch
    <3> QED
      BY <3>1, Appended DEF Data
  <2>2. CASE l \notin mDispatchTable
    BY <2>2 DEF Data, Dispatch
  <2> QED
    BY <2>1, <2>2
<1>3. pc' \in {"loop", "done"}
  BY DEF Dispatch, StopMonitoring
<1> QED
  BY <1>1, <1>2, <1>3

LEMMA DataHolds == Data /\ [Next]_vars => Data'
<1> SUFFICES ASSUME Data, [Next]_vars PROVE Data'
  OBVIOUS
<1> USE DEF vars, writerVars, serverVars
<1>1. CASE Writer
  <2>1. CASE \E l \in Lines : WriteText(l)
    BY <2>1 DEF Data, WriteText
  <2>2. CASE WriteNewline
    <3>1. (IF tail = NoTail THEN "" ELSE tail) \in Lines
      BY DEF Data, Lines
    <3>2. /\ input' \in Seq(Lines) /\ sent' \in Seq(Lines)
      BY <2>2, <3>1, Appended DEF Data, WriteNewline
    <3> QED
      BY <2>2, <3>2 DEF Data, WriteNewline
  <2>3. CASE Close \/ Break
    BY <2>3 DEF Data, Close, Break
  <2> QED
    BY <1>1, <2>1, <2>2, <2>3 DEF Writer
<1>2. CASE (\E c \in Commands : AddCommand(c)) \/ MonitorStdin
  BY <1>2 DEF Data, AddCommand, MonitorStdin
<1>3. CASE StdinError \/ StdinReadable \/ EndOfInput
  BY <1>3 DEF Data, StdinError, StdinReadable, EndOfInput, StopMonitoring
<1>4. CASE \E k \in 1 .. Len(input) : ReadSome(k)
  <2>1. PICK k \in 1 .. Len(input) : ReadSome(k)
    BY <1>4
  <2>2. /\ SubSeq(input, 1, k) \in Seq(Lines)
        /\ SubSeq(input, k + 1, Len(input)) \in Seq(Lines)
    BY Cut DEF Data
  <2> QED
    BY <2>1, <2>2 DEF Data, ReadSome
<1>5. CASE ReadAll
  BY <1>5 DEF Data, ReadAll
<1>6. CASE TakeLine
  <2>1. Head(buffer) \in Lines /\ Tail(buffer) \in Seq(Lines)
    BY <1>6, Parted DEF Data, TakeLine
  <2>2. Dispatch(Head(buffer))
    BY <1>6 DEF TakeLine
  <2>3. /\ handled' \in Seq(Lines) /\ answered' \in Seq(Commands)
        /\ pc' \in {"loop", "done"}
    BY <2>1, <2>2, DispatchData
  <2> QED
    BY <1>6, <2>1, <2>3 DEF Data, TakeLine
<1>7. CASE TakeTail
  <2>1. tail \in Lines /\ Dispatch(tail)
    BY <1>7 DEF Data, TakeTail
  <2>2. /\ handled' \in Seq(Lines) /\ answered' \in Seq(Commands)
        /\ pc' \in {"loop", "done"}
    BY <2>1, DispatchData
  <2>3. sent' \in Seq(Lines)
    BY <1>7, <2>1, Appended DEF Data, TakeTail
  <2> QED
    BY <1>7, <2>2, <2>3 DEF Data, TakeTail
<1>8. CASE UNCHANGED vars
  BY <1>8 DEF Data
<1> QED
  BY <1>1, <1>2, <1>3, <1>4, <1>5, <1>6, <1>7, <1>8 DEF Next, Server

LEMMA InitHolds == Init => Flags /\ Data /\ EndInv
<1>1. <<>> \in Seq(Lines) /\ <<>> \in Seq(Commands)
  OBVIOUS
<1>2. Init => Flags /\ EndInv
  BY DEF Init, Flags, EndInv
<1>3. Init => Data
  BY <1>1 DEF Init, Data
<1> QED
  BY <1>2, <1>3

(* The state of the command server keeps its types.                        *)
THEOREM Typing == Spec => []TypeOK
<1>1. Init => Flags /\ Data
  BY InitHolds
<1>2. Flags /\ Data /\ [Next]_vars => (Flags /\ Data)'
  BY FlagsHold, DataHolds
<1>3. Spec => [](Flags /\ Data)
  BY <1>1, <1>2, PTL DEF Spec
<1> QED
  BY <1>3, TypeParts, PTL

-----------------------------------------------------------------------------
LEMMA EndHolds == Flags /\ Data /\ EndInv /\ [Next]_vars => EndInv'
<1> SUFFICES ASSUME Flags, Data, EndInv, [Next]_vars PROVE EndInv'
  OBVIOUS
<1> USE DEF vars, writerVars, serverVars
<1>1. CASE Writer
  BY <1>1 DEF EndInv, Parses, Writer, WriteText, WriteNewline, Close, Break
<1>2. CASE (\E c \in Commands : AddCommand(c)) \/ MonitorStdin
  BY <1>2 DEF EndInv, AddCommand, MonitorStdin
<1>3. CASE StdinError
  BY <1>3 DEF EndInv, StdinError, StopMonitoring
<1>4. CASE StdinReadable \/ ReadAll
  BY <1>4 DEF EndInv, StdinReadable, ReadAll
<1>5. CASE \E k \in 1 .. Len(input) : ReadSome(k)
  BY <1>5 DEF EndInv, ReadSome
<1>6. ASSUME NEW l \in Lines, Dispatch(l), pc = "getline",
             mDispatchTable' = mDispatchTable
      PROVE  EndInv'
  <2>1. ~mIsEof
    BY <1>6 DEF EndInv
  <2>2. handled' # <<>> /\ handled'[Len(handled')] = l
    <3>1. handled \in Seq(Lines) /\ handled' = Append(handled, l)
      BY <1>6 DEF Data, Dispatch
    <3> QED
      BY <1>6, <3>1
  <2>3. CASE Parses(l)
    BY <1>6, <2>1, <2>3 DEF EndInv, Dispatch
  <2>4. CASE ~Parses(l)
    BY <1>6, <2>2, <2>4 DEF EndInv, Dispatch, StopMonitoring, Parses
  <2> QED
    BY <2>3, <2>4
<1>7. CASE TakeLine
  <2>1. Head(buffer) \in Lines
    BY <1>7, Parted DEF Data, TakeLine
  <2> QED
    BY <1>6, <1>7, <2>1 DEF TakeLine
<1>8. CASE TakeTail
  <2>1. tail \in Lines
    BY <1>8 DEF Data, TakeTail
  <2> QED
    BY <1>6, <1>8, <2>1 DEF TakeTail, InputEnds
<1>9. CASE EndOfInput
  BY <1>9 DEF EndInv, EndOfInput, InputEnds, StopMonitoring
<1>10. CASE UNCHANGED vars
  BY <1>10 DEF EndInv, Parses
<1> QED
  BY <1>1, <1>2, <1>3, <1>4, <1>5, <1>7, <1>8, <1>9, <1>10 DEF Next, Server

(* The loop of stdin ends because the writer closed it and everything      *)
(* before that has been handled, in stdio's buffer and in the pipe, or     *)
(* because of an error or of a line that does not parse.                   *)
THEOREM EofIsLast == Spec => []EofComesLast
<1>1. Init => Flags /\ Data /\ EndInv
  BY InitHolds
<1>2. Flags /\ Data /\ EndInv /\ [Next]_vars => (Flags /\ Data /\ EndInv)'
  BY FlagsHold, DataHolds, EndHolds
<1>3. Spec => []EndInv
  BY <1>1, <1>2, PTL DEF Spec
<1>4. EndInv => EofComesLast
  BY DEF EndInv, EofComesLast
<1> QED
  BY <1>3, <1>4, PTL

-----------------------------------------------------------------------------
(* What getline has before it when it is called.                           *)
LineInv ==
  pc = "getline" => buffer # <<>> \/ input # <<>> \/ tail # NoTail \/ closed

LEMMA LineHolds == Data /\ LineInv /\ [Next]_vars => LineInv'
<1> SUFFICES ASSUME Data, LineInv, [Next]_vars PROVE LineInv'
  OBVIOUS
<1> USE DEF vars, writerVars, serverVars
<1>1. CASE \E l \in Lines : WriteText(l)
  <2>1. "" \in Lines /\ NoTail # ""
    BY DEF Lines, NoTail
  <2> QED
    BY <1>1, <2>1 DEF LineInv, WriteText
<1>2. CASE WriteNewline
  <2>1. PICK l \in Lines : input' = Append(input, l)
    <3>1. (IF tail = NoTail THEN "" ELSE tail) \in Lines
      BY DEF Data, Lines
    <3> QED
      BY <1>2, <3>1 DEF WriteNewline
  <2>2. input' # <<>>
    BY <2>1, Appended DEF Data
  <2> QED
    BY <2>2 DEF LineInv
<1>3. CASE Close \/ Break
  BY <1>3 DEF LineInv, Close, Break
<1>4. CASE (\E c \in Commands : AddCommand(c)) \/ MonitorStdin
  BY <1>4 DEF LineInv, AddCommand, MonitorStdin
<1>5. CASE StdinError \/ EndOfInput
  BY <1>5 DEF LineInv, StdinError, EndOfInput, StopMonitoring
<1>6. CASE StdinReadable
  BY <1>6 DEF LineInv, StdinReadable, Readable, TailInPipe
<1>7. CASE \E k \in 1 .. Len(input) : ReadSome(k)
  <2>1. PICK k \in 1 .. Len(input) : buffer' = SubSeq(input, 1, k)
    BY <1>7 DEF ReadSome
  <2>2. input \in Seq(Lines)
    BY DEF Data
  <2>3. buffer' # <<>>
    BY <2>1, <2>2
  <2> QED
    BY <2>3 DEF LineInv
<1>8. CASE ReadAll
  BY <1>8 DEF LineInv, ReadAll, TailInPipe
<1>9. CASE TakeLine \/ TakeTail
  BY <1>9 DEF LineInv, TakeLine, TakeTail, Dispatch, StopMonitoring
<1>10. CASE UNCHANGED vars
  BY <1>10 DEF LineInv
<1> QED
  BY <1>1, <1>2, <1>3, <1>4, <1>5, <1>6, <1>7, <1>8, <1>9, <1>10
     DEF Next, Writer, Server

(* The event loop waits inside getline only for the newline of a line the  *)
(* writer has begun, for every number of lines and commands.               *)
THEOREM Waits == Spec => []WaitsOnlyInsideLine
<1>1. Init => Data /\ LineInv
  BY InitHolds DEF Init, LineInv
<1>2. Data /\ LineInv /\ [Next]_vars => (Data /\ LineInv)'
  BY DataHolds, LineHolds
<1>3. LineInv => WaitsOnlyInsideLine
  BY DEF LineInv, WaitsOnlyInsideLine
<1> QED
  BY <1>1, <1>2, <1>3, PTL DEF Spec

-----------------------------------------------------------------------------
(* The three ways a line moves.                                            *)
LEMMA AppendAtEnd ==
  ASSUME NEW S, NEW a \in Seq(S), NEW b \in Seq(S), NEW c \in Seq(S), NEW e \in S
  PROVE  (a \o b) \o Append(c, e) = Append((a \o b) \o c, e)
<1>1. a \o b \in Seq(S)
  BY ConcatProperties
<1>2. /\ <<e>> \in Seq(S)
      /\ Append(c, e) = c \o <<e>>
      /\ Append((a \o b) \o c, e) = ((a \o b) \o c) \o <<e>>
  BY <1>1, AppendIsConcat, ConcatProperties
<1> QED
  BY <1>1, <1>2, ConcatAssociative

LEMMA MoveHead ==
  ASSUME NEW S, NEW a \in Seq(S), NEW b \in Seq(S), b # <<>>
  PROVE  Append(a, Head(b)) \o Tail(b) = a \o b
<1>1. Head(b) \in S /\ Tail(b) \in Seq(S) /\ <<Head(b)>> \in Seq(S)
  BY HeadTailProperties
<1>2. Append(a, Head(b)) = a \o <<Head(b)>>
  BY <1>1, AppendIsConcat
<1>3. <<Head(b)>> \o Tail(b) = b
  <2>1. Len(b) \in Nat \ {0} /\ b[1] = Head(b)
    BY EmptySeq
  <2>2. SubSeq(b, 1, Len(b)) = <<b[1]>> \o SubSeq(b, 2, Len(b))
    BY <2>1, SubSeqRecursiveFirst
  <2> QED
    BY <2>1, <2>2, SubSeqFull, TailIsSubSeq
<1> QED
  BY <1>1, <1>2, <1>3, ConcatAssociative

LEMMA JoinedRun ==
  ASSUME NEW S, NEW a \in Seq(S), NEW p \in Seq(S), NEW r \in Seq(S)
  PROVE  (a \o p) \o r = a \o (p \o r)
  BY ConcatAssociative

LEMMA CutRun ==
  ASSUME NEW S, NEW b \in Seq(S), NEW k \in 1 .. Len(b)
  PROVE  \E p, r \in Seq(S) :
           /\ p = SubSeq(b, 1, k) /\ r = SubSeq(b, k + 1, Len(b))
           /\ p \o r = b
<1>1. SubSeq(b, 1, k) \in Seq(S) /\ SubSeq(b, k + 1, Len(b)) \in Seq(S)
  BY Cut
<1>2. SubSeq(b, 1, k) \o SubSeq(b, k + 1, Len(b)) = b
  <2>1. Len(b) \in Nat /\ k \in 1 - 1 .. Len(b) /\ 1 \in 1 .. Len(b) + 1
    BY LenProperties
  <2>2. Len(b) \in k .. Len(b)
    BY <2>1
  <2> QED
    BY <2>1, <2>2, ConcatAdjacentSubSeq, SubSeqFull
<1> QED
  BY <1>1, <1>2

(* The lines of a run, cut in two behind another run.                      *)
LEMMA CutMoves ==
  ASSUME NEW S, NEW a \in Seq(S), NEW b \in Seq(S), NEW k \in 1 .. Len(b)
  PROVE  (a \o SubSeq(b, 1, k)) \o SubSeq(b, k + 1, Len(b)) = a \o b
<1>1. PICK p, r \in Seq(S) :
        p = SubSeq(b, 1, k) /\ r = SubSeq(b, k + 1, Len(b)) /\ p \o r = b
  BY CutRun
<1>2. (a \o p) \o r = a \o (p \o r)
  BY JoinedRun, SMTT(60)
<1> QED
  BY <1>1, <1>2

LEMMA OrderHolds ==
  ASSUME Data, RequestsInOrder, [Next]_vars
  PROVE  RequestsInOrder'
<1> USE DEF vars, writerVars, serverVars
<1>1. /\ input \in Seq(Lines) /\ buffer \in Seq(Lines)
      /\ handled \in Seq(Lines) /\ handled \o buffer \in Seq(Lines)
      /\ (handled \o buffer) \o input = sent
  <2>1. /\ input \in Seq(Lines) /\ buffer \in Seq(Lines)
        /\ handled \in Seq(Lines)
    BY DEF Data
  <2> QED
    BY <2>1, ConcatProperties DEF RequestsInOrder
<1>2. CASE UNCHANGED <<input, buffer, handled, sent>>
  BY <1>2 DEF RequestsInOrder
<1>3. CASE WriteNewline
  <2>1. PICK l \in Lines : /\ input' = Append(input, l)
                           /\ sent' = Append(sent, l)
                           /\ UNCHANGED <<handled, buffer>>
    <3>1. (IF tail = NoTail THEN "" ELSE tail) \in Lines
      BY DEF Data, Lines
    <3> QED
      BY <1>3, <3>1 DEF WriteNewline
  <2> QED
    <3>1. (handled \o buffer) \o Append(input, l)
            = Append((handled \o buffer) \o input, l)
      BY <1>1, AppendAtEnd
    <3> QED
      BY <1>1, <2>1, <3>1 DEF RequestsInOrder
<1>4. CASE \E k \in 1 .. Len(input) : ReadSome(k)
  <2>1. PICK k \in 1 .. Len(input) : ReadSome(k)
    BY <1>4
  <2>2. /\ buffer = <<>> /\ UNCHANGED <<handled, sent>>
        /\ buffer' = SubSeq(input, 1, k)
        /\ input' = SubSeq(input, k + 1, Len(input))
    BY <2>1 DEF ReadSome
  <2>3. handled \o buffer = handled
    BY <1>1, <2>2, ConcatEmptySeq
  <2>4. (handled \o SubSeq(input, 1, k)) \o SubSeq(input, k + 1, Len(input))
          = handled \o input
    BY <1>1, CutMoves
  <2> QED
    BY <1>1, <2>2, <2>3, <2>4 DEF RequestsInOrder
<1>5. CASE ReadAll
  <2>1. /\ buffer = <<>> /\ buffer' = input /\ input' = <<>>
        /\ UNCHANGED <<handled, sent>>
    BY <1>5 DEF ReadAll
  <2>2. handled \o buffer = handled
    BY <1>1, <2>1, ConcatEmptySeq
  <2>3. (handled \o input) \o <<>> = handled \o input
    BY <1>1, ConcatProperties, ConcatEmptySeq
  <2> QED
    BY <1>1, <2>1, <2>2, <2>3 DEF RequestsInOrder
<1>6. CASE TakeLine
  <2>1. /\ buffer # <<>> /\ buffer' = Tail(buffer)
        /\ handled' = Append(handled, Head(buffer))
        /\ UNCHANGED <<input, sent>>
    BY <1>6 DEF TakeLine, Dispatch
  <2>2. Append(handled, Head(buffer)) \o Tail(buffer) = handled \o buffer
    BY <1>1, <2>1, MoveHead
  <2> QED
    BY <1>1, <2>1, <2>2 DEF RequestsInOrder
<1>7. CASE TakeTail
  <2>1. /\ buffer = <<>> /\ input = <<>> /\ UNCHANGED <<buffer, input>>
        /\ handled' = Append(handled, tail) /\ sent' = Append(sent, tail)
        /\ tail \in Lines
    BY <1>7 DEF TakeTail, InputEnds, Dispatch, Data
  <2>2. sent = handled
    BY <1>1, <2>1, ConcatEmptySeq
  <2>3. Append(handled, tail) \in Seq(Lines)
    BY <1>1, <2>1, Appended
  <2>4. (Append(handled, tail) \o <<>>) \o <<>> = Append(handled, tail)
    BY <2>3, ConcatEmptySeq
  <2> QED
    BY <2>1, <2>2, <2>4 DEF RequestsInOrder
<1>8. \/ UNCHANGED <<input, buffer, handled, sent>>
      \/ WriteNewline \/ ReadAll \/ TakeLine \/ TakeTail
      \/ \E k \in 1 .. Len(input) : ReadSome(k)
  BY DEF Next, Writer, WriteText, Close, Break, AddCommand, Server,
         MonitorStdin, StdinError, StdinReadable, EndOfInput
<1> QED
  BY <1>2, <1>3, <1>4, <1>5, <1>6, <1>7, <1>8

(* Requests pass from the pipe through stdio's buffer to their commands in *)
(* the order they were written, none lost and none taken twice.            *)
THEOREM InOrder == Spec => []RequestsInOrder
<1>1. Init => Data /\ RequestsInOrder
  <2>1. <<>> \in Seq(Lines)
    OBVIOUS
  <2>2. (<<>> \o <<>>) \o <<>> = <<>>
    BY <2>1, ConcatEmptySeq
  <2> QED
    BY <2>2, InitHolds DEF Init, RequestsInOrder
<1>2. Data /\ RequestsInOrder /\ [Next]_vars => (Data /\ RequestsInOrder)'
  BY DataHolds, OrderHolds
<1> QED
  BY <1>1, <1>2, PTL DEF Spec

=============================================================================
