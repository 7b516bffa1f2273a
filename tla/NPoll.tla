-------------------------------- MODULE NPoll --------------------------------
(***************************************************************************)
(* npoll.cpp: the table of callbacks, epoll's set of descriptors and the   *)
(* events of one epoll_wait, for the programs that run in the loop.        *)
(* External: the kernel's table of open files.  A descriptor is a number   *)
(* that the kernel gives out again once it is closed, and an event carries *)
(* only that number; its field file is what it was reported for.           *)
(***************************************************************************)
EXTENDS Integers, FiniteSets

CONSTANT Fds        \* the descriptors a socket of the process may get

Stdin == 0
NoFd == -1
NoFile == "no file"

ASSUME FdsAssumption ==
  Fds \subseteq Nat \ {Stdin} /\ IsFiniteSet(Fds)

VARIABLES
  files,            \* the socket each descriptor of Fds denotes, or NoFile
  interest,         \* the descriptors registered with epoll
  fdMap,            \* descriptor -> owner of its callback, for some of them
  batch             \* events epoll_wait returned, not handled yet

npollVars == <<interest, fdMap, batch>>

NPollInit ==
  /\ files = [fd \in Fds |-> NoFile]
  /\ interest = {}
  /\ fdMap = [fd \in {} |-> NoFile]
  /\ batch = {}

-----------------------------------------------------------------------------
Free == {fd \in Fds : files[fd] = NoFile}

(* A new descriptor is the lowest that is free.                            *)
Lowest == CHOOSE fd \in Free : \A other \in Free : fd <= other

(* npollAddFd.  A descriptor the table has already is left alone; one that *)
(* epoll does not accept is erased again.  The answer is 0 in each case.   *)
AddFd(fd, owner, accepted) ==
  LET added == accepted /\ fd \notin DOMAIN fdMap IN
    /\ fdMap' = IF ~added THEN fdMap
                ELSE [f \in DOMAIN fdMap \cup {fd} |->
                        IF f = fd THEN owner ELSE fdMap[f]]
    /\ interest' = IF added THEN interest \cup {fd} ELSE interest

(* removeFd erases an entry only if epoll gives the descriptor up.         *)
Without(S) ==
  [fd \in DOMAIN fdMap \ (S \cap interest) |-> fdMap[fd]]

RemoveFd(fd) ==
  /\ fdMap' = Without({fd})
  /\ interest' = interest \ (DOMAIN fdMap \cap {fd})

(* Faulty variant: the sockets are closed, and nothing else.               *)
EndFdsCloseOnly(S) ==
  /\ fdMap' = fdMap
  /\ interest' = interest \ S
  /\ files' = [fd \in Fds |-> IF fd \in S THEN NoFile ELSE files[fd]]

(* NSock::end on each socket of S: removed, then closed.                   *)
EndFds(S) ==
  /\ fdMap' = Without(S)
  /\ interest' = interest \ S
  /\ files' = [fd \in Fds |-> IF fd \in S THEN NoFile ELSE files[fd]]

-----------------------------------------------------------------------------
(* Faulty variant: epoll_wait has room for one event.                      *)
WaitForOneEvent(events) ==
  /\ batch = {}
  /\ \E e \in events : batch' = {e}

(* epoll_wait has room for an event for every entry of fdMap.  Its order   *)
(* is open: the events are a set, taken in any order.                      *)
WaitForEvents(events) ==
  /\ batch = {}
  /\ \E b \in SUBSET events :
       /\ b # {}
       /\ b # events => Cardinality(b) = Cardinality(DOMAIN fdMap)
       /\ batch' = b

(* The event e comes next, and owner is whose callback is found for it.    *)
Found(e, owner) ==
  /\ e \in batch
  /\ e.fd \in DOMAIN fdMap
  /\ fdMap[e.fd] = owner

Dispatches(e, owner) == Found(e, owner) /\ batch' = batch \ {e}

(* The table has no entry: the end iterator is dereferenced.  What lies    *)
(* there is no callback, and the process goes down.                        *)
DispatchesUnknown(e) ==
  /\ e \in batch
  /\ batch' = {}
  /\ e.fd \notin DOMAIN fdMap

-----------------------------------------------------------------------------
(* The callback of each socket is the one installed for the socket the     *)
(* descriptor denotes now, and epoll watches exactly the entries of fdMap: *)
(* no callback survives its socket, no socket is watched without one.      *)
TableIsCurrent ==
  /\ interest = DOMAIN fdMap
  /\ \A fd \in DOMAIN fdMap \ {Stdin} : fd \in Fds /\ files[fd] = fdMap[fd]

(* Events that wait while other callbacks run are still for the descriptor *)
(* they were reported for: it has not been closed, nor closed and given    *)
(* out again.                                                              *)
NoStaleEvent ==
  \A e \in batch :
    /\ e.fd \in DOMAIN fdMap
    /\ e.fd # Stdin => files[e.fd] = e.file

=============================================================================
