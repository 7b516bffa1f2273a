---------------------------- MODULE NPollProofs ----------------------------
(***************************************************************************)
(* Lemmas about the operations of NPoll: what each does to the table, to   *)
(* the descriptors and to the events that still wait.                      *)
(***************************************************************************)
EXTENDS NPoll, WellFoundedInduction, TLAPS

(* A set of naturals that is not empty has a least element.                *)
LEMMA LeastExists ==
  ASSUME NEW S \in SUBSET Nat, S # {}
  PROVE  \E n \in S : \A m \in S : n <= m
<1> DEFINE R == OpToRel(<, Nat)
<1>1. IsWellFoundedOn(R, Nat)
  BY NatLessThanWellFounded, Zenon
<1>2. \A x, y \in Nat : <<y, x>> \notin R => x <= y
  BY DEF OpToRel
<1> HIDE DEF R
<1>3. \E x \in S : \A y \in S : ~(<<y, x>> \in R)
  BY <1>1, WFMin, Zenon
<1> QED
  BY <1>2, <1>3

(* The table is current, no event is stale, and callbacks have owners.     *)
PollInv ==
  /\ DOMAIN files = Fds
  /\ TableIsCurrent
  /\ NoStaleEvent
  /\ \A fd \in DOMAIN fdMap : fdMap[fd] # NoFile

LEMMA InitPoll ==
  ASSUME NPollInit
  PROVE  PollInv
  BY DEF NPollInit, PollInv, TableIsCurrent, NoStaleEvent

(* A new descriptor is a free one, so the table does not have it.          *)
LEMMA LowestIsFresh ==
  ASSUME PollInv, Free # {}
  PROVE  /\ Lowest \in Fds /\ files[Lowest] = NoFile
         /\ Lowest # Stdin /\ Lowest \notin DOMAIN fdMap
<1>1. Free \in SUBSET Nat
  BY FdsAssumption DEF Free
<1>2. \E n \in Free : \A m \in Free : n <= m
  BY <1>1, LeastExists
<1>3. Lowest \in Free
  BY <1>2, Zenon DEF Lowest
<1>4. Lowest \in Fds /\ files[Lowest] = NoFile /\ Lowest # Stdin
  BY <1>3, FdsAssumption DEF Free
<1>5. Lowest \notin DOMAIN fdMap
  BY <1>4 DEF PollInv, TableIsCurrent
<1> QED
  BY <1>4, <1>5

LEMMA AddFdValue ==
  ASSUME NEW fd, NEW owner, NEW accepted \in BOOLEAN, AddFd(fd, owner, accepted),
         fd \notin DOMAIN fdMap, interest = DOMAIN fdMap
  PROVE  /\ DOMAIN fdMap' = IF accepted THEN DOMAIN fdMap \cup {fd} ELSE DOMAIN fdMap
         /\ \A f \in DOMAIN fdMap : fdMap'[f] = fdMap[f]
         /\ accepted => fdMap'[fd] = owner
         /\ interest' = DOMAIN fdMap'
  BY DEF AddFd

(* A socket is opened on a fresh descriptor, and added to the table.       *)
LEMMA OpenKeeps ==
  ASSUME PollInv, Free # {}, NEW owner, owner # NoFile,
         NEW accepted \in BOOLEAN, AddFd(Lowest, owner, accepted),
         files' = [files EXCEPT ![Lowest] = owner],
         batch' \subseteq batch
  PROVE  /\ PollInv'
         /\ files'[Lowest] = owner
         /\ \A fd \in Fds \ {Lowest} : files'[fd] = files[fd]
         /\ DOMAIN fdMap' = DOMAIN fdMap \cup (IF accepted THEN {Lowest} ELSE {})
         /\ \A fd \in DOMAIN fdMap : fdMap'[fd] = fdMap[fd]
         /\ accepted => fdMap'[Lowest] = owner
<1> DEFINE l == Lowest
<1>1. l \in Fds /\ l # Stdin /\ l \notin DOMAIN fdMap
  BY LowestIsFresh
<1>2. /\ DOMAIN fdMap' = IF accepted THEN DOMAIN fdMap \cup {l} ELSE DOMAIN fdMap
      /\ \A fd \in DOMAIN fdMap : fdMap'[fd] = fdMap[fd]
      /\ accepted => fdMap'[l] = owner
      /\ interest' = DOMAIN fdMap'
  BY <1>1, AddFdValue DEF PollInv, TableIsCurrent
<1>3. /\ DOMAIN files' = Fds /\ files'[l] = owner
      /\ \A fd \in Fds \ {l} : files'[fd] = files[fd]
  BY <1>1 DEF PollInv
<1> HIDE DEF l
<1>4. TableIsCurrent'
  <2> SUFFICES ASSUME NEW fd \in DOMAIN fdMap' \ {Stdin}
               PROVE  fd \in Fds /\ files'[fd] = fdMap'[fd]
    BY <1>2 DEF TableIsCurrent
  <2>1. CASE fd \in DOMAIN fdMap
    BY <1>1, <1>2, <1>3, <2>1 DEF PollInv, TableIsCurrent
  <2>2. CASE fd = l /\ accepted
    BY <1>1, <1>2, <1>3, <2>2
  <2> QED
    BY <1>2, <2>1, <2>2
<1>5. NoStaleEvent'
  <2> SUFFICES ASSUME NEW e \in batch
               PROVE  /\ e.fd \in DOMAIN fdMap'
                      /\ e.fd # Stdin => files'[e.fd] = e.file
    BY DEF NoStaleEvent
  <2>1. /\ e.fd \in DOMAIN fdMap
        /\ e.fd # Stdin => e.fd \in Fds /\ files[e.fd] = e.file
    BY DEF PollInv, NoStaleEvent, TableIsCurrent
  <2> QED
    BY <1>1, <1>2, <1>3, <2>1
<1>6. \A fd \in DOMAIN fdMap' : fdMap'[fd] # NoFile
  BY <1>2 DEF PollInv
<1> QED
  BY <1>2, <1>3, <1>4, <1>5, <1>6 DEF PollInv, l

(* stdin is added: it has no entry in files.                               *)
LEMMA AddStdinKeeps ==
  ASSUME PollInv, NEW owner, owner # NoFile, NEW accepted \in BOOLEAN,
         AddFd(Stdin, owner, accepted), Stdin \notin DOMAIN fdMap,
         UNCHANGED <<files, batch>>
  PROVE  /\ PollInv'
         /\ DOMAIN fdMap' = DOMAIN fdMap \cup (IF accepted THEN {Stdin} ELSE {})
         /\ \A fd \in DOMAIN fdMap : fdMap'[fd] = fdMap[fd]
         /\ accepted => fdMap'[Stdin] = owner
<1>1. /\ DOMAIN fdMap' = IF accepted THEN DOMAIN fdMap \cup {Stdin}
                         ELSE DOMAIN fdMap
      /\ \A fd \in DOMAIN fdMap : fdMap'[fd] = fdMap[fd]
      /\ accepted => fdMap'[Stdin] = owner
      /\ interest' = DOMAIN fdMap'
  BY AddFdValue DEF PollInv, TableIsCurrent
<1>2. TableIsCurrent' /\ NoStaleEvent'
  BY <1>1 DEF PollInv, TableIsCurrent, NoStaleEvent
<1> QED
  BY <1>1, <1>2 DEF PollInv

(* Descriptors leave the table, and those that are sockets are closed, if  *)
(* no event waits for one of them.                                         *)
LEMMA LeaveKeeps ==
  ASSUME PollInv, NEW S, NEW Closed, Closed \subseteq S,
         fdMap' = Without(S), interest' = interest \ S,
         DOMAIN files' = Fds,
         \A fd \in Fds : files'[fd] = IF fd \in Closed THEN NoFile ELSE files[fd],
         batch' \subseteq batch, \A e \in batch' : e.fd \notin S
  PROVE  /\ PollInv'
         /\ DOMAIN fdMap' = DOMAIN fdMap \ S
         /\ \A fd \in DOMAIN fdMap \ S : fdMap'[fd] = fdMap[fd]
<1>1. interest = DOMAIN fdMap
  BY DEF PollInv, TableIsCurrent
<1>2. /\ DOMAIN fdMap' = DOMAIN fdMap \ S
      /\ \A fd \in DOMAIN fdMap \ S : fdMap'[fd] = fdMap[fd]
  BY <1>1 DEF Without
<1>3. TableIsCurrent'
  BY <1>1, <1>2 DEF PollInv, TableIsCurrent
<1>4. NoStaleEvent'
  <2> SUFFICES ASSUME NEW e \in batch'
               PROVE  /\ e.fd \in DOMAIN fdMap'
                      /\ e.fd # Stdin => files'[e.fd] = e.file
    BY DEF NoStaleEvent
  <2>1. /\ e.fd \in DOMAIN fdMap /\ e.fd \notin S
        /\ e.fd # Stdin => e.fd \in Fds /\ files[e.fd] = e.file
    BY DEF PollInv, NoStaleEvent, TableIsCurrent
  <2> QED
    BY <1>2, <2>1
<1> QED
  BY <1>2, <1>3, <1>4 DEF PollInv

LEMMA EndFdsKeeps ==
  ASSUME PollInv, NEW S, EndFds(S),
         batch' \subseteq batch, \A e \in batch' : e.fd \notin S
  PROVE  /\ PollInv'
         /\ \A fd \in Fds : files'[fd] = IF fd \in S THEN NoFile ELSE files[fd]
         /\ DOMAIN fdMap' = DOMAIN fdMap \ S
         /\ \A fd \in DOMAIN fdMap \ S : fdMap'[fd] = fdMap[fd]
<1>1. /\ fdMap' = Without(S) /\ interest' = interest \ S
      /\ DOMAIN files' = Fds
      /\ \A fd \in Fds : files'[fd] = IF fd \in S THEN NoFile ELSE files[fd]
  BY DEF EndFds
<1> QED
  BY <1>1, LeaveKeeps

LEMMA RemoveStdinKeeps ==
  ASSUME PollInv, RemoveFd(Stdin), UNCHANGED files,
         batch' \subseteq batch, \A e \in batch' : e.fd # Stdin
  PROVE  /\ PollInv'
         /\ DOMAIN fdMap' = DOMAIN fdMap \ {Stdin}
         /\ \A fd \in DOMAIN fdMap \ {Stdin} : fdMap'[fd] = fdMap[fd]
<1>1. fdMap' = Without({Stdin}) /\ interest' = interest \ {Stdin}
  BY DEF RemoveFd, PollInv, TableIsCurrent
<1>2. PICK S, Closed : S = {Stdin} /\ Closed = {}
  OBVIOUS
<1>3. /\ Closed \subseteq S
      /\ fdMap' = Without(S) /\ interest' = interest \ S
      /\ DOMAIN files' = Fds
      /\ \A fd \in Fds : files'[fd] = IF fd \in Closed THEN NoFile ELSE files[fd]
      /\ \A e \in batch' : e.fd \notin S
  BY <1>1, <1>2 DEF PollInv
<1>4. /\ PollInv'
      /\ DOMAIN fdMap' = DOMAIN fdMap \ S
      /\ \A fd \in DOMAIN fdMap \ S : fdMap'[fd] = fdMap[fd]
  BY <1>3, LeaveKeeps
<1> QED
  BY <1>2, <1>4

(* epoll_wait reports watched descriptors, as they are now.                *)
LEMMA WaitKeeps ==
  ASSUME PollInv, NEW events, WaitForEvents(events),
         \A e \in events : e.fd \in interest /\ (e.fd # Stdin => files[e.fd] = e.file),
         UNCHANGED <<files, fdMap, interest>>
  PROVE  PollInv' /\ batch' \subseteq events
<1>1. batch' \subseteq events
  BY DEF WaitForEvents
<1>2. NoStaleEvent'
  BY <1>1 DEF PollInv, TableIsCurrent, NoStaleEvent
<1> QED
  BY <1>1, <1>2 DEF PollInv, TableIsCurrent

(* The events that wait when one has been taken: none has its descriptor.  *)
LEMMA OthersWait ==
  ASSUME PollInv, NEW e \in batch, batch' = batch \ {e},
         \A other \in batch : \E fd, file : other = [fd |-> fd, file |-> file],
         \A other \in batch : other.fd = Stdin => other.file = "stdin"
  PROVE  batch' \subseteq batch /\ \A other \in batch' : other.fd # e.fd
<1> SUFFICES ASSUME NEW other \in batch, other.fd = e.fd
             PROVE  other = e
  OBVIOUS
<1>1. other.file = e.file
  BY DEF PollInv, NoStaleEvent
<1>2. PICK f1, g1 : other = [fd |-> f1, file |-> g1]
  OBVIOUS
<1>3. PICK f2, g2 : e = [fd |-> f2, file |-> g2]
  OBVIOUS
<1> QED
  BY <1>1, <1>2, <1>3

=============================================================================
