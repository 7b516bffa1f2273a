--------------------------- MODULE NSockOpenProofs ---------------------------
(***************************************************************************)
(* The safety of NSockOpen, for every set of descriptors and any number of *)
(* addresses: no descriptor leaks on any error path, each NSock is ready   *)
(* for the loop, and no usable address is passed over.                     *)
(***************************************************************************)
EXTENDS NSockOpen, NPollProofs

(* The calls that work on a socket of the attempt.                         *)
Attempt == {"bind or connect", "getsockname", "listen", "fcntl", "epoll_ctl"}

AttemptInv ==
  /\ pc \in Attempt => sfd \in Fds /\ sfd \notin held /\ files[sfd] = call
  /\ pc \notin Attempt => sfd = NoFd
  /\ pc = "bind or connect" => rp \in 1 .. Len(addresses)

(* What has been done to it, and that a descriptor brings nothing along    *)
(* from its life before.                                                   *)
FlagInv ==
  /\ interest = DOMAIN fdMap /\ interest \subseteq held /\ refused \subseteq held
  /\ listening \subseteq held \cup {sfd}
  /\ pc \in {"bind or connect", "getsockname", "listen"} => sfd \notin listening
  /\ pc = "listen" => call = "listen"
  /\ pc \in {"fcntl", "epoll_ctl"} => (sfd \in listening <=> call = "listen")
  /\ pc = "epoll_ctl" => sfd \in nonblocking

(* The addresses behind rp were of no use, unless no descriptor is free.   *)
AddressInv ==
  /\ pc = "getaddrinfo" => rp = 1
  /\ pc \in {"socket", "bind or connect"} =>
       \/ \A i \in 1 .. rp - 1 : addresses[i] # "usable"
       \/ pc = "socket" /\ Free = {}

Inv ==
  /\ TypeOK
  /\ NothingLeaks
  /\ HeldAreReady
  /\ AttemptInv
  /\ FlagInv
  /\ AddressInv

-----------------------------------------------------------------------------
LEMMA LowestIsFree ==
  ASSUME Free # {}
  PROVE  Lowest \in Free
<1>1. Free \in SUBSET Nat
  BY FdsAssumption DEF Free
<1>2. \E n \in Free : \A m \in Free : n <= m
  BY <1>1, LeastExists
<1> QED
  BY <1>2, Zenon DEF Lowest

LEMMA AddressRange ==
  ASSUME Inv
  PROVE  Len(addresses) \in Nat /\ rp \in Nat /\ 1 <= rp /\ rp <= Len(addresses) + 1
<1>1. addresses \in Seq(Uses) /\ rp \in 1 .. Len(addresses) + 1
  BY DEF Inv, TypeOK
<1>2. Len(addresses) \in Nat
  BY <1>1
<1> QED
  BY <1>1, <1>2

LEMMA InRange ==
  ASSUME Inv
  PROVE  rp <= Len(addresses) <=> rp \in 1 .. Len(addresses)
<1> DEFINE n == Len(addresses)
<1>1. n \in Nat /\ rp \in Nat /\ 1 <= rp
  BY AddressRange
<1> HIDE DEF n
<1>2. rp <= n <=> rp \in 1 .. n
  BY <1>1
<1> QED
  BY <1>2 DEF n

(* The loop goes on to the next address.                                   *)
LEMMA NextAddress ==
  ASSUME Inv, addresses' = addresses, rp' = rp + 1, rp <= Len(addresses)
  PROVE  /\ rp' \in 1 .. Len(addresses') + 1
         /\ /\ \A i \in 1 .. rp - 1 : addresses[i] # "usable"
            /\ addresses[rp] # "usable"
            => \A i \in 1 .. rp' - 1 : addresses'[i] # "usable"
<1> DEFINE n == Len(addresses)
<1>1. n \in Nat /\ rp \in Nat /\ 1 <= rp /\ rp <= n
  BY AddressRange
<1>2. Len(addresses') = n
  OBVIOUS
<1> HIDE DEF n
<1>3. rp' \in 1 .. n + 1
  BY <1>1
<1>4. \A i \in 1 .. rp' - 1 : i \in 1 .. rp - 1 \/ i = rp
  BY <1>1
<1> QED
  BY <1>2, <1>3, <1>4

LEMMA NoFdIsNone == NoFd \notin Fds
  BY FdsAssumption DEF NoFd

LEMMA InitInv == Init => Inv
<1> SUFFICES ASSUME Init
             PROVE  Inv
  OBVIOUS
<1>1. /\ files = [fd \in Fds |-> NoFile] /\ interest = {} /\ DOMAIN fdMap = {}
      /\ batch = {} /\ pc = "idle" /\ call = "listen"
      /\ addresses = <<>> /\ rp = 1 /\ sfd = NoFd
      /\ held = {} /\ nonblocking = {} /\ listening = {} /\ refused = {}
  BY DEF Init, NPollInit
<1>2. TypeOK
  BY <1>1 DEF TypeOK
<1>3. NothingLeaks /\ HeldAreReady
  BY <1>1 DEF NothingLeaks, HeldAreReady
<1>4. AttemptInv /\ FlagInv /\ AddressInv
  BY <1>1 DEF AttemptInv, FlagInv, AddressInv, Attempt
<1> QED
  BY <1>2, <1>3, <1>4 DEF Inv

(* A step that leaves the descriptors as they are.                         *)
LEMMA Quiet ==
  ASSUME Inv, TypeOK', AttemptInv', FlagInv', AddressInv',
         UNCHANGED <<files, interest, fdMap, sfd, held, refused>>,
         \A fd \in held : /\ fd \in nonblocking' <=> fd \in nonblocking
                          /\ fd \in listening' <=> fd \in listening
  PROVE  Inv'
<1>1. NothingLeaks'
  BY DEF Inv, NothingLeaks, AttemptInv, Attempt
<1>2. HeldAreReady'
  BY DEF Inv, HeldAreReady
<1> QED
  BY <1>1, <1>2 DEF Inv

LEMMA CallKeeps ==
  ASSUME Inv, NEW which \in {"listen", "connect", "accept"}, Call(which)
  PROVE  Inv'
<1>1. /\ pc = "idle" /\ pc' \in {"accept", "getaddrinfo"} /\ call' = which
      /\ addresses' = <<>> /\ rp' = 1
      /\ UNCHANGED <<files, interest, fdMap, batch, sfd, held, refused,
                     nonblocking, listening>>
  BY DEF Call, npollVars, flagVars
<1>2. TypeOK'
  <2>1. addresses' \in Seq(Uses) /\ rp' \in 1 .. Len(addresses') + 1
    BY <1>1
  <2> QED
    BY <1>1, <2>1 DEF Inv, TypeOK
<1>3. AttemptInv' /\ FlagInv' /\ AddressInv'
  BY <1>1 DEF Inv, AttemptInv, FlagInv, AddressInv, Attempt
<1> QED
  BY <1>1, <1>2, <1>3, Quiet

(* The steps of a call that only move on.                                  *)
LEMMA MovesKeep ==
  ASSUME Inv, \/ ResolveFails \/ AddressUsed \/ AddressesEnd
              \/ AcceptFails \/ NameFound
  PROVE  Inv'
<1>1. /\ UNCHANGED <<files, interest, fdMap, batch, sfd, held, refused>>
      /\ UNCHANGED <<nonblocking, listening, call, addresses, rp>>
  BY DEF ResolveFails, AddressUsed, AddressesEnd, AcceptFails, NameFound,
     npollVars, flagVars
<1>2. \/ pc \in {"getaddrinfo", "socket", "accept"} /\ pc' = "idle"
      \/ pc = "bind or connect" /\ pc' = "getsockname"
      \/ pc = "getsockname" /\ pc' = IF call = "listen" THEN "listen" ELSE "fcntl"
  BY DEF ResolveFails, AddressUsed, AddressesEnd, AcceptFails, NameFound
<1>3. TypeOK'
  BY <1>1, <1>2 DEF Inv, TypeOK
<1>4. AttemptInv'
  BY <1>1, <1>2 DEF Inv, AttemptInv, Attempt
<1>5. FlagInv'
  BY <1>1, <1>2 DEF Inv, FlagInv
<1>6. AddressInv'
  BY <1>2 DEF AddressInv
<1> QED
  BY <1>1, <1>3, <1>4, <1>5, <1>6, Quiet

LEMMA ResolveKeeps ==
  ASSUME Inv, Resolve
  PROVE  Inv'
<1>1. /\ UNCHANGED <<files, interest, fdMap, batch, sfd, held, refused>>
      /\ UNCHANGED <<nonblocking, listening, call, rp>>
      /\ pc = "getaddrinfo" /\ pc' = "socket"
  BY DEF Resolve, npollVars, flagVars
<1>2. PICK n \in 1 .. MaxAddresses : addresses' \in [1 .. n -> Uses]
  BY DEF Resolve
<1>3. rp = 1
  BY <1>1 DEF Inv, AddressInv
<1>4. addresses' \in Seq(Uses) /\ Len(addresses') = n /\ n \in Nat
  BY <1>2, MaxAddressesAssumption
<1>5. TypeOK'
  BY <1>1, <1>3, <1>4 DEF Inv, TypeOK
<1>6. AttemptInv' /\ FlagInv' /\ AddressInv'
  BY <1>1, <1>3 DEF Inv, AttemptInv, FlagInv, AddressInv, Attempt
<1> QED
  BY <1>1, <1>5, <1>6, Quiet

LEMMA SocketFailsKeeps ==
  ASSUME Inv, SocketFails
  PROVE  Inv'
<1>1. /\ UNCHANGED <<files, interest, fdMap, batch, sfd, held, refused>>
      /\ UNCHANGED <<nonblocking, listening, call, pc, addresses>>
      /\ pc = "socket" /\ rp <= Len(addresses) /\ rp' = rp + 1
      /\ addresses[rp] = "no socket" \/ Free = {}
  BY DEF SocketFails, npollVars, flagVars
<1>2. /\ rp' \in 1 .. Len(addresses') + 1
      /\ /\ \A i \in 1 .. rp - 1 : addresses[i] # "usable"
         /\ addresses[rp] # "usable"
         => \A i \in 1 .. rp' - 1 : addresses'[i] # "usable"
  BY <1>1, NextAddress
<1>3. rp' \in 1 .. Len(addresses') + 1
  BY <1>2
<1>4. TypeOK'
  BY <1>1, <1>3 DEF Inv, TypeOK
<1>5. AttemptInv' /\ FlagInv'
  BY <1>1 DEF Inv, AttemptInv, FlagInv, Attempt
<1>6. Free' = Free
  BY <1>1 DEF Free
<1>7. AddressInv'
  <2>1. CASE Free = {}
    BY <1>1, <1>6, <2>1 DEF AddressInv
  <2>2. CASE Free # {}
    <3>1. \A i \in 1 .. rp - 1 : addresses[i] # "usable"
      BY <1>1, <2>2 DEF Inv, AddressInv
    <3>2. \A i \in 1 .. rp' - 1 : addresses'[i] # "usable"
      BY <1>1, <1>2, <2>2, <3>1, Zenon
    <3> QED
      BY <1>1, <3>2 DEF AddressInv
  <2> QED
    BY <2>1, <2>2
<1> QED
  BY <1>1, <1>4, <1>5, <1>7, Quiet

(* The steps that mark the socket of the attempt.                          *)
LEMMA MarksKeep ==
  ASSUME Inv, ListenStarts \/ SetNonblocking
  PROVE  Inv'
<1>1. /\ UNCHANGED <<files, interest, fdMap, batch, sfd, held, refused>>
      /\ UNCHANGED <<call, addresses, rp>>
  BY DEF ListenStarts, SetNonblocking, npollVars
<1>2. \/ /\ pc = "listen" /\ pc' = "fcntl"
         /\ listening' = listening \cup {sfd} /\ nonblocking' = nonblocking
      \/ /\ pc = "fcntl" /\ pc' = "epoll_ctl"
         /\ nonblocking' = nonblocking \cup {sfd} /\ listening' = listening
  BY DEF ListenStarts, SetNonblocking
<1>3. sfd \in Fds /\ sfd \notin held
  BY <1>2 DEF Inv, AttemptInv, Attempt
<1>4. TypeOK'
  BY <1>1, <1>2, <1>3 DEF Inv, TypeOK
<1>5. AttemptInv'
  BY <1>1, <1>2 DEF Inv, AttemptInv, Attempt
<1>6. FlagInv'
  BY <1>1, <1>2 DEF Inv, FlagInv
<1>7. AddressInv'
  BY <1>2 DEF AddressInv
<1> QED
  BY <1>1, <1>2, <1>3, <1>4, <1>5, <1>6, <1>7, Quiet

-----------------------------------------------------------------------------
(* The steps that open and close.                                          *)

LEMMA OpensKeep ==
  ASSUME Inv, SocketOpens \/ Accept
  PROVE  Inv'
<1> DEFINE l == Lowest
<1>1. /\ UNCHANGED <<interest, fdMap, batch, held, refused, nonblocking, listening>>
      /\ UNCHANGED <<call, addresses, rp>>
      /\ sfd' = l /\ files' = [files EXCEPT ![l] = call] /\ Free # {}
  BY DEF SocketOpens, Accept, npollVars, flagVars
<1>2. \/ /\ pc = "socket" /\ pc' = "bind or connect" /\ rp <= Len(addresses)
      \/ pc = "accept" /\ pc' = "getsockname"
  BY DEF SocketOpens, Accept
<1>3. l \in Fds /\ files[l] = NoFile
  BY <1>1, LowestIsFree DEF Free
<1> HIDE DEF l
<1>4. /\ sfd = NoFd /\ files \in [Fds -> {NoFile, "listen", "connect", "accept"}]
      /\ call \in {"listen", "connect", "accept"}
  BY <1>2 DEF Inv, AttemptInv, Attempt, TypeOK
<1>5. l \notin held /\ held \subseteq Fds
  BY <1>3 DEF Inv, TypeOK, NothingLeaks
<1>6. /\ files' \in [Fds -> {NoFile, "listen", "connect", "accept"}]
      /\ files'[l] = call /\ call # NoFile
      /\ \A fd \in Fds \ {l} : files'[fd] = files[fd]
  BY <1>1, <1>3, <1>4 DEF NoFile
<1>7. TypeOK'
  BY <1>1, <1>2, <1>3, <1>6 DEF Inv, TypeOK
<1>8. NothingLeaks'
  <2>1. {fd \in Fds : files[fd] # NoFile} = held
    BY <1>4 DEF Inv, NothingLeaks
  <2>2. {fd \in Fds : files'[fd] # NoFile} = held \cup {l}
    BY <1>3, <1>6, <2>1
  <2>3. l # NoFd
    BY <1>3, NoFdIsNone
  <2> QED
    BY <1>1, <1>2, <1>5, <2>2, <2>3 DEF NothingLeaks
<1>9. HeldAreReady'
  BY <1>1, <1>5, <1>6 DEF Inv, HeldAreReady
<1>10. AttemptInv'
  <2>1. pc' = "bind or connect" => rp' \in 1 .. Len(addresses')
    <3>1. rp' = rp /\ addresses' = addresses
      BY <1>1
    <3>2. pc' = "bind or connect" => rp <= Len(addresses)
      BY <1>2
    <3>3. pc' = "bind or connect" => rp \in 1 .. Len(addresses)
      BY <3>2, InRange
    <3> QED
      BY <3>1, <3>3
  <2> QED
    BY <1>1, <1>2, <1>3, <1>5, <1>6, <2>1 DEF AttemptInv, Attempt
<1>11. l \notin listening
  BY <1>3, <1>4, <1>5, NoFdIsNone DEF Inv, FlagInv
<1>12. FlagInv'
  <2>1. listening' \subseteq held' \cup {sfd'}
    BY <1>1, <1>4, NoFdIsNone DEF Inv, FlagInv, TypeOK
  <2> QED
    BY <1>1, <1>2, <1>11, <2>1 DEF Inv, FlagInv
<1>13. AddressInv'
  BY <1>1, <1>2 DEF Inv, AddressInv
<1> QED
  BY <1>7, <1>8, <1>9, <1>10, <1>12, <1>13 DEF Inv

LEMMA FailsKeep ==
  ASSUME Inv, AddressFails \/ CallFails
  PROVE  Inv'
<1>1. /\ UNCHANGED <<interest, fdMap, batch, held, refused, nonblocking>>
      /\ UNCHANGED <<call, addresses>>
      /\ sfd' = NoFd /\ files' = [files EXCEPT ![sfd] = NoFile]
      /\ pc \in Attempt \ {"epoll_ctl"} /\ pc' \in {"socket", "idle"}
  BY DEF AddressFails, CallFails, npollVars, flagVars, Attempt
<1>2. listening' = listening \ {sfd}
  BY DEF AddressFails, CallFails, flagVars, Inv, FlagInv
<1>3. \/ /\ pc = "bind or connect" /\ rp' = rp + 1 /\ pc' = "socket"
         /\ addresses[rp] # "usable"
      \/ rp' = rp /\ pc' = "idle"
  BY DEF AddressFails, CallFails
<1>4. sfd \in Fds /\ sfd \notin held
  BY <1>1 DEF Inv, AttemptInv
<1>5. /\ files' \in [Fds -> {NoFile, "listen", "connect", "accept"}]
      /\ files'[sfd] = NoFile
      /\ \A fd \in Fds \ {sfd} : files'[fd] = files[fd]
  BY <1>1, <1>4 DEF Inv, TypeOK
<1>6. /\ pc = "bind or connect" /\ rp' = rp + 1
      => /\ rp' \in 1 .. Len(addresses') + 1
         /\ /\ \A i \in 1 .. rp - 1 : addresses[i] # "usable"
            /\ addresses[rp] # "usable"
            => \A i \in 1 .. rp' - 1 : addresses'[i] # "usable"
  <2> SUFFICES ASSUME pc = "bind or connect", rp' = rp + 1
               PROVE  /\ rp' \in 1 .. Len(addresses') + 1
                      /\ /\ \A i \in 1 .. rp - 1 : addresses[i] # "usable"
                         /\ addresses[rp] # "usable"
                         => \A i \in 1 .. rp' - 1 : addresses'[i] # "usable"
    BY Zenon
  <2>1. rp \in 1 .. Len(addresses)
    BY DEF Inv, AttemptInv
  <2>2. rp <= Len(addresses) /\ addresses' = addresses
    BY <1>1, <2>1, InRange
  <2> QED
    BY <2>2, NextAddress
<1>7. rp' \in 1 .. Len(addresses') + 1
  <2>1. rp' = rp => rp' \in 1 .. Len(addresses') + 1
    BY <1>1 DEF Inv, TypeOK
  <2> QED
    BY <1>3, <1>6, <2>1, Zenon
<1>8. TypeOK'
  BY <1>1, <1>2, <1>5, <1>7 DEF Inv, TypeOK
<1>9. NothingLeaks'
  <2>1. {fd \in Fds : files[fd] # NoFile} = held \cup {sfd}
    BY <1>4, NoFdIsNone DEF Inv, NothingLeaks
  <2>2. {fd \in Fds : files'[fd] # NoFile} = held
    BY <1>4, <1>5, <2>1
  <2>3. NoFd \notin held
    BY NoFdIsNone DEF Inv, TypeOK
  <2> QED
    BY <1>1, <2>2, <2>3 DEF NothingLeaks
<1>10. HeldAreReady'
  <2>1. \A fd \in held : fd \in Fds /\ fd # sfd
    BY <1>4 DEF Inv, TypeOK
  <2> QED
    BY <1>1, <1>2, <1>5, <2>1 DEF Inv, HeldAreReady
<1>11. AttemptInv'
  BY <1>1 DEF AttemptInv, Attempt
<1>12. FlagInv'
  BY <1>1, <1>2 DEF Inv, FlagInv
<1>13. AddressInv'
  <2>1. CASE pc = "bind or connect" /\ pc' = "socket" /\ rp' = rp + 1
             /\ addresses[rp] # "usable"
    <3>1. \A i \in 1 .. rp - 1 : addresses[i] # "usable"
      BY <2>1 DEF Inv, AddressInv
    <3>2. \A i \in 1 .. rp' - 1 : addresses'[i] # "usable"
      BY <1>6, <2>1, <3>1, Zenon
    <3> QED
      BY <2>1, <3>2 DEF AddressInv
  <2>2. CASE pc' = "idle"
    BY <2>2 DEF AddressInv
  <2> QED
    BY <1>3, <2>1, <2>2
<1> QED
  BY <1>8, <1>9, <1>10, <1>11, <1>12, <1>13 DEF Inv

LEMMA RegisterKeeps ==
  ASSUME Inv, NEW accepted \in BOOLEAN, Register(accepted)
  PROVE  Inv'
<1>1. /\ UNCHANGED <<files, batch, call, addresses, rp, nonblocking, listening>>
      /\ pc = "epoll_ctl" /\ pc' = "idle" /\ sfd' = NoFd
      /\ AddFd(sfd, call, accepted)
      /\ held' = held \cup {sfd}
      /\ refused' = IF accepted THEN refused ELSE refused \cup {sfd}
  BY DEF Register, flagVars
<1>2. sfd \in Fds /\ sfd \notin held /\ files[sfd] = call
  BY <1>1 DEF Inv, AttemptInv, Attempt
<1>3. /\ interest = DOMAIN fdMap /\ interest \subseteq held /\ refused \subseteq held
      /\ sfd \in listening <=> call = "listen"
      /\ sfd \in nonblocking
      /\ listening \subseteq held \cup {sfd}
  BY <1>1 DEF Inv, FlagInv
<1>4. sfd \notin DOMAIN fdMap
  BY <1>2, <1>3
<1>5. /\ DOMAIN fdMap' = IF accepted THEN DOMAIN fdMap \cup {sfd} ELSE DOMAIN fdMap
      /\ \A f \in DOMAIN fdMap : fdMap'[f] = fdMap[f]
      /\ accepted => fdMap'[sfd] = call
      /\ interest' = DOMAIN fdMap'
  BY <1>1, <1>3, <1>4, AddFdValue
<1>6. TypeOK'
  BY <1>1, <1>2, <1>5 DEF Inv, TypeOK
<1>7. NothingLeaks'
  BY <1>1, <1>2, NoFdIsNone DEF Inv, TypeOK, NothingLeaks
<1>8. HeldAreReady'
  <2>1. \A fd \in held : fd # sfd /\ (fd \in DOMAIN fdMap' <=> fd \in DOMAIN fdMap)
    BY <1>2, <1>5
  <2> QED
    BY <1>1, <1>2, <1>3, <1>5, <2>1 DEF Inv, HeldAreReady
<1>9. AttemptInv' /\ AddressInv'
  BY <1>1 DEF AttemptInv, AddressInv, Attempt
<1>10. FlagInv'
  BY <1>1, <1>3, <1>5 DEF FlagInv
<1> QED
  BY <1>6, <1>7, <1>8, <1>9, <1>10 DEF Inv

LEMMA EndKeeps ==
  ASSUME Inv, NEW fd \in Fds, End(fd)
  PROVE  Inv'
<1>1. /\ UNCHANGED <<batch, pc, call, addresses, rp, sfd>>
      /\ pc = "idle" /\ fd \in held /\ EndFds({fd})
      /\ held' = held \ {fd} /\ refused' = refused \ {fd}
      /\ nonblocking' = nonblocking \ {fd} /\ listening' = listening \ {fd}
  BY DEF End
<1>2. sfd = NoFd /\ interest = DOMAIN fdMap
  BY <1>1 DEF Inv, AttemptInv, FlagInv, Attempt
<1>3. /\ files' = [f \in Fds |-> IF f \in {fd} THEN NoFile ELSE files[f]]
      /\ interest' = interest \ {fd}
      /\ DOMAIN fdMap' = DOMAIN fdMap \ {fd}
      /\ \A f \in DOMAIN fdMap \ {fd} : fdMap'[f] = fdMap[f]
  BY <1>1, <1>2 DEF EndFds, Without
<1>4. TypeOK'
  BY <1>1, <1>3 DEF Inv, TypeOK
<1>5. NothingLeaks'
  BY <1>1, <1>2, <1>3 DEF Inv, TypeOK, NothingLeaks
<1>6. HeldAreReady'
  <2> SUFFICES ASSUME NEW f \in held \ {fd}
               PROVE  /\ f \in nonblocking'
                      /\ f \in listening' <=> files'[f] = "listen"
                      /\ f \in DOMAIN fdMap' <=> f \notin refused'
                      /\ f \in interest' <=> f \notin refused'
                      /\ f \in DOMAIN fdMap' => fdMap'[f] = files'[f]
    BY <1>1 DEF HeldAreReady
  <2>1. f \in Fds /\ files'[f] = files[f]
    BY <1>3 DEF Inv, TypeOK
  <2> QED
    BY <1>1, <1>3, <2>1 DEF Inv, HeldAreReady
<1>7. AttemptInv' /\ AddressInv'
  BY <1>1, <1>2 DEF AttemptInv, AddressInv, Attempt
<1>8. FlagInv'
  BY <1>1, <1>2, <1>3 DEF Inv, FlagInv
<1> QED
  BY <1>4, <1>5, <1>6, <1>7, <1>8 DEF Inv

-----------------------------------------------------------------------------
LEMMA NextKeeps ==
  ASSUME Inv, [Next]_vars
  PROVE  Inv'
<1>1. CASE \E which \in {"listen", "connect", "accept"} : Call(which)
  BY <1>1, CallKeeps
<1>2. CASE \E fd \in Fds : End(fd)
  BY <1>2, EndKeeps
<1>3. CASE Resolve
  BY <1>3, ResolveKeeps
<1>4. CASE ResolveFails \/ AddressUsed \/ AddressesEnd \/ AcceptFails \/ NameFound
  BY <1>4, MovesKeep
<1>5. CASE SocketFails
  BY <1>5, SocketFailsKeeps
<1>6. CASE SocketOpens \/ Accept
  BY <1>6, OpensKeep
<1>7. CASE AddressFails \/ CallFails
  BY <1>7, FailsKeep
<1>8. CASE ListenStarts \/ SetNonblocking
  BY <1>8, MarksKeep
<1>9. CASE \E accepted \in BOOLEAN : Register(accepted)
  BY <1>9, RegisterKeeps
<1>10. CASE UNCHANGED vars
  <2>1. /\ UNCHANGED <<files, interest, fdMap, batch, pc, call, addresses, rp, sfd,
                       held, nonblocking, listening, refused>>
    BY <1>10 DEF vars, npollVars, flagVars
  <2>2. TypeOK' /\ AttemptInv' /\ FlagInv' /\ AddressInv'
    BY <2>1 DEF Inv, TypeOK, AttemptInv, FlagInv, AddressInv, Attempt, Free
  <2> QED
    BY <2>1, <2>2, Quiet
<1> QED
  BY <1>1, <1>2, <1>3, <1>4, <1>5, <1>6, <1>7, <1>8, <1>9, <1>10
     DEF Next, Steps

THEOREM Invariance == Spec => []Inv
<1>1. Init => Inv
  BY InitInv
<1>2. Inv /\ [Next]_vars => Inv'
  BY NextKeeps
<1> QED
  BY <1>1, <1>2, PTL DEF Spec

(* The variables keep their types.                                         *)
THEOREM Typing == Spec => []TypeOK
<1>1. Inv => TypeOK
  BY DEF Inv
<1> QED
  BY <1>1, Invariance, PTL

(* No error path of listen, connect or accept loses a descriptor.          *)
THEOREM NoLeak == Spec => []NothingLeaks
<1>1. Inv => NothingLeaks
  BY DEF Inv
<1> QED
  BY <1>1, Invariance, PTL

(* An NSock the caller gets does not block, and is watched unless epoll    *)
(* refused it.                                                             *)
THEOREM Ready == Spec => []HeldAreReady
<1>1. Inv => HeldAreReady
  BY DEF Inv
<1> QED
  BY <1>1, Invariance, PTL

(* The first usable address is the one taken.                              *)
THEOREM FirstUsable == Spec => NoAddressSkipped
<1>1. Inv /\ [Next]_vars => [TakesFirstUsable]_vars
  <2> SUFFICES ASSUME Inv, Next, pc \in {"socket", "bind or connect"}
               PROVE  /\ pc' = "getsockname" =>
                           \A i \in 1 .. rp - 1 : addresses[i] # "usable"
                      /\ pc' = "idle" =>
                           \/ Free' = {}
                           \/ \A i \in 1 .. Len(addresses) : addresses[i] # "usable"
    BY DEF TakesFirstUsable
  <2>1. CASE pc' = "getsockname"
    <3>1. AddressUsed
      BY <2>1 DEF Next, Steps, Call, End, Resolve, ResolveFails, SocketOpens,
         SocketFails, AddressFails, AddressesEnd, Accept, AcceptFails, NameFound,
         ListenStarts, SetNonblocking, CallFails, Register
    <3>2. pc = "bind or connect"
      BY <3>1 DEF AddressUsed
    <3> QED
      BY <2>1, <3>2 DEF Inv, AddressInv
  <2>2. CASE pc' = "idle"
    <3>1. AddressesEnd
      BY <2>2 DEF Next, Steps, Call, End, Resolve, ResolveFails, SocketOpens,
         SocketFails, AddressUsed, AddressFails, Accept, AcceptFails, NameFound,
         ListenStarts, SetNonblocking, CallFails, Register
    <3>2. pc = "socket" /\ rp > Len(addresses) /\ files' = files
      BY <3>1 DEF AddressesEnd
    <3>3. Free' = Free
      BY <3>2 DEF Free
    <3>4. Len(addresses) \in Nat /\ rp \in Nat /\ 1 <= rp /\ rp <= Len(addresses) + 1
      BY AddressRange
    <3>5. \A i \in 1 .. Len(addresses) : i \in 1 .. rp - 1
      BY <3>2, <3>4
    <3> QED
      BY <2>2, <3>2, <3>3, <3>5 DEF Inv, AddressInv
  <2> QED
    BY <2>1, <2>2
<1> QED
  BY <1>1, Invariance, PTL DEF Spec, NoAddressSkipped

=============================================================================
