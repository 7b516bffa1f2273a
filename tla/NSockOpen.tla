------------------------------- MODULE NSockOpen -------------------------------
(***************************************************************************)
(* How an NSock comes into being: NSock::listen and NSock::connect with    *)
(* their loop over the addresses of a host, onAcceptCb, and setnonblocking *)
(* in each of them, one system call per step.  EchoServer and EchoClient   *)
(* take such a call as one step.  The caller is any program of one thread: *)
(* it makes the calls one after the other and ends what it was given.      *)
(***************************************************************************)
EXTENDS NPoll, Sequences

CONSTANT MaxAddresses   \* bound: addresses that a host resolves to

ASSUME MaxAddressesAssumption == MaxAddresses \in Nat \ {0}

VARIABLES
  pc,               \* "idle" or the system call that is next
  call,             \* which of the three runs, or ran last; names its sockets
  addresses,        \* what each address is good for
  rp,               \* the one the loop is at
  sfd,
  held,             \* the descriptors of the NSocks the caller has
  nonblocking,      \* those with O_NONBLOCK
  listening,        \* those that listen
  refused           \* those epoll_ctl refused

flagVars == <<nonblocking, listening>>
vars == <<files, npollVars, pc, call, addresses, rp, sfd, held, flagVars,
          refused>>

(* No socket of the family, or none that binds or connects, or a good one. *)
Uses == {"no socket", "unusable", "usable"}

Init ==
  /\ NPollInit
  /\ pc = "idle" /\ call = "listen"
  /\ addresses = <<>> /\ rp = 1 /\ sfd = NoFd
  /\ held = {} /\ nonblocking = {} /\ listening = {} /\ refused = {}

-----------------------------------------------------------------------------
(* The caller.                                                             *)

Call(which) ==
  /\ pc = "idle"
  /\ which = "accept" => held \cap listening \cap interest # {}
  /\ call' = which
  /\ addresses' = <<>> /\ rp' = 1
  /\ pc' = IF which = "accept" THEN "accept" ELSE "getaddrinfo"
  /\ UNCHANGED <<files, npollVars, sfd, held, flagVars, refused>>

(* NSock::end of the caller, or the destructor.                            *)
End(fd) ==
  /\ pc = "idle" /\ fd \in held
  /\ EndFds({fd})
  /\ held' = held \ {fd} /\ refused' = refused \ {fd}
  /\ nonblocking' = nonblocking \ {fd} /\ listening' = listening \ {fd}
  /\ UNCHANGED <<batch, pc, call, addresses, rp, sfd>>

-----------------------------------------------------------------------------
(* listen and connect: the loop over the addresses.                        *)

(* getaddrinfo; its failure is thrown.                                     *)
Resolve ==
  /\ pc = "getaddrinfo"
  /\ \E n \in 1 .. MaxAddresses : addresses' \in [1 .. n -> Uses]
  /\ pc' = "socket"
  /\ UNCHANGED <<files, npollVars, call, rp, sfd, held, flagVars, refused>>

ResolveFails ==
  /\ pc = "getaddrinfo"
  /\ pc' = "idle"
  /\ UNCHANGED <<files, npollVars, call, addresses, rp, sfd, held,
                 flagVars, refused>>

(* A socket of that address's family.                                      *)
SocketOpens ==
  /\ pc = "socket" /\ rp <= Len(addresses)
  /\ addresses[rp] # "no socket" /\ Free # {}
  /\ sfd' = Lowest
  /\ files' = [files EXCEPT ![Lowest] = call]
  /\ pc' = "bind or connect"
  /\ UNCHANGED <<npollVars, call, addresses, rp, held, flagVars, refused>>

SocketFails ==
  /\ pc = "socket" /\ rp <= Len(addresses)
  /\ addresses[rp] = "no socket" \/ Free = {}
  /\ rp' = rp + 1
  /\ UNCHANGED <<files, npollVars, pc, call, addresses, sfd, held,
                 flagVars, refused>>

AddressUsed ==
  /\ pc = "bind or connect" /\ addresses[rp] = "usable"
  /\ pc' = "getsockname"
  /\ UNCHANGED <<files, npollVars, call, addresses, rp, sfd, held,
                 flagVars, refused>>

(* Faulty variants: the descriptor is forgotten; the same address again;   *)
(* the first failure is the last.                                          *)
AddressFailsOpen ==
  /\ pc = "bind or connect" /\ addresses[rp] # "usable"
  /\ sfd' = NoFd /\ rp' = rp + 1
  /\ pc' = "socket"
  /\ UNCHANGED <<files, npollVars, call, addresses, held, flagVars,
                 refused>>

AddressFailsAgain ==
  /\ pc = "bind or connect" /\ addresses[rp] # "usable"
  /\ files' = [files EXCEPT ![sfd] = NoFile]
  /\ sfd' = NoFd
  /\ pc' = "socket"
  /\ UNCHANGED <<npollVars, call, addresses, rp, held, flagVars, refused>>

AddressFailsForAll ==
  /\ pc = "bind or connect" /\ addresses[rp] # "usable"
  /\ files' = [files EXCEPT ![sfd] = NoFile]
  /\ sfd' = NoFd /\ rp' = rp + 1
  /\ pc' = "idle"
  /\ UNCHANGED <<npollVars, call, addresses, held, flagVars, refused>>

(* bind or connect fails: the next address, with a socket of its own.      *)
AddressFails ==
  /\ pc = "bind or connect" /\ addresses[rp] # "usable"
  /\ files' = [files EXCEPT ![sfd] = NoFile]
  /\ sfd' = NoFd /\ rp' = rp + 1
  /\ pc' = "socket"
  /\ UNCHANGED <<npollVars, call, addresses, held, flagVars, refused>>

(* Faulty variant: the end of the list is taken for success.               *)
AddressesEndUnseen ==
  /\ pc = "socket" /\ rp > Len(addresses)
  /\ pc' = "getsockname"
  /\ UNCHANGED <<files, npollVars, call, addresses, rp, sfd, held,
                 flagVars, refused>>

(* No address is left: listen throws, connect returns null.                *)
AddressesEnd ==
  /\ pc = "socket" /\ rp > Len(addresses)
  /\ pc' = "idle"
  /\ UNCHANGED <<files, npollVars, call, addresses, rp, sfd, held,
                 flagVars, refused>>

-----------------------------------------------------------------------------
(* onAcceptCb: one accept.                                                 *)
Accept ==
  /\ pc = "accept" /\ Free # {}
  /\ sfd' = Lowest
  /\ files' = [files EXCEPT ![Lowest] = call]
  /\ pc' = "getsockname"
  /\ UNCHANGED <<npollVars, call, addresses, rp, held, flagVars, refused>>

AcceptFails ==
  /\ pc = "accept"
  /\ pc' = "idle"
  /\ UNCHANGED <<files, npollVars, call, addresses, rp, sfd, held,
                 flagVars, refused>>

-----------------------------------------------------------------------------
(* What the three have in common.                                          *)

NameFound ==
  /\ pc = "getsockname"
  /\ pc' = IF call = "listen" THEN "listen" ELSE "fcntl"
  /\ UNCHANGED <<files, npollVars, call, addresses, rp, sfd, held,
                 flagVars, refused>>

ListenStarts ==
  /\ pc = "listen"
  /\ listening' = listening \cup {sfd}
  /\ pc' = "fcntl"
  /\ UNCHANGED <<files, npollVars, call, addresses, rp, sfd, held,
                 nonblocking, refused>>

(* Both fcntl of setnonblocking.                                           *)
SetNonblocking ==
  /\ pc = "fcntl"
  /\ nonblocking' = nonblocking \cup {sfd}
  /\ pc' = "epoll_ctl"
  /\ UNCHANGED <<files, npollVars, call, addresses, rp, sfd, held,
                 listening, refused>>

(* Faulty variant: only getsockname and listen are looked at.              *)
CallFailsUnlessFcntl ==
  /\ pc \in {"getsockname", "listen", "fcntl"}
  /\ IF pc = "fcntl" THEN pc' = "epoll_ctl" /\ UNCHANGED <<files, sfd, listening>>
     ELSE /\ files' = [files EXCEPT ![sfd] = NoFile]
          /\ sfd' = NoFd /\ listening' = listening \ {sfd}
          /\ pc' = "idle"
  /\ UNCHANGED <<npollVars, call, addresses, rp, held, nonblocking,
                 refused>>

(* getsockname, listen or fcntl fails: closed, and null is returned.       *)
CallFails ==
  /\ pc \in {"getsockname", "listen", "fcntl"}
  /\ files' = [files EXCEPT ![sfd] = NoFile]
  /\ sfd' = NoFd /\ listening' = listening \ {sfd}
  /\ pc' = "idle"
  /\ UNCHANGED <<npollVars, call, addresses, rp, held, nonblocking,
                 refused>>

(* The NSock is made, added to the loop, and handed to the caller: also if *)
(* epoll refused it, since npollAddFd answers 0.                           *)
Register(accepted) ==
  /\ pc = "epoll_ctl"
  /\ AddFd(sfd, call, accepted)
  /\ refused' = IF accepted THEN refused ELSE refused \cup {sfd}
  /\ held' = held \cup {sfd} /\ sfd' = NoFd
  /\ pc' = "idle"
  /\ UNCHANGED <<files, batch, call, addresses, rp, flagVars>>

-----------------------------------------------------------------------------
Steps ==
  \/ Resolve \/ ResolveFails
  \/ SocketOpens \/ SocketFails \/ AddressUsed \/ AddressFails \/ AddressesEnd
  \/ Accept \/ AcceptFails
  \/ NameFound \/ ListenStarts \/ SetNonblocking \/ CallFails
  \/ \E accepted \in BOOLEAN : Register(accepted)

Next ==
  \/ \E which \in {"listen", "connect", "accept"} : Call(which)
  \/ \E fd \in Fds : End(fd)
  \/ Steps

Spec == Init /\ [][Next]_vars

(* The kernel answers each system call, a blocking connect included.       *)
FairSpec == Spec /\ WF_vars(Steps)

-----------------------------------------------------------------------------
(* The shape of the state.                                                 *)
TypeOK ==
  /\ files \in [Fds -> {NoFile, "listen", "connect", "accept"}]
  /\ interest \subseteq Fds
  /\ DOMAIN fdMap \subseteq Fds
  /\ batch = {}
  /\ pc \in {"idle", "getaddrinfo", "socket", "bind or connect", "accept",
             "getsockname", "listen", "fcntl", "epoll_ctl"}
  /\ call \in {"listen", "connect", "accept"}
  /\ addresses \in Seq(Uses) /\ rp \in 1 .. Len(addresses) + 1
  /\ sfd \in Fds \cup {NoFd}
  /\ held \subseteq Fds /\ nonblocking \subseteq Fds /\ listening \subseteq Fds
  /\ refused \subseteq Fds

(* Every open descriptor belongs to an NSock of the caller or to the call  *)
(* that runs, and none of these is closed: whichever system call failed,   *)
(* at whichever address, the descriptor of the attempt was closed once.    *)
NothingLeaks ==
  /\ {fd \in Fds : files[fd] # NoFile} = held \cup ({sfd} \ {NoFd})
  /\ sfd \notin held
  /\ pc = "idle" => sfd = NoFd

(* An NSock the caller gets never blocks the loop; it listens if and only  *)
(* if listen made it; and the loop has a callback of its own kind for it,  *)
(* unless epoll refused it, whatever the descriptor was used for before.   *)
HeldAreReady ==
  \A fd \in held :
    /\ fd \in nonblocking
    /\ fd \in listening <=> files[fd] = "listen"
    /\ fd \in DOMAIN fdMap <=> fd \notin refused
    /\ fd \in interest <=> fd \notin refused
    /\ fd \in DOMAIN fdMap => fdMap[fd] = files[fd]

(* The address taken is the first usable one; and the loop ends without a  *)
(* socket only if none was usable or no descriptor was free.               *)
TakesFirstUsable ==
  pc \in {"socket", "bind or connect"} =>
    /\ pc' = "getsockname" => \A i \in 1 .. rp - 1 : addresses[i] # "usable"
    /\ pc' = "idle" =>
         \/ Free' = {}
         \/ \A i \in 1 .. Len(addresses) : addresses[i] # "usable"

NoAddressSkipped == [][TakesFirstUsable]_vars

(* Each call returns, however many addresses fail.                         *)
CallReturns == pc # "idle" ~> pc = "idle"

=============================================================================
