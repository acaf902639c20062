-------------------------- MODULE FdRegistryProofs --------------------------
(***************************************************************************)
(* What FdRegistry promises, for any number of clients, acquisitions and   *)
(* descriptor numbers.  TypeOK and the three safety invariants follow from *)
(* IInv; NeverClosesForeign follows from IInv as well, because every close *)
(* of the library is aimed at a number its invariant says is the library's.*)
(***************************************************************************)
EXTENDS FdRegistry, TLAPS

\* Stages in which the registry still may hold an entry for the token.
HasEntry == {"retained", "unposted", "posted", "lost", "refused", "live"}

\* An acquisition's number is the one it is open under, and only that one.
OpenIsNumber ==
    \A t \in Acquires, f \in Fds : open[f] = t => number[t] = f

\* Before the registry knows a descriptor, its UnixFd or its caller does.
HeldIsOpen ==
    \A t \in Acquires : stage[t] \in {"reply", "raw", "live"} =>
        number[t] \in Fds /\ open[number[t]] = t

\* Registry entries are the numbers of acquisitions past retain_fd.
EntryIsNumber ==
    \A t \in Acquires : fds[t] # None =>
        fds[t] = number[t] /\ open[number[t]] = t /\ stage[t] \in HasEntry

\* An acquisition made by a worker knows its client, which outlives the work.
MadeByClient ==
    \A t \in Acquires :
        /\ stage[t] \in HasEntry \cup {"reply", "closed"} => by[t] \in Clients
        /\ stage[t] \in {"none", "raw"} => by[t] = None
        /\ stage[t] \in AtWorker => client[by[t]] # "destroyed"

\* A pending token belongs to the client it is pending on, and nobody has
\* claimed it.
PendingUnclaimed ==
    \A c \in Clients : \A t \in pending[c] :
        by[t] = c /\ stage[t] \notin {"none", "reply", "raw", "live", "closed"}

\* An entry nobody has claimed is pending until its client is destroyed.
UnclaimedIsPending ==
    \A t \in Acquires :
        fds[t] # None /\ stage[t] # "live" =>
            client[by[t]] # "destroyed" /\ t \in pending[by[t]]

\* A claimed result keeps its entry.
LiveHasEntry == \A t \in Acquires : stage[t] = "live" => fds[t] # None

\* No descriptor is left open behind an acquisition that is over.
OpenIsHeld ==
    \A t \in Acquires, f \in Fds :
        open[f] = t => stage[t] \in {"reply", "raw"} \/ fds[t] # None

IInv ==
    /\ TypeOK
    /\ OpenIsNumber /\ HeldIsOpen /\ EntryIsNumber /\ MadeByClient
    /\ PendingUnclaimed /\ UnclaimedIsPending /\ LiveHasEntry /\ OpenIsHeld
----------------------------------------------------------------------------
\* Every action keeps the variables in their types.
LEMMA TypeStep == ASSUME TypeOK, [Next]_vars PROVE TypeOK'
<1> USE FdAssumption DEF TypeOK, Stages, AtWorker
<1>1. ASSUME NEW c \in Clients, Retire(c) PROVE TypeOK'
  BY <1>1 DEF Retire
<1>2. ASSUME NEW c \in Clients, DestroyClient(c) PROVE TypeOK'
  BY <1>2 DEF DestroyClient, Closed
<1>3. ASSUME NEW c \in Clients, NEW t \in Acquires, NEW f \in Fds, AcquireReply(c, t, f) PROVE TypeOK'
  BY <1>3 DEF AcquireReply
<1>4. ASSUME NEW c \in Clients, NEW t \in Acquires, NEW f \in Fds, AcquireRaw(c, t, f) PROVE TypeOK'
  BY <1>4 DEF AcquireRaw
<1>5. ASSUME NEW t \in Acquires, ReplyFails(t) PROVE TypeOK'
  BY <1>5 DEF ReplyFails, Closed
<1>6. ASSUME NEW t \in Acquires, RetainFd(t) PROVE TypeOK'
  BY <1>6, ZenonT(60) DEF RetainFd
<1>7. ASSUME NEW t \in Acquires, PostResult(t) PROVE TypeOK'
  BY <1>7 DEF PostResult
<1>8. ASSUME NEW t \in Acquires, Claim(t) PROVE TypeOK'
  BY <1>8 DEF Claim
<1>9. ASSUME NEW t \in Acquires, ClaimRefused(t) PROVE TypeOK'
  BY <1>9 DEF ClaimRefused
<1>10. ASSUME NEW t \in Acquires, LoseAnswer(t) PROVE TypeOK'
  BY <1>10 DEF LoseAnswer
<1>11. ASSUME NEW t \in Acquires, GiveBack(t) PROVE TypeOK'
  BY <1>11 DEF GiveBack, ReleaseToken, Closed, Unpend
<1>12. ASSUME NEW t \in Acquires, Finalize(t) PROVE TypeOK'
  BY <1>12 DEF Finalize, ReleaseToken, Closed, Unpend
<1>13. ASSUME NEW t \in Acquires, CloseFd(t) PROVE TypeOK'
  BY <1>13 DEF CloseFd, Closed, Unpend
<1>14. ASSUME NEW f \in Fds, ForeignOpen(f) PROVE TypeOK'
  BY <1>14 DEF ForeignOpen
<1>15. ASSUME NEW f \in Fds, ForeignClose(f) PROVE TypeOK'
  BY <1>15 DEF ForeignClose
<1>16. CASE UNCHANGED vars
  BY <1>16 DEF vars
<1> QED
  BY <1>1, <1>2, <1>3, <1>4, <1>5, <1>6, <1>7, <1>8, <1>9, <1>10, <1>11, <1>12, <1>13, <1>14, <1>15, <1>16 DEF Next, Settle

\* Every action preserves the inductive invariant.
LEMMA InvStep == ASSUME IInv, [Next]_vars PROVE IInv'
<1>0. TypeOK'
  BY TypeStep DEF IInv
<1> USE FdAssumption
    DEF TypeOK, Stages, AtWorker, HasEntry, IInv, OpenIsNumber, HeldIsOpen,
        EntryIsNumber, MadeByClient, PendingUnclaimed, UnclaimedIsPending,
        LiveHasEntry, OpenIsHeld
<1>1. ASSUME NEW c \in Clients, Retire(c) PROVE IInv'
  BY <1>0, <1>1 DEF Retire
<1>2. ASSUME NEW c \in Clients, DestroyClient(c) PROVE IInv'
  BY <1>0, <1>2 DEF DestroyClient, Closed
<1>3. ASSUME NEW c \in Clients, NEW t \in Acquires, NEW f \in Fds, AcquireReply(c, t, f) PROVE IInv'
  BY <1>0, <1>3 DEF AcquireReply
<1>4. ASSUME NEW c \in Clients, NEW t \in Acquires, NEW f \in Fds, AcquireRaw(c, t, f) PROVE IInv'
  BY <1>0, <1>4 DEF AcquireRaw
<1>5. ASSUME NEW t \in Acquires, ReplyFails(t) PROVE IInv'
  BY <1>0, <1>5 DEF ReplyFails, Closed
<1>6. ASSUME NEW t \in Acquires, RetainFd(t) PROVE IInv'
  BY <1>0, <1>6 DEF RetainFd
<1>7. ASSUME NEW t \in Acquires, PostResult(t) PROVE IInv'
  BY <1>0, <1>7 DEF PostResult
<1>8. ASSUME NEW t \in Acquires, Claim(t) PROVE IInv'
  BY <1>0, <1>8 DEF Claim
<1>9. ASSUME NEW t \in Acquires, ClaimRefused(t) PROVE IInv'
  BY <1>0, <1>9 DEF ClaimRefused
<1>10. ASSUME NEW t \in Acquires, LoseAnswer(t) PROVE IInv'
  BY <1>0, <1>10 DEF LoseAnswer
<1>11. ASSUME NEW t \in Acquires, GiveBack(t) PROVE IInv'
  BY <1>0, <1>11, SMTT(30) DEF GiveBack, ReleaseToken, Closed, Unpend
<1>12. ASSUME NEW t \in Acquires, Finalize(t) PROVE IInv'
  BY <1>0, <1>12 DEF Finalize, ReleaseToken, Closed, Unpend
<1>13. ASSUME NEW t \in Acquires, CloseFd(t) PROVE IInv'
  BY <1>0, <1>13 DEF CloseFd, Closed, Unpend
<1>14. ASSUME NEW f \in Fds, ForeignOpen(f) PROVE IInv'
  BY <1>0, <1>14 DEF ForeignOpen
<1>15. ASSUME NEW f \in Fds, ForeignClose(f) PROVE IInv'
  BY <1>0, <1>15 DEF ForeignClose
<1>16. CASE UNCHANGED vars
  BY <1>16 DEF vars
<1> QED
  BY <1>1, <1>2, <1>3, <1>4, <1>5, <1>6, <1>7, <1>8, <1>9, <1>10, <1>11, <1>12, <1>13, <1>14, <1>15, <1>16 DEF Next, Settle

\* The program starts in the inductive invariant.
LEMMA InvInit == Init => IInv
  BY FdAssumption DEF Init, IInv, TypeOK, Stages, AtWorker, HasEntry,
     OpenIsNumber, HeldIsOpen, EntryIsNumber, MadeByClient, PendingUnclaimed,
     UnclaimedIsPending, LiveHasEntry, OpenIsHeld

\* Tokens, numbers and owners stay of their kinds in every registry operation.
THEOREM TypeCorrect == Spec => []TypeOK
<1>1. Init => TypeOK
  BY InvInit DEF IInv
<1>2. TypeOK /\ [Next]_vars => TypeOK'
  BY TypeStep
<1> QED
  BY <1>1, <1>2, PTL DEF Spec

\* Who owns a descriptor always follows from its acquisition's stage, the
\* registry's entry and the client's pending set (the conjuncts of IInv).
THEOREM Invariance == Spec => []IInv
<1>1. IInv /\ [Next]_vars => IInv'
  BY InvStep
<1> QED
  BY InvInit, <1>1, PTL DEF Spec

\* Each entry of the registry is an open descriptor, still the one acquired,
\* and one handed to its owner stays open until that owner closes it or is
\* collected (retain_fd, bluez_media_claim_fd, bluez_media_release_fd_token).
THEOREM Ownership == Spec => []RegistryOwns
<1>1. IInv => RegistryOwns
  BY DEF IInv, TypeOK, RegistryOwns, HeldIsOpen, EntryIsNumber
<1> QED
  BY <1>1, Invariance, PTL

\* Every descriptor the library opened and still has open is held by a live
\* token, an answer on its way or a client that will close it: none leaks,
\* whatever number of clients, acquisitions and descriptors the process has.
THEOREM NoneLeaks == Spec => []NoOrphan
<1>1. IInv => NoOrphan
  <2> SUFFICES ASSUME IInv, NEW t \in Acquires, IsOpen(t),
                      stage[t] \notin {"reply", "raw"}
               PROVE  /\ fds[t] # None
                      /\ \/ stage[t] \in {"live", "unposted", "refused"}
                         \/ client[by[t]] # "destroyed" /\ t \in pending[by[t]]
    BY DEF NoOrphan
  <2>1. fds[t] # None
    BY DEF IInv, IsOpen, OpenIsHeld
  <2> QED
    BY <2>1 DEF IInv, UnclaimedIsPending
<1> QED
  BY <1>1, Invariance, PTL

\* NeverClosesForeign: each number the library closes is open under one of its
\* own acquisitions at that moment, so the descriptor another part of the
\* process got under a reused number is left alone.
THEOREM ForeignUntouched == Spec => NeverClosesForeign
<1>1. ASSUME IInv, [Next]_vars
      PROVE  [\A f \in Fds : open[f] = Foreign /\ open'[f] # Foreign
                => UNCHANGED <<client, stage, fds, pending>>]_vars
  <2> SUFFICES ASSUME NEW g \in Fds, open[g] = Foreign, open'[g] # Foreign
               PROVE  UNCHANGED <<client, stage, fds, pending>>
    OBVIOUS
  <2> USE <1>1, FdAssumption
      DEF IInv, TypeOK, Stages, HeldIsOpen, EntryIsNumber, LiveHasEntry
  <2>1. ASSUME NEW c \in Clients, Retire(c) \/ DestroyClient(c)
        PROVE  open'[g] = Foreign
    BY <2>1 DEF Retire, DestroyClient, Closed
  <2>2. ASSUME NEW c \in Clients, NEW t \in Acquires, NEW f \in Fds,
               AcquireReply(c, t, f) \/ AcquireRaw(c, t, f)
        PROVE  open'[g] = Foreign
    BY <2>2 DEF AcquireReply, AcquireRaw
  <2>3. ASSUME NEW t \in Acquires, Settle(t)
        PROVE  open'[g] = Foreign
    BY <2>3 DEF Settle, ReplyFails, RetainFd, PostResult, Claim, ClaimRefused,
                LoseAnswer, GiveBack, ReleaseToken, Closed
  <2>4. ASSUME NEW t \in Acquires, Finalize(t) \/ CloseFd(t)
        PROVE  open'[g] = Foreign
    <3>1. CASE Finalize(t)
      BY <3>1 DEF Finalize, ReleaseToken, Closed
    <3>2. CASE CloseFd(t)
      <4>1. open[number[t]] = t /\ open' = Closed({number[t]})
        BY <3>2 DEF CloseFd
      <4> QED
        BY <4>1 DEF Closed
    <3> QED
      BY <2>4, <3>1, <3>2
  <2>5. CASE UNCHANGED vars
    BY <2>5 DEF vars
  <2>6. ASSUME NEW f \in Fds, ForeignOpen(f) \/ ForeignClose(f)
        PROVE  UNCHANGED <<client, stage, fds, pending>>
    BY <2>6 DEF ForeignOpen, ForeignClose
  <2> QED
    BY <2>1, <2>2, <2>3, <2>4, <2>5, <2>6 DEF Next
<1> QED
  BY <1>1, Invariance, PTL DEF Spec, NeverClosesForeign

=============================================================================
