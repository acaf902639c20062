------------------------ MODULE CoverArtFetchesProofs ------------------------
(***************************************************************************)
(* What the two kinds of cover-art requests promise.                       *)
(*                                                                         *)
(* CoverArtTransfers, for any number of requests, transfers and faults of  *)
(* obexd: the transfer and the file a request leaves behind are accounted  *)
(* for, and a success is an image.                                         *)
(*                                                                         *)
(* MprisArt, for any names, files and bounds: the search is right because  *)
(* a name is given up only for what its player shows; the reading is right *)
(* because a descriptor stays with its file.                               *)
(***************************************************************************)
EXTENDS CoverArtTransfers, MprisArt, TLAPS

----------------------------------------------------------------------------
(* CoverArtTransfers                                                       *)

\* Only a reply or a Cancel that was lost leaves a stray transfer.
StrayIsLost == stray # {} => lost

\* The request in progress has no answer yet, and no earlier one succeeded.
NothingAnswered ==
    call # None => /\ result[call.id] = "waiting"
                   /\ \A f \in Fetches : result[f] # "success"

\* A request knows a transfer exactly while it waits for one.
MineWhileWaiting ==
    call # None => (call.mine # None <=> call.at \in {"waitThumbnail", "waitImage"})

IInv ==
    /\ TypeOK /\ RunningIsOurs /\ FileIsAnswer
    /\ StrayIsLost /\ NothingAnswered /\ MineWhileWaiting
----------------------------------------------------------------------------
(* What the helpers do to the types                                        *)

LEMMA ReleasedType ==
  ASSUME TypeOK, NEW S \in SUBSET Transfers
  PROVE  Released(S) \in File \cup {None}
BY DEF TypeOK, Released, File

\* A released file is still there.
LEMMA ReleasedThere ==
  ASSUME TypeOK, NEW S \in SUBSET Transfers
  PROVE  Released(S) = None <=> file = None
<1>1. CASE file = None
  BY <1>1 DEF Released
<1>2. CASE file \in File
  <2>1. Released(S) \in File
    BY <1>2, NoneAssumption DEF Released, File
  <2> QED BY <1>2, <2>1, NoneAssumption
<1> QED BY <1>1, <1>2 DEF TypeOK

LEMMA GoType ==
  ASSUME TypeOK, call \in Call, NEW place \in Places, Go(place)
  PROVE  call' \in Call
BY DEF TypeOK, Go, Call

LEMMA ReturnType ==
  ASSUME TypeOK, call \in Call, NEW outcome \in Results, Return(outcome),
         outcome = "success" => call.mine \in Transfers
  PROVE  /\ call' \in Call \cup {None}
         /\ result' \in [Fetches -> Results]
         /\ file' \in File \cup {None}
<1>1. CASE outcome = "success"
  BY <1>1, ReleasedType DEF TypeOK, Return, Call
<1>2. CASE outcome # "success"
  BY <1>2 DEF TypeOK, Return, Call
<1> QED BY <1>1, <1>2

LEMMA CallFailsType ==
  ASSUME TypeOK, CallFails
  PROVE  expired' \in BOOLEAN /\ faults' \in 0..MaxFaults
<1>1. expired' \in BOOLEAN
  BY DEF TypeOK, CallFails
<1>2. faults' \in 0..MaxFaults
  BY TransferAssumption DEF TypeOK, CallFails
<1> QED BY <1>1, <1>2

LEMMA NoTimeLeftType == ASSUME TypeOK, call \in Call, NoTimeLeft PROVE TypeOK'
BY ReturnType DEF TypeOK, NoTimeLeft, Results

LEMMA ThrowsType == ASSUME TypeOK, call \in Call, Throws PROVE TypeOK'
BY ReturnType, CallFailsType DEF TypeOK, Throws, Results

LEMMA NotFoundType == ASSUME TypeOK, call \in Call, NotFound PROVE TypeOK'
BY ReturnType DEF TypeOK, NotFound, Results

LEMMA MakeType ==
  ASSUME TypeOK, call \in Call, NEW x \in Transfers, Make(x)
  PROVE  transfers' \in [Transfers -> Transfer \cup {None}]
BY TransferAssumption DEF TypeOK, Make, Transfer, Call

LEMMA RequestType ==
  ASSUME TypeOK, call \in Call, NEW wait \in Places, NEW next \in Places,
         Request(wait, next)
  PROVE  TypeOK'
<1>1. ASSUME NEW x \in Transfers, NEW s \in BOOLEAN, Make(x),
             call' = [call EXCEPT !.at = wait, !.sized = s, !.mine = x],
             UNCHANGED <<expired, result, file, stray, lost, faults>>
      PROVE  TypeOK'
  <2>1. call' \in Call
    BY <1>1 DEF TypeOK, Call
  <2> QED BY <1>1, <2>1, MakeType DEF TypeOK
<1>2. ASSUME call' = [call EXCEPT !.at = next, !.error = TRUE]
      PROVE  call' \in Call
  BY <1>2 DEF TypeOK, Call
<1>3. ASSUME CallFails, call' = [call EXCEPT !.at = next, !.error = TRUE],
             file' = None, UNCHANGED <<transfers, stray, lost, result>>
      PROVE  TypeOK'
  BY <1>2, <1>3, CallFailsType DEF TypeOK
<1>4. ASSUME NEW x \in Transfers, Make(x), stray' = stray \cup {x},
             expired' = TRUE, lost' = TRUE,
             call' = [call EXCEPT !.at = next, !.error = TRUE],
             file' = None, UNCHANGED <<result, faults>>
      PROVE  TypeOK'
  BY <1>2, <1>4, MakeType DEF TypeOK
<1> QED BY <1>1, <1>3, <1>4, NoTimeLeftType DEF Request

LEMMA GiveUpType ==
  ASSUME TypeOK, call \in Call, NEW next \in Places, GiveUp(next)
  PROVE  /\ call' \in Call \cup {None}
         /\ result' \in [Fetches -> Results]
         /\ file' \in File \cup {None}
BY DEF TypeOK, GiveUp, Call

LEMMA CancelType ==
  ASSUME TypeOK, NEW x \in Transfers, Cancel(x)
  PROVE  /\ transfers' \in [Transfers -> Transfer \cup {None}]
         /\ stray' \subseteq Transfers /\ lost' \in BOOLEAN
         /\ faults' \in 0..MaxFaults
<1>1. faults' \in 0..MaxFaults
  BY TransferAssumption DEF TypeOK, Cancel
<1>2. transfers' \in [Transfers -> Transfer \cup {None}]
  BY DEF TypeOK, Cancel
<1>3. stray' \subseteq Transfers /\ lost' \in BOOLEAN
  BY DEF TypeOK, Cancel
<1> QED BY <1>1, <1>2, <1>3

LEMMA WaitType ==
  ASSUME TypeOK, call \in Call, call.mine \in Transfers, NEW next \in Places,
         Wait(next)
  PROVE  TypeOK'
<1>1. ASSUME Return("success") \/ Return("timeout") \/ GiveUp(next)
      PROVE  /\ call' \in Call \cup {None}
             /\ result' \in [Fetches -> Results]
             /\ file' \in File \cup {None}
  BY <1>1, ReturnType, GiveUpType DEF Results
<1>2. ASSUME transfers' = [transfers EXCEPT ![call.mine] = None]
      PROVE  transfers' \in [Transfers -> Transfer \cup {None}]
  BY <1>2 DEF TypeOK
<1>3. ASSUME Cancel(call.mine)
      PROVE  /\ transfers' \in [Transfers -> Transfer \cup {None}]
             /\ stray' \subseteq Transfers /\ lost' \in BOOLEAN
             /\ faults' \in 0..MaxFaults
  BY <1>3, CancelType
<1> QED BY <1>1, <1>2, <1>3 DEF TypeOK, Wait

\* A piece that is written keeps the file what it is, if it is still there.
LEMMA WriteType ==
  ASSUME TypeOK, NEW x \in Transfers, Write(x)
  PROVE  file' \in File \cup {None} /\ (file' = None <=> file = None)
<1>1. CASE file = None
  BY <1>1 DEF Write
<1>2. CASE file \in File /\ x \notin file.open
  BY <1>2 DEF Write
<1>3. CASE file \in File /\ x \in file.open
  <2>1. transfers[x] \in Transfer
    BY DEF TypeOK, Write, Running, Status
  <2>2. transfers[x].written + 1 \in 0..Size
    BY <2>1, TransferAssumption DEF Write, Transfer
  <2>3. file # None
    BY <1>3, NoneAssumption
  <2>4. file' \in File
    BY <1>3, <2>2, <2>3 DEF Write, File
  <2> QED BY <2>3, <2>4, NoneAssumption
<1> QED BY <1>1, <1>2, <1>3 DEF TypeOK

----------------------------------------------------------------------------
\* Every action keeps the variables in their types.
LEMMA TypeStep == ASSUME IInv, [Next]_vars PROVE TypeOK'
<1> TypeOK
  BY DEF IInv
<1>a. ASSUME NEW place, At(place) PROVE call \in Call /\ call.at = place
  BY <1>a DEF TypeOK, At
<1>1. ASSUME NEW f \in Fetches, Begin(f) PROVE TypeOK'
  <2>1. call' \in Call
    BY <1>1 DEF Begin, Call, Places
  <2> QED BY <1>1, <2>1 DEF TypeOK, Begin, obex
<1>2. ASSUME NEW f \in Fetches, Reject(f) PROVE TypeOK'
  BY <1>2 DEF TypeOK, Reject, obex, Results
<1>3. CASE ReadSource
  <2>1. ASSUME NEW h \in BOOLEAN,
               call' = [call EXCEPT !.at = "address", !.handle = h]
        PROVE  call' \in Call
    BY <1>3, <1>a, <2>1 DEF ReadSource, Call, Places
  <2> QED BY <1>3, <1>a, <2>1, NotFoundType, NoTimeLeftType, ThrowsType
          DEF ReadSource, TypeOK, obex
<1>4. CASE ReadAddress
  <2>1. Go("session") => call' \in Call
    BY <1>4, <1>a, GoType DEF ReadAddress, Places
  <2> QED BY <1>4, <1>a, <2>1, NotFoundType, NoTimeLeftType, ThrowsType
          DEF ReadAddress, TypeOK, obex
<1>5. CASE GetSession
  <2>1. ASSUME NEW o \in BOOLEAN,
               call' = [call EXCEPT !.at = "handle", !.owned = o]
        PROVE  call' \in Call
    BY <1>5, <1>a, <2>1 DEF GetSession, Call, Places
  <2> QED BY <1>5, <1>a, <2>1, NotFoundType, NoTimeLeftType, ThrowsType
          DEF GetSession, TypeOK, obex
<1>6. CASE GetHandle
  <2>1. ASSUME call' = [call EXCEPT !.at = "thumbnail", !.handle = TRUE]
        PROVE  call' \in Call
    BY <1>6, <1>a, <2>1 DEF GetHandle, Call, Places
  <2> QED BY <1>6, <1>a, <2>1, NotFoundType, NoTimeLeftType, ThrowsType
          DEF GetHandle, TypeOK, obex
<1>7. CASE GetThumbnail
  BY <1>7, <1>a, RequestType DEF GetThumbnail, Places
<1>8. CASE WaitThumbnail
  <2>1. call.mine \in Transfers
    BY <1>8, <1>a DEF WaitThumbnail, IInv, MineWhileWaiting, Call, At
  <2> QED BY <1>8, <1>a, <2>1, WaitType DEF WaitThumbnail, Places
<1>9. CASE Describe
  <2>1. Go("image") \/ Go("retry") => call' \in Call
    BY <1>9, <1>a, GoType DEF Describe, Places
  <2>2. ASSUME call' = [call EXCEPT !.at = "retry", !.error = TRUE]
        PROVE  call' \in Call
    BY <1>9, <1>a, <2>2 DEF Describe, Call, Places
  <2> QED BY <1>9, <1>a, <2>1, <2>2, CallFailsType, NoTimeLeftType
          DEF Describe, TypeOK, obex
<1>10. CASE GetImage
  BY <1>10, <1>a, RequestType DEF GetImage, Places
<1>11. CASE WaitImage
  <2>1. call.mine \in Transfers
    BY <1>11, <1>a DEF WaitImage, IInv, MineWhileWaiting, Call, At
  <2> QED BY <1>11, <1>a, <2>1, WaitType DEF WaitImage, Places
<1>12. CASE Retry
  <2>1. call \in Call
    BY <1>12, <1>a DEF Retry
  <2>2. /\ transfers' \in [Transfers -> Transfer \cup {None}]
        /\ stray' \subseteq Transfers /\ lost' \in BOOLEAN
    BY <1>12 DEF Retry, TypeOK
  <2>3. faults' \in 0..MaxFaults
    BY <1>12, TransferAssumption DEF Retry, TypeOK
  <2>4. ASSUME call' = [call EXCEPT !.at = "session", !.attempt = 2]
        PROVE  call' \in Call
    <3>1. 2 \in 1..2
      OBVIOUS
    <3> HIDE DEF Places
    <3>2. "session" \in Places
      BY DEF Places
    <3> QED BY <2>1, <2>4, <3>1, <3>2 DEF Call
  <2>5. /\ call' \in Call \cup {None} /\ result' \in [Fetches -> Results]
        /\ file' \in File \cup {None}
    BY <1>12, <2>1, <2>4, ReturnType DEF Retry, TypeOK, Results
  <2>6. expired' \in BOOLEAN
    BY <1>12 DEF Retry, TypeOK
  <2> QED BY <2>2, <2>3, <2>5, <2>6 DEF TypeOK
<1>13. CASE Expire
  BY <1>13 DEF Expire, TypeOK, obex
<1>14. ASSUME NEW x \in Transfers, Open(x) PROVE TypeOK'
  <2>1. transfers[x] \in Transfer
    BY <1>14, NoneAssumption DEF TypeOK, Open, Running, Status
  <2>2. [transfers[x] EXCEPT !.open = TRUE] \in Transfer
    BY <2>1 DEF Transfer
  <2>3. file' \in File
    <3>1. (IF file = None THEN {} ELSE file.open) \in SUBSET Transfers
      BY DEF TypeOK, File
    <3>2. 0 \in 0..Size
      BY TransferAssumption
    <3> QED BY <1>14, <3>1, <3>2 DEF Open, File
  <2> QED BY <1>14, <2>2, <2>3 DEF TypeOK, Open
<1>15. ASSUME NEW x \in Transfers, Write(x) PROVE TypeOK'
  <2>1. transfers[x] \in Transfer
    BY <1>15 DEF TypeOK, Write, Running, Status
  <2>2. transfers[x].written + 1 \in 0..Size
    BY <1>15, <2>1, TransferAssumption DEF Write, Transfer
  <2>3. [transfers[x] EXCEPT !.written = transfers[x].written + 1] \in Transfer
    BY <2>1, <2>2 DEF Transfer
  <2> QED BY <1>15, <2>3, WriteType DEF TypeOK, Write
<1>16. ASSUME NEW x \in Transfers, Finish(x) PROVE TypeOK'
  <2>1. transfers[x] \in Transfer
    BY <1>16 DEF TypeOK, Finish, Running, Status
  <2>2. ASSUME NEW outcome \in {"complete", "error"}
        PROVE  [transfers[x] EXCEPT !.status = outcome] \in Transfer
    BY <2>1 DEF Transfer
  <2>3. transfers' \in [Transfers -> Transfer \cup {None}]
    BY <1>16, <2>2 DEF TypeOK, Finish
  <2>4. file' \in File \cup {None}
    BY <1>16, ReleasedType DEF TypeOK, Finish
  <2>5. faults' \in 0..MaxFaults
    BY <1>16, TransferAssumption DEF TypeOK, Finish
  <2> QED BY <1>16, <2>3, <2>4, <2>5 DEF TypeOK, Finish
<1>17. ASSUME NEW x \in Transfers, Forget(x) PROVE TypeOK'
  <2>1. file' \in File \cup {None}
    BY <1>17, ReleasedType DEF Forget
  <2> QED BY <1>17, <2>1 DEF TypeOK, Forget
<1>18. ASSUME NEW S \in SUBSET Transfers, Drop(S) PROVE TypeOK'
  <2>1. file' \in File \cup {None}
    BY <1>18, ReleasedType DEF Drop
  <2>2. faults' \in 0..MaxFaults
    BY <1>18, TransferAssumption DEF Drop, TypeOK
  <2> QED BY <1>18, <2>1, <2>2 DEF TypeOK, Drop
<1>19. CASE UNCHANGED vars
  BY <1>19 DEF vars, obex, TypeOK
<1> QED BY <1>1, <1>2, <1>3, <1>4, <1>5, <1>6, <1>7, <1>8, <1>9, <1>10, <1>11,
           <1>12, <1>13, <1>14, <1>15, <1>16, <1>17, <1>18, <1>19
        DEF Next, Fetch, Obexd, Stop

----------------------------------------------------------------------------
(* What the helpers do to the invariant                                    *)

Accounted == RunningIsOurs /\ FileIsAnswer /\ StrayIsLost /\ NothingAnswered
             /\ MineWhileWaiting

\* Nothing runs but strays.
OnlyStrays == \A x \in Transfers : Running(x) => x \in stray

\* While the request knows no transfer, only strays run.
LEMMA NoMineOnlyStrays ==
  ASSUME IInv, call = None \/ (call \in Call /\ call.mine = None)
  PROVE  OnlyStrays
BY TransferAssumption DEF IInv, RunningIsOurs, OnlyStrays

LEMMA ObexdUnchanged ==
  ASSUME IInv, OnlyStrays, UNCHANGED <<transfers, stray, lost>>
  PROVE  OnlyStrays' /\ StrayIsLost'
BY DEF IInv, OnlyStrays, StrayIsLost, Running, Status

\* A request that goes on.
LEMMA Continues ==
  ASSUME IInv, call \in Call, call' \in Call, call'.id = call.id,
         UNCHANGED result, RunningIsOurs', StrayIsLost', MineWhileWaiting'
  PROVE  Accounted'
<1>1. call # None /\ call' # None
  BY NoneAssumption
<1> QED BY <1>1 DEF IInv, Accounted, FileIsAnswer, NothingAnswered

\* A request that is answered.
LEMMA Answered ==
  ASSUME IInv, call \in Call, NEW outcome \in Results \ {"waiting"},
         Return(outcome), OnlyStrays', StrayIsLost',
         outcome = "success" => file # None /\ call.mine \in Transfers
  PROVE  Accounted'
<1>1. call' = None /\ call # None /\ call.id \in Fetches
  BY NoneAssumption DEF Return, Call
<1>2. \A f \in Fetches :
        result'[f] = "success" <=> (f = call.id /\ outcome = "success")
  BY <1>1 DEF IInv, NothingAnswered, Return, TypeOK
<1>3. file' # None <=> outcome = "success"
  BY ReleasedThere DEF Return, IInv
<1> QED BY <1>1, <1>2, <1>3
        DEF Accounted, RunningIsOurs, OnlyStrays, FileIsAnswer, NothingAnswered,
            MineWhileWaiting

\* An answer before there is a transfer to wait for.
LEMMA AnsweredEarly ==
  ASSUME IInv, call \in Call, call.mine = None,
         NotFound \/ NoTimeLeft \/ Throws
  PROVE  Accounted'
<1>1. OnlyStrays' /\ StrayIsLost'
  BY NoMineOnlyStrays, ObexdUnchanged DEF NotFound, NoTimeLeft, Throws
<1> QED BY <1>1, Answered DEF NotFound, NoTimeLeft, Throws, Results

\* A step of the request that leaves obexd alone.
LEMMA Proceeds ==
  ASSUME IInv, call \in Call, call.mine = None, call' \in Call,
         call'.id = call.id, call'.mine = None,
         call'.at \notin {"waitThumbnail", "waitImage"},
         UNCHANGED <<result, transfers, stray, lost>>
  PROVE  Accounted'
<1>1. OnlyStrays' /\ StrayIsLost'
  BY NoMineOnlyStrays, ObexdUnchanged
<1>2. RunningIsOurs' /\ MineWhileWaiting'
  BY <1>1 DEF OnlyStrays, RunningIsOurs, MineWhileWaiting
<1> QED BY <1>1, <1>2, Continues

LEMMA RequestInv ==
  ASSUME IInv, call \in Call, call.mine = None,
         NEW wait \in {"waitThumbnail", "waitImage"},
         NEW next \in {"describe", "retry"},
         Request(wait, next)
  PROVE  Accounted'
<1>1. OnlyStrays /\ StrayIsLost /\ None \notin Transfers
  BY NoMineOnlyStrays, TransferAssumption DEF IInv
<1>2. ASSUME NEW x \in Transfers, NEW s \in BOOLEAN, Make(x),
             call' = [call EXCEPT !.at = wait, !.sized = s, !.mine = x],
             UNCHANGED <<expired, result, file, stray, lost, faults>>
      PROVE  Accounted'
  <2>1. /\ call' \in Call /\ call'.id = call.id
        /\ call'.mine = x /\ call'.at = wait
    BY <1>2 DEF Call, Places
  <2>2. \A y \in Transfers : Running(y)' => Running(y) \/ y = x
    BY <1>2 DEF Make, Running, Status, IInv, TypeOK
  <2>3. RunningIsOurs'
    BY <1>1, <1>2, <2>1, <2>2, NoneAssumption DEF OnlyStrays, RunningIsOurs
  <2>4. StrayIsLost' /\ MineWhileWaiting'
    BY <1>1, <1>2, <2>1 DEF StrayIsLost, MineWhileWaiting
  <2> QED BY <1>2, <2>1, <2>3, <2>4, Continues
<1>3. ASSUME call' = [call EXCEPT !.at = next, !.error = TRUE]
      PROVE  /\ call' \in Call /\ call'.id = call.id /\ call'.mine = None
             /\ call'.at \notin {"waitThumbnail", "waitImage"}
  BY <1>3 DEF Call, Places
<1>4. ASSUME call' = [call EXCEPT !.at = next, !.error = TRUE],
             UNCHANGED <<transfers, stray, lost, result>>
      PROVE  Accounted'
  BY <1>3, <1>4, Proceeds
<1>5. ASSUME NEW x \in Transfers, Make(x), stray' = stray \cup {x},
             lost' = TRUE, UNCHANGED result,
             call' = [call EXCEPT !.at = next, !.error = TRUE]
      PROVE  Accounted'
  <2>1. \A y \in Transfers : Running(y)' => Running(y) \/ y = x
    BY <1>5 DEF Make, Running, Status, IInv, TypeOK
  <2>2. RunningIsOurs' /\ StrayIsLost' /\ MineWhileWaiting'
    BY <1>1, <1>3, <1>5, <2>1
       DEF OnlyStrays, RunningIsOurs, StrayIsLost, MineWhileWaiting
  <2> QED BY <1>3, <1>5, <2>2, Continues
<1> QED BY <1>2, <1>4, <1>5, AnsweredEarly DEF Request

\* When the wait is over its transfer no longer runs, or is a stray.
LEMMA CancelInv ==
  ASSUME IInv, call \in Call, call.mine \in Transfers, Cancel(call.mine)
  PROVE  OnlyStrays' /\ StrayIsLost'
BY DEF IInv, TypeOK, RunningIsOurs, OnlyStrays, StrayIsLost, Cancel, Running,
       Status

LEMMA WaitInv ==
  ASSUME IInv, call \in Call, call.mine \in Transfers,
         NEW next \in {"describe", "retry"}, Wait(next)
  PROVE  Accounted'
<1>1. ASSUME transfers' = [transfers EXCEPT ![call.mine] = None],
             UNCHANGED <<stray, lost>>
      PROVE  OnlyStrays' /\ StrayIsLost'
  BY <1>1 DEF IInv, TypeOK, RunningIsOurs, OnlyStrays, StrayIsLost, Running, Status
<1>2. OnlyStrays' /\ StrayIsLost'
  BY <1>1, CancelInv DEF Wait
<1>3. ASSUME GiveUp(next) PROVE Accounted'
  <2>1. /\ call' \in Call /\ call'.id = call.id /\ call'.mine = None
        /\ call'.at = next
    BY <1>3 DEF GiveUp, Call, Places
  <2>2. RunningIsOurs' /\ MineWhileWaiting'
    BY <1>2, <2>1 DEF OnlyStrays, RunningIsOurs, MineWhileWaiting
  <2> QED BY <1>2, <1>3, <2>1, <2>2, Continues DEF GiveUp
<1>4. ASSUME Return("timeout") PROVE Accounted'
  BY <1>2, <1>4, Answered DEF Results
<1>5. ASSUME Return("success"), FileComplete PROVE Accounted'
  BY <1>2, <1>5, Answered DEF Results, FileComplete
<1> QED BY <1>3, <1>4, <1>5 DEF Wait

----------------------------------------------------------------------------
\* A step of obexd ends transfers; only an open transfer creates the file.
LEMMA ObexdStep ==
  ASSUME IInv, UNCHANGED <<call, result, lost>>, stray' \subseteq stray,
         \A y \in Transfers :
           Running(y)' => Running(y) /\ (y \in stray => y \in stray'),
         file # None => file' # None,
         file' # None => file # None \/ call # None \/ lost
  PROVE  Accounted'
<1>1. RunningIsOurs' /\ StrayIsLost'
  BY DEF IInv, RunningIsOurs, StrayIsLost
<1>2. FileIsAnswer'
  BY DEF IInv, FileIsAnswer
<1>3. NothingAnswered' /\ MineWhileWaiting'
  BY DEF IInv, NothingAnswered, MineWhileWaiting
<1> QED BY <1>1, <1>2, <1>3 DEF Accounted

\* Every action accounts for the transfers and the file.
LEMMA InvStep == ASSUME IInv, [Next]_vars PROVE Accounted'
<1>a. ASSUME NEW place, At(place)
      PROVE  call \in Call /\ call.at = place /\ call # None
  BY <1>a DEF IInv, TypeOK, At
<1>b. ASSUME NEW place \in {"source", "address", "session", "handle", "thumbnail",
                            "describe", "image", "retry"}, At(place)
      PROVE  call.mine = None
  BY <1>a, <1>b DEF IInv, MineWhileWaiting
<1>1. ASSUME NEW f \in Fetches, Begin(f) PROVE Accounted'
  <2>1. call' \in Call /\ call'.id = f /\ call'.mine = None /\ call'.at = "source"
    BY <1>1 DEF Begin, Call, Places
  <2>2. OnlyStrays' /\ StrayIsLost'
    BY <1>1, NoMineOnlyStrays, ObexdUnchanged DEF Begin, obex
  <2>3. result' = result /\ result[f] = "waiting" /\ call = None /\ file = None
    BY <1>1 DEF Begin
  <2>4. NothingAnswered' /\ FileIsAnswer'
    BY <2>1, <2>3, NoneAssumption DEF IInv, FileIsAnswer, NothingAnswered
  <2> QED BY <2>1, <2>2, <2>4
          DEF Accounted, OnlyStrays, RunningIsOurs, MineWhileWaiting
<1>2. ASSUME NEW f \in Fetches, Reject(f) PROVE Accounted'
  <2>1. OnlyStrays' /\ StrayIsLost'
    BY <1>2, NoMineOnlyStrays, ObexdUnchanged DEF Reject, obex
  <2>2. \A g \in Fetches : result'[g] = "success" <=> result[g] = "success"
    BY <1>2 DEF Reject, IInv, TypeOK
  <2>3. FileIsAnswer'
    BY <1>2, <2>2 DEF Reject, IInv, FileIsAnswer, obex
  <2> QED BY <1>2, <2>1, <2>3
          DEF Accounted, OnlyStrays, RunningIsOurs, MineWhileWaiting,
              NothingAnswered, Reject
<1>3. CASE ReadSource
  <2>1. call \in Call /\ call.mine = None
    BY <1>3, <1>a, <1>b DEF ReadSource
  <2>2. ASSUME NEW h \in BOOLEAN,
               call' = [call EXCEPT !.at = "address", !.handle = h],
               UNCHANGED <<expired, result, obex, faults>>
        PROVE  Accounted'
    <3>1. /\ call' \in Call /\ call'.id = call.id /\ call'.mine = None
          /\ call'.at = "address"
      BY <2>1, <2>2 DEF Call, Places
    <3> QED BY <2>1, <2>2, <3>1, Proceeds DEF obex
  <2> QED BY <1>3, <2>1, <2>2, AnsweredEarly DEF ReadSource
<1>4. CASE ReadAddress
  <2>1. call \in Call /\ call.mine = None
    BY <1>4, <1>a, <1>b DEF ReadAddress
  <2>2. ASSUME Go("session"), UNCHANGED <<expired, result, obex, faults>>
        PROVE  Accounted'
    <3>1. /\ call' \in Call /\ call'.id = call.id /\ call'.mine = None
          /\ call'.at = "session"
      BY <2>1, <2>2 DEF Go, Call, Places
    <3> QED BY <2>1, <2>2, <3>1, Proceeds DEF obex
  <2> QED BY <1>4, <2>1, <2>2, AnsweredEarly DEF ReadAddress
<1>5. CASE GetSession
  <2>1. call \in Call /\ call.mine = None
    BY <1>5, <1>a, <1>b DEF GetSession
  <2>2. ASSUME NEW o \in BOOLEAN,
               call' = [call EXCEPT !.at = "handle", !.owned = o],
               UNCHANGED <<expired, result, obex, faults>>
        PROVE  Accounted'
    <3>1. /\ call' \in Call /\ call'.id = call.id /\ call'.mine = None
          /\ call'.at = "handle"
      BY <2>1, <2>2 DEF Call, Places
    <3> QED BY <2>1, <2>2, <3>1, Proceeds DEF obex
  <2> QED BY <1>5, <2>1, <2>2, AnsweredEarly DEF GetSession
<1>6. CASE GetHandle
  <2>1. call \in Call /\ call.mine = None
    BY <1>6, <1>a, <1>b DEF GetHandle
  <2>2. ASSUME call' = [call EXCEPT !.at = "thumbnail", !.handle = TRUE],
               UNCHANGED <<expired, result, obex, faults>>
        PROVE  Accounted'
    <3>1. /\ call' \in Call /\ call'.id = call.id /\ call'.mine = None
          /\ call'.at = "thumbnail"
      BY <2>1, <2>2 DEF Call, Places
    <3> QED BY <2>1, <2>2, <3>1, Proceeds DEF obex
  <2> QED BY <1>6, <2>1, <2>2, AnsweredEarly DEF GetHandle
<1>7. CASE GetThumbnail
  BY <1>7, <1>a, <1>b, RequestInv DEF GetThumbnail
<1>8. CASE WaitThumbnail
  <2>1. call.mine \in Transfers
    BY <1>8, <1>a DEF WaitThumbnail, IInv, MineWhileWaiting, Call
  <2> QED BY <1>8, <1>a, <2>1, WaitInv DEF WaitThumbnail
<1>9. CASE Describe
  <2>1. call \in Call /\ call.mine = None
    BY <1>9, <1>a, <1>b DEF Describe
  <2>2. ASSUME NEW place \in {"image", "retry"}, Go(place),
               UNCHANGED <<expired, result, obex, faults>>
        PROVE  Accounted'
    <3>1. /\ call' \in Call /\ call'.id = call.id /\ call'.mine = None
          /\ call'.at = place
      BY <2>1, <2>2 DEF Go, Call, Places
    <3> QED BY <2>1, <2>2, <3>1, Proceeds DEF obex
  <2>3. ASSUME call' = [call EXCEPT !.at = "retry", !.error = TRUE],
               UNCHANGED <<result, obex>>
        PROVE  Accounted'
    <3>1. /\ call' \in Call /\ call'.id = call.id /\ call'.mine = None
          /\ call'.at = "retry"
      BY <2>1, <2>3 DEF Call, Places
    <3> QED BY <2>1, <2>3, <3>1, Proceeds DEF obex
  <2> QED BY <1>9, <2>1, <2>2, <2>3, AnsweredEarly DEF Describe
<1>10. CASE GetImage
  BY <1>10, <1>a, <1>b, RequestInv DEF GetImage
<1>11. CASE WaitImage
  <2>1. call.mine \in Transfers
    BY <1>11, <1>a DEF WaitImage, IInv, MineWhileWaiting, Call
  <2> QED BY <1>11, <1>a, <2>1, WaitInv DEF WaitImage
<1>12. CASE Retry
  <2>1. call \in Call /\ call.mine = None
    BY <1>12, <1>a, <1>b DEF Retry
  <2>2. OnlyStrays /\ StrayIsLost
    BY <2>1, NoMineOnlyStrays DEF IInv
  <2>3. OnlyStrays' /\ StrayIsLost'
    BY <1>12, <2>2 DEF Retry, OnlyStrays, StrayIsLost, Running, Status, IInv, TypeOK
  <2>4. ASSUME call' = [call EXCEPT !.at = "session", !.attempt = 2],
               UNCHANGED result
        PROVE  Accounted'
    <3>0. 2 \in 1..2
      OBVIOUS
    <3>1. /\ call' \in Call /\ call'.id = call.id /\ call'.mine = None
          /\ call'.at = "session"
      BY <2>1, <2>4, <3>0 DEF Call, Places
    <3>2. RunningIsOurs' /\ MineWhileWaiting'
      BY <2>3, <3>1 DEF OnlyStrays, RunningIsOurs, MineWhileWaiting
    <3> QED BY <2>1, <2>3, <2>4, <3>1, <3>2, Continues
  <2>5. ASSUME NEW outcome \in {"error", "failed"}, Return(outcome)
        PROVE  Accounted'
    BY <2>1, <2>3, <2>5, Answered DEF Results
  <2> QED BY <1>12, <2>4, <2>5 DEF Retry
<1>13. CASE Expire
  BY <1>13 DEF Expire, obex, IInv, Accounted, RunningIsOurs, FileIsAnswer,
               StrayIsLost, NothingAnswered, MineWhileWaiting, Running, Status
<1>14. ASSUME NEW x \in Transfers, Open(x) PROVE Accounted'
  <2>1. \A y \in Transfers : Running(y)' => Running(y)
    BY <1>14 DEF Open, Running, Status, IInv, TypeOK
  <2>2. UNCHANGED <<call, result, stray, lost>> /\ Running(x)
    BY <1>14 DEF Open
  <2>3. call = None => lost
    BY <2>2 DEF IInv, RunningIsOurs, StrayIsLost
  <2>4. file' \in File
    <3>1. (IF file = None THEN {} ELSE file.open) \in SUBSET Transfers
      BY DEF IInv, TypeOK, File
    <3>2. 0 \in 0..Size
      BY TransferAssumption
    <3> QED BY <1>14, <3>1, <3>2 DEF Open, File
  <2> QED BY <2>1, <2>2, <2>3, <2>4, NoneAssumption, ObexdStep
<1>15. ASSUME NEW x \in Transfers, Write(x) PROVE Accounted'
  <2>1. \A y \in Transfers : Running(y)' => Running(y)
    BY <1>15 DEF Write, Running, Status, IInv, TypeOK
  <2>2. file' # None <=> file # None
    BY <1>15, WriteType DEF IInv
  <2>3. UNCHANGED <<call, result, stray, lost>>
    BY <1>15 DEF Write
  <2> QED BY <2>1, <2>2, <2>3, ObexdStep
<1>16. ASSUME NEW x \in Transfers, Finish(x) PROVE Accounted'
  <2>1. \A y \in Transfers : Running(y)' => Running(y) /\ y # x
    <3>1. \A y \in Transfers : y # x => transfers'[y] = transfers[y]
      BY <1>16 DEF Finish, IInv, TypeOK
    <3>2. transfers[x] \in Transfer
      BY <1>16 DEF Finish, Running, Status, IInv, TypeOK
    <3>3. ~Running(x)'
      BY <1>16, <3>2 DEF Finish, Running, Status, IInv, TypeOK, Transfer
    <3> QED BY <3>1, <3>3 DEF Running, Status
  <2>2. file' # None <=> file # None
    BY <1>16, ReleasedThere DEF Finish, IInv
  <2>3. UNCHANGED <<call, result, lost>> /\ stray' = stray \ {x}
    BY <1>16 DEF Finish
  <2> QED BY <2>1, <2>2, <2>3, ObexdStep
<1>17. ASSUME NEW x \in Transfers, Forget(x) PROVE Accounted'
  <2>1. \A y \in Transfers : Running(y)' => Running(y)
    BY <1>17 DEF Forget, Running, Status, IInv, TypeOK
  <2>2. file' # None <=> file # None
    BY <1>17, ReleasedThere DEF Forget, IInv
  <2>3. UNCHANGED <<call, result, stray, lost>>
    BY <1>17 DEF Forget
  <2> QED BY <2>1, <2>2, <2>3, ObexdStep
<1>18. ASSUME NEW S \in SUBSET Transfers, Drop(S) PROVE Accounted'
  <2>1. \A y \in Transfers : Running(y)' => Running(y) /\ y \notin S
    BY <1>18 DEF Drop, Running, Status, IInv, TypeOK
  <2>2. file' # None <=> file # None
    BY <1>18, ReleasedThere DEF Drop, IInv
  <2>3. UNCHANGED <<call, result, lost>> /\ stray' = stray \ S
    BY <1>18 DEF Drop
  <2> QED BY <2>1, <2>2, <2>3, ObexdStep
<1>19. CASE UNCHANGED vars
  BY <1>19 DEF vars, obex, IInv, Accounted, RunningIsOurs, FileIsAnswer,
               StrayIsLost, NothingAnswered, MineWhileWaiting, Running, Status
<1> QED BY <1>1, <1>2, <1>3, <1>4, <1>5, <1>6, <1>7, <1>8, <1>9, <1>10, <1>11,
           <1>12, <1>13, <1>14, <1>15, <1>16, <1>17, <1>18, <1>19
        DEF Next, Fetch, Obexd, Stop

----------------------------------------------------------------------------
LEMMA InitInv == ASSUME Init PROVE IInv
<1>1. TypeOK
  <2>1. faults \in 0..MaxFaults
    BY TransferAssumption DEF Init
  <2> QED BY <2>1 DEF Init, TypeOK, Results
<1>2. \A x \in Transfers : ~Running(x)
  BY DEF Init, Running, Status
<1>3. RunningIsOurs /\ FileIsAnswer /\ StrayIsLost /\ NothingAnswered
      /\ MineWhileWaiting
  BY <1>2 DEF Init, RunningIsOurs, FileIsAnswer, StrayIsLost, NothingAnswered,
              MineWhileWaiting
<1> QED BY <1>1, <1>3 DEF IInv

\* The invariant holds in every behaviour.
THEOREM Invariant == Spec => []IInv
<1>1. ASSUME IInv, [Next]_vars PROVE IInv'
  BY <1>1, TypeStep, InvStep DEF IInv, Accounted
<1> QED BY InitInv, <1>1, PTL DEF Spec

\* The variables keep their types: a request is at one of get_impl's places, in
\* its first or second attempt.
THEOREM TypeCorrect == Spec => []TypeOK
<1>1. IInv => TypeOK
  BY DEF IInv
<1> QED BY Invariant, <1>1, PTL

\* No transfer is left running behind a request, whichever way its waits end,
\* except one whose Cancel or path was lost (TransferCleanup, wait_for_transfer).
THEOREM NothingLeftRunning == Spec => []RunningIsOurs
<1>1. IInv => RunningIsOurs
  BY DEF IInv
<1> QED BY Invariant, <1>1, PTL

\* Between requests the target's file is there after a success, and otherwise
\* only a lost transfer can have made one (PartialFile).
THEOREM AnswerHasFile == Spec => []FileIsAnswer
<1>1. IInv => FileIsAnswer
  BY DEF IInv
<1> QED BY Invariant, <1>1, PTL
----------------------------------------------------------------------------
(* What a success returns                                                  *)

\* The target is what transfer x has written.
Follows(x) ==
    /\ transfers[x].status = "complete" => transfers[x].written = Size
    /\ IF transfers[x].open
       THEN /\ file # None /\ file.by = x /\ x \in file.open
            /\ file.size = transfers[x].written
       ELSE file = None /\ transfers[x].written = 0

\* As long as no transfer was lost the only one is that of the request, and
\* between its transfers no leftover is at the target.
LoneWriter ==
    ~lost =>
      /\ call # None /\ call.mine = None => file = None
      /\ file # None => ~file.torn
      /\ \A x \in Transfers :
           transfers[x] # None => call # None /\ call.mine = x /\ Follows(x)

LEMMA IdleObexd ==
  ASSUME LoneWriter, ~lost, call = None \/ call.mine = None
  PROVE  \A x \in Transfers : transfers[x] = None
BY TransferAssumption DEF LoneWriter

\* A step of a request without a transfer that makes none.
LEMMA LoneProceeds ==
  ASSUME LoneWriter, call # None, call.mine = None,
         UNCHANGED <<transfers, lost>>, file' = None \/ file' = file
  PROVE  LoneWriter'
BY IdleObexd DEF LoneWriter

LEMMA LoneUnchanged ==
  ASSUME LoneWriter, UNCHANGED <<call, transfers, file, lost>>
  PROVE  LoneWriter'
BY DEF LoneWriter, Follows

LEMMA LoneRequest ==
  ASSUME IInv, LoneWriter, call \in Call, call.mine = None,
         NEW wait \in {"waitThumbnail", "waitImage"},
         NEW next \in {"describe", "retry"},
         Request(wait, next)
  PROVE  LoneWriter'
<1>1. call # None
  BY NoneAssumption
<1>2. ASSUME NEW x \in Transfers, NEW s \in BOOLEAN, Make(x),
             call' = [call EXCEPT !.at = wait, !.sized = s, !.mine = x],
             UNCHANGED <<file, lost>>, ~lost'
      PROVE  LoneWriter'
  <2>1. file = None /\ \A y \in Transfers : transfers[y] = None
    BY <1>1, <1>2, IdleObexd DEF LoneWriter
  <2>2. call' # None /\ call'.mine = x
    <3>1. call' \in Call
      BY <1>2 DEF Call, Places
    <3> QED BY <1>2, <3>1, NoneAssumption DEF Call
  <2>3. /\ \A y \in Transfers : y # x => transfers'[y] = None
        /\ transfers'[x] = [status |-> "active", ours |-> call.owned,
                            open |-> FALSE, written |-> 0]
    BY <1>2, <2>1 DEF Make, IInv, TypeOK
  <2> QED BY <1>2, <2>1, <2>2, <2>3 DEF LoneWriter, Follows
<1>3. ASSUME UNCHANGED <<transfers, lost>>, file' = None PROVE LoneWriter'
  BY <1>1, <1>3, LoneProceeds
<1>4. CASE lost'
  BY <1>4 DEF LoneWriter
<1>5. CASE NoTimeLeft
  BY <1>1, <1>5, LoneProceeds DEF NoTimeLeft, Return
<1> QED BY <1>2, <1>3, <1>4, <1>5 DEF Request

LEMMA LoneWait ==
  ASSUME IInv, LoneWriter, call \in Call, call.mine \in Transfers,
         NEW next \in {"describe", "retry"}, Wait(next)
  PROVE  LoneWriter'
<1> SUFFICES ASSUME ~lost' PROVE LoneWriter'
  BY DEF LoneWriter
<1>1. ~lost /\ transfers' = [transfers EXCEPT ![call.mine] = None]
  BY DEF Wait, Cancel
<1>2. \A x \in Transfers : transfers'[x] = None
  BY <1>1 DEF LoneWriter, IInv, TypeOK
<1>3. CASE file' = None
  BY <1>2, <1>3 DEF LoneWriter
<1>4. CASE Return("success") /\ FileComplete
  <2>1. file \in File /\ file # None /\ ~file.torn
    BY <1>1, <1>4 DEF FileComplete, LoneWriter, IInv, TypeOK
  <2>2. ~file'.torn /\ call' = None
    BY <1>4, <2>1 DEF Return, Released, File
  <2> QED BY <1>2, <2>2 DEF LoneWriter
<1> QED BY <1>3, <1>4 DEF Wait, GiveUp, Return

LEMMA LoneOpen ==
  ASSUME IInv, LoneWriter, NEW x \in Transfers, Open(x)
  PROVE  LoneWriter'
<1> SUFFICES ASSUME ~lost' PROVE LoneWriter'
  BY DEF LoneWriter
<1>1. ~lost /\ UNCHANGED call /\ transfers[x] \in Transfer
  BY DEF Open, IInv, TypeOK, Running, Status
<1>2. transfers[x] # None /\ transfers[x].status = "active"
  BY DEF Open, Running, Status
<1>3. /\ call # None /\ call.mine = x /\ file = None
      /\ transfers[x].written = 0 /\ ~transfers[x].open
  BY <1>1, <1>2 DEF LoneWriter, Follows, Open
<1>4. \A y \in Transfers : y # x => transfers'[y] = None
  BY <1>1, <1>3 DEF LoneWriter, Open, IInv, TypeOK
<1>5. /\ transfers'[x].status = "active" /\ transfers'[x].open
      /\ transfers'[x].written = 0
  BY <1>1, <1>2, <1>3 DEF Open, IInv, TypeOK, Transfer
<1>6. /\ file'.by = x /\ x \in file'.open /\ file'.size = 0 /\ ~file'.torn
  BY DEF Open
<1>7. file' # None
  <2>1. file' = [open |-> {x}, by |-> x, size |-> 0, torn |-> FALSE]
    BY <1>3 DEF Open
  <2>2. 0 \in 0..Size
    BY TransferAssumption
  <2>3. file' \in File
    BY <2>1, <2>2 DEF File
  <2> QED BY <2>3, NoneAssumption
<1>8. Follows(x)'
  <2>1. transfers'[x].status # "complete"
    BY <1>5
  <2> QED BY <1>5, <1>6, <1>7, <2>1 DEF Follows
<1> QED BY <1>1, <1>3, <1>4, <1>6, <1>7, <1>8, TransferAssumption DEF LoneWriter

LEMMA LoneWrite ==
  ASSUME IInv, LoneWriter, NEW x \in Transfers, Write(x)
  PROVE  LoneWriter'
<1> SUFFICES ASSUME ~lost' PROVE LoneWriter'
  BY DEF LoneWriter
<1>1. ~lost /\ UNCHANGED call /\ transfers[x] \in Transfer
  BY DEF Write, IInv, TypeOK, Running, Status
<1>2. transfers[x] # None /\ transfers[x].status = "active" /\ transfers[x].open
  BY DEF Write, Running, Status
<1>3. /\ call # None /\ call.mine = x
      /\ file # None /\ file.by = x /\ x \in file.open /\ ~file.torn
      /\ file.size = transfers[x].written
  BY <1>1, <1>2 DEF LoneWriter, Follows
<1>4. \A y \in Transfers : y # x => transfers'[y] = None
  BY <1>1, <1>3 DEF LoneWriter, Write, IInv, TypeOK
<1> DEFINE end == transfers[x].written + 1
<1>5. transfers[x].written \in Nat /\ end > transfers[x].written
  BY <1>1, TransferAssumption DEF Transfer
<1>6. /\ transfers'[x].status = "active" /\ transfers'[x].open
      /\ transfers'[x].written = end
  BY <1>1, <1>2 DEF Write, IInv, TypeOK, Transfer
<1>7. file \in File
  BY <1>3 DEF IInv, TypeOK
<1>8. file' = [file EXCEPT !.size = end, !.torn = FALSE]
  <2>1. file' = [file EXCEPT !.size = IF file.size > end THEN file.size ELSE end,
                             !.torn = file.torn \/ file.by # x]
    BY <1>3 DEF Write
  <2>2. ~(file.size > end)
    BY <1>3, <1>5
  <2>3. (file.torn \/ file.by # x) = FALSE
    BY <1>3, <1>7 DEF File
  <2> QED BY <2>1, <2>2, <2>3
<1>9. file' # None
  BY <1>3, WriteType DEF IInv
<1> HIDE DEF end
<1>10. /\ file'.by = x /\ x \in file'.open /\ file'.size = end /\ ~file'.torn
  BY <1>3, <1>7, <1>8 DEF File
<1> QED BY <1>1, <1>3, <1>4, <1>6, <1>9, <1>10 DEF LoneWriter, Follows

LEMMA LoneFinish ==
  ASSUME IInv, LoneWriter, NEW x \in Transfers, Finish(x)
  PROVE  LoneWriter'
<1> SUFFICES ASSUME ~lost' PROVE LoneWriter'
  BY DEF LoneWriter
<1>1. ~lost /\ UNCHANGED call /\ transfers[x] \in Transfer
  BY DEF Finish, IInv, TypeOK, Running, Status
<1>2. transfers[x] # None
  BY DEF Finish, Running, Status
<1>3. x \notin stray
  BY <1>1 DEF IInv, StrayIsLost
<1>4. PICK outcome \in {"complete", "error"} :
        /\ outcome = "complete" => transfers[x].written = Size
        /\ transfers' = [transfers EXCEPT ![x].status = outcome]
        /\ UNCHANGED file
  BY <1>3 DEF Finish
<1>5. /\ transfers'[x].status = outcome
      /\ transfers'[x].open = transfers[x].open
      /\ transfers'[x].written = transfers[x].written
  BY <1>1, <1>4 DEF IInv, TypeOK, Transfer
<1>6. \A y \in Transfers : y # x => transfers'[y] = transfers[y]
  BY <1>4 DEF IInv, TypeOK
<1>7. call # None /\ call.mine = x /\ Follows(x)
  BY <1>1, <1>2 DEF LoneWriter
<1>8. Follows(x)'
  BY <1>4, <1>5, <1>7 DEF Follows
<1> QED BY <1>1, <1>4, <1>6, <1>7, <1>8 DEF LoneWriter

\* Transfers that go away leave the file to the one that stays.
LEMMA LoneRelease ==
  ASSUME IInv, LoneWriter, NEW S \in SUBSET Transfers,
         UNCHANGED <<call, lost>>, file' = Released(S),
         transfers' = [x \in Transfers |-> IF x \in S THEN None ELSE transfers[x]]
  PROVE  LoneWriter'
<1> SUFFICES ASSUME ~lost' PROVE LoneWriter'
  BY DEF LoneWriter
<1>1. call # None /\ call.mine = None => file' = None
  BY DEF LoneWriter, Released
<1>2. file' # None => ~file'.torn
  BY DEF LoneWriter, Released, IInv, TypeOK, File
<1>3. ASSUME NEW x \in Transfers, transfers'[x] # None PROVE Follows(x)'
  <2>1. x \notin S /\ transfers'[x] = transfers[x]
    BY <1>3
  <2>2. Follows(x)
    BY <1>3, <2>1 DEF LoneWriter
  <2>3. CASE file = None
    BY <2>1, <2>2, <2>3 DEF Follows, Released
  <2>4. CASE file # None
    <3>1. file \in File /\ file' # None
      BY <2>4, ReleasedThere DEF IInv, TypeOK
    <3>2. file.by = x /\ x \in file.open /\ file.size = transfers[x].written
      BY <2>2, <2>4 DEF Follows
    <3>3. file'.by = x /\ x \in file'.open /\ file'.size = file.size
      BY <2>1, <2>4, <3>1, <3>2 DEF Released, File
    <3> QED BY <2>1, <2>2, <2>4, <3>1, <3>2, <3>3 DEF Follows
  <2> QED BY <2>3, <2>4
<1>4. \A x \in Transfers : transfers'[x] # None => call # None /\ call.mine = x
  BY DEF LoneWriter
<1> QED BY <1>1, <1>2, <1>3, <1>4 DEF LoneWriter

LEMMA LoneStep == ASSUME IInv, LoneWriter, [Next]_vars PROVE LoneWriter'
<1>a. ASSUME NEW place, At(place)
      PROVE  call \in Call /\ call.at = place /\ call # None
  BY <1>a DEF IInv, TypeOK, At
<1>b. ASSUME NEW place \in {"source", "address", "session", "handle", "thumbnail",
                            "describe", "image", "retry"}, At(place)
      PROVE  call.mine = None
  BY <1>a, <1>b DEF IInv, MineWhileWaiting
<1>c. ASSUME NEW place \in {"waitThumbnail", "waitImage"}, At(place)
      PROVE  call.mine \in Transfers
  BY <1>a, <1>c DEF IInv, MineWhileWaiting, Call
<1>1. ASSUME NEW f \in Fetches, Begin(f) PROVE LoneWriter'
  BY <1>1, IdleObexd DEF Begin, obex, LoneWriter
<1>2. ASSUME NEW f \in Fetches, Reject(f) PROVE LoneWriter'
  BY <1>2, LoneUnchanged DEF Reject, obex
<1>3. CASE ReadSource
  BY <1>3, <1>a, <1>b, LoneProceeds
     DEF ReadSource, obex, NotFound, NoTimeLeft, Throws, Return
<1>4. CASE ReadAddress
  BY <1>4, <1>a, <1>b, LoneProceeds
     DEF ReadAddress, obex, NotFound, NoTimeLeft, Throws, Return
<1>5. CASE GetSession
  BY <1>5, <1>a, <1>b, LoneProceeds
     DEF GetSession, obex, NotFound, NoTimeLeft, Throws, Return
<1>6. CASE GetHandle
  BY <1>6, <1>a, <1>b, LoneProceeds
     DEF GetHandle, obex, NotFound, NoTimeLeft, Throws, Return
<1>7. CASE GetThumbnail
  BY <1>7, <1>a, <1>b, LoneRequest DEF GetThumbnail
<1>8. CASE WaitThumbnail
  BY <1>8, <1>a, <1>c, LoneWait DEF WaitThumbnail
<1>9. CASE Describe
  BY <1>9, <1>a, <1>b, LoneProceeds DEF Describe, obex, NoTimeLeft, Return
<1>10. CASE GetImage
  BY <1>10, <1>a, <1>b, LoneRequest DEF GetImage
<1>11. CASE WaitImage
  BY <1>11, <1>a, <1>c, LoneWait DEF WaitImage
<1>12. CASE Retry
  <2>1. lost' = lost /\ file' = None
    BY <1>12 DEF Retry, Return
  <2>2. ASSUME ~lost PROVE \A x \in Transfers : transfers'[x] = None
    BY <1>12, <1>b, <2>2, IdleObexd DEF Retry
  <2> QED BY <2>1, <2>2 DEF LoneWriter
<1>13. CASE Expire
  BY <1>13, LoneUnchanged DEF Expire, obex
<1>14. ASSUME NEW x \in Transfers, Open(x) PROVE LoneWriter'
  BY <1>14, LoneOpen
<1>15. ASSUME NEW x \in Transfers, Write(x) PROVE LoneWriter'
  BY <1>15, LoneWrite
<1>16. ASSUME NEW x \in Transfers, Finish(x) PROVE LoneWriter'
  BY <1>16, LoneFinish
<1>17. ASSUME NEW x \in Transfers, Forget(x) PROVE LoneWriter'
  <2>1. transfers' = [y \in Transfers |-> IF y \in {x} THEN None ELSE transfers[y]]
    BY <1>17 DEF Forget, IInv, TypeOK
  <2> QED BY <1>17, <2>1, LoneRelease DEF Forget
<1>18. ASSUME NEW S \in SUBSET Transfers, Drop(S) PROVE LoneWriter'
  BY <1>18, LoneRelease DEF Drop
<1>19. CASE UNCHANGED vars
  BY <1>19, LoneUnchanged DEF vars, obex
<1> QED BY <1>1, <1>2, <1>3, <1>4, <1>5, <1>6, <1>7, <1>8, <1>9, <1>10, <1>11,
           <1>12, <1>13, <1>14, <1>15, <1>16, <1>17, <1>18, <1>19
        DEF Next, Fetch, Obexd, Stop

----------------------------------------------------------------------------
\* Only the end of a wait succeeds.
LEMMA SuccessEndsWait ==
  ASSUME IInv, [Next]_vars, NEW f \in Fetches,
         result[f] # "success", result'[f] = "success"
  PROVE  /\ call \in Call /\ call.mine \in Transfers
         /\ \E next \in {"describe", "retry"} : Wait(next)
<1>a. ASSUME NEW place, At(place)
      PROVE  call \in Call /\ call.at = place /\ call # None
  BY <1>a DEF IInv, TypeOK, At
<1>1. ASSUME NEW outcome \in Results \ {"success"}, Return(outcome) PROVE FALSE
  BY <1>1 DEF Return, IInv, TypeOK
<1>2. ~NotFound /\ ~NoTimeLeft /\ ~Throws
  BY <1>1 DEF NotFound, NoTimeLeft, Throws, Results
<1>3. result' # result
  OBVIOUS
<1>4. \A g \in Fetches : ~Begin(g) /\ ~Reject(g)
  BY <1>3 DEF Begin, Reject, IInv, TypeOK
<1>5. ~ReadSource /\ ~ReadAddress /\ ~GetSession /\ ~GetHandle /\ ~Describe
  BY <1>2, <1>3 DEF ReadSource, ReadAddress, GetSession, GetHandle, Describe
<1>6. ~GetThumbnail /\ ~GetImage
  BY <1>2, <1>3 DEF GetThumbnail, GetImage, Request
<1>7. ~Retry
  BY <1>1, <1>3 DEF Retry, Results
<1>8. ~Expire /\ ~Obexd /\ ~Stop /\ ~UNCHANGED vars
  BY <1>3 DEF Expire, Obexd, Open, Write, Finish, Forget, Drop, Stop, vars
<1>9. WaitThumbnail \/ WaitImage
  BY <1>4, <1>5, <1>6, <1>7, <1>8 DEF Next, Fetch
<1>10. call \in Call /\ call.mine \in Transfers
  BY <1>9, <1>a DEF WaitThumbnail, WaitImage, IInv, MineWhileWaiting, Call
<1> QED BY <1>9, <1>10 DEF WaitThumbnail, WaitImage

LEMMA SuccessStep ==
  ASSUME IInv, LoneWriter, [Next]_vars, NEW f \in Fetches,
         result[f] # "success", result'[f] = "success"
  PROVE  /\ file # None /\ file.size > 0
         /\ \/ file.size = Size
            \/ ~call.sized /\ Status(call.mine) = "unknown"
            \/ ~call.sized /\ lost
         /\ file.torn => lost
<1>1. call \in Call /\ call.mine \in Transfers
  BY SuccessEndsWait
<1>2. PICK next \in {"describe", "retry"} : Wait(next)
  BY SuccessEndsWait
<1>3. FileComplete /\ Status(call.mine) \in {"unknown", "complete"}
  BY <1>2 DEF Wait, GiveUp, Return, IInv, TypeOK
<1>4. file # None /\ file.size > 0
  BY <1>3, TransferAssumption DEF FileComplete
<1>5. file.torn => lost
  BY <1>4 DEF LoneWriter
<1>6. ASSUME ~call.sized, Status(call.mine) # "unknown", ~lost
      PROVE  file.size = Size
  <2> DEFINE x == call.mine
  <2>1. transfers[x] # None /\ transfers[x].status = "complete"
    BY <1>3, <1>6 DEF Status
  <2>2. Follows(x)
    BY <1>1, <1>6, <2>1 DEF LoneWriter
  <2> QED BY <1>4, <2>1, <2>2 DEF Follows
<1>7. call.sized => file.size = Size
  BY <1>3 DEF FileComplete
<1> QED BY <1>4, <1>5, <1>6, <1>7

\* A success is the whole image of the one transfer that was waited for, but
\* for the cases the property names (transfer_file_complete, PartialFile).
THEOREM Successes == Spec => SuccessIsImage
<1>1. Init => LoneWriter
  BY DEF Init, LoneWriter
<1>2. IInv /\ LoneWriter /\ [Next]_vars => LoneWriter'
  BY LoneStep
<1>3. IInv /\ LoneWriter /\ [Next]_vars =>
        [\A f \in Fetches :
           result[f] # "success" /\ result'[f] = "success" =>
             /\ file # None /\ file.size > 0
             /\ \/ file.size = Size
                \/ ~call.sized /\ Status(call.mine) = "unknown"
                \/ ~call.sized /\ lost
             /\ file.torn => lost]_vars
  BY SuccessStep
<1> QED BY Invariant, <1>1, <1>2, <1>3, PTL DEF Spec, SuccessIsImage


----------------------------------------------------------------------------
(* MprisArt                                                                *)

Offers(n) ==
    /\ players[n].process = "mpris-proxy"
    /\ players[n].track = Item /\ players[n].file # Null

\* Nothing is read before a file is open; then the pieces are those of the file
\* as it was opened, until it is rewritten.
PiecesAreFile ==
    /\ reader.at # "read" => reader.got = 0 /\ reader.of = {}
    /\ reader.at = "open" => reader.file \in Files
    /\ reader.at = "read" =>
         /\ reader.file \in Files
         /\ reader.size \in 1..Limit /\ reader.got <= reader.size
         /\ ~touched =>
              /\ reader.size = files[reader.file].size
              /\ reader.of = IF reader.got = 0 THEN {}
                             ELSE {files[reader.file].of}

BytesAreRead == answer = "bytes" => reader.at = "read" /\ reader.got = reader.size

\* A player that offers the artwork throughout is ahead of the search, or the
\* one it has come to.
OfferIsAhead ==
    /\ reader.at \in {"metadata", "open", "read"} => reader.name \in Names
    /\ answer = "notReady" => reader.at = "next" /\ reader.left = {}
    /\ answer = "error" => reader.at = "list"
    /\ reader.at # "list" /\ ~late =>
         \A n \in steady \ refused : Offers(n) =>
           n \in reader.left \/ (reader.at # "next" /\ reader.name = n)

MprisInv == MprisTypeOK /\ PiecesAreFile /\ BytesAreRead /\ OfferIsAhead

----------------------------------------------------------------------------
(* Types                                                                   *)

LEMMA ReaderFields ==
  ASSUME MprisAssumption, MprisTypeOK
  PROVE  /\ reader.at \in {"list", "next", "metadata", "open", "read"}
         /\ reader.left \in SUBSET Names /\ reader.name \in Names \cup {Null}
         /\ reader.file \in Files \cup {Null} /\ reader.size \in 0..Limit
         /\ reader.got \in 0..Limit /\ reader.of \in SUBSET {Item, Other}
BY DEF MprisTypeOK, Reader

LEMMA PlayerFields ==
  ASSUME MprisAssumption, MprisTypeOK, NEW n \in Names
  PROVE  /\ players[n].process \in Processes
         /\ players[n].track \in {Item, Other}
         /\ players[n].file \in Files \cup {Null}
BY DEF MprisAssumption, MprisTypeOK, Player

LEMMA FileFields ==
  ASSUME MprisAssumption, MprisTypeOK, NEW f \in Files
  PROVE  files[f].of \in {Item, Other} /\ files[f].size \in 0..Limit + 1
BY DEF MprisAssumption, MprisTypeOK, Artwork

LEMMA ListIs ==
  ASSUME MprisAssumption, MprisTypeOK, List
  PROVE  /\ late' \in BOOLEAN /\ refused' \in SUBSET (Names \cup {Null}) /\ (late => late')
         /\ UNCHANGED bluez /\ answer = Null /\ reader.at = "list"
         /\ \/ reader' = [reader EXCEPT !.at = "next", !.left =
                            {n \in Names : players[n].process # "ended"}]
               /\ answer' = Null
            \/ reader' = reader /\ answer' \in {"error", "timeout"}
<1>0. late \in BOOLEAN /\ refused \in SUBSET (Names \cup {Null})
  BY DEF MprisTypeOK
<1>1. answer = Null /\ reader.at = "list" /\ UNCHANGED bluez
  BY DEF List, ReaderAt
<1>2. CASE Ask(Null, Answer("error"))
  BY <1>0, <1>1, <1>2 DEF Ask, Answer
<1>3. CASE ~Ask(Null, Answer("error"))
  BY <1>0, <1>1, <1>3 DEF List
<1> QED BY <1>2, <1>3

LEMMA InspectIs ==
  ASSUME MprisAssumption, MprisTypeOK, NEW n \in Names, Inspect(n)
  PROVE  LET taken == [reader EXCEPT !.left = @ \ {n}, !.name = n] IN
         /\ late' \in BOOLEAN /\ refused' \in SUBSET (Names \cup {Null}) /\ (late => late')
         /\ refused \subseteq refused'
         /\ UNCHANGED bluez /\ answer = Null /\ reader.at = "next"
         /\ n \in reader.left
         /\ \/ players[n].process = "mpris-proxy" /\ answer' = Null
               /\ reader' = [taken EXCEPT !.at = "metadata"]
            \/ /\ players[n].process \in {"other", "ended"} \/ late' \/ n \in refused'
               /\ answer' = Null /\ reader' = [taken EXCEPT !.at = "next"]
            \/ players[n].process = "hidden" /\ reader' = reader
               /\ answer' = "unverified"
            \/ late' /\ reader' = reader /\ answer' = "timeout"
<1>0. late \in BOOLEAN /\ refused \in SUBSET (Names \cup {Null})
  BY DEF MprisTypeOK
<1> DEFINE taken == [reader EXCEPT !.left = @ \ {n}, !.name = n]
<1>1. answer = Null /\ reader.at = "next" /\ n \in reader.left /\ UNCHANGED bluez
  BY DEF Inspect, ReaderAt
<1>2. CASE Ask(n, SkipName(taken))
  <2> HIDE DEF taken
  <2>1. SkipName(taken) => reader' = [taken EXCEPT !.at = "next"] /\ answer' = Null
    BY <1>1 DEF SkipName, Continue
  <2>2. Answer("timeout") => reader' = reader /\ answer' = "timeout"
    BY DEF Answer
  <2>3. \/ late' /\ reader' = reader /\ answer' = "timeout" /\ refused' = refused
        \/ /\ late' \/ n \in refused'
           /\ reader' = [taken EXCEPT !.at = "next"] /\ answer' = Null
           /\ refused' \in {refused, refused \cup {n}}
           /\ ~late
    <3>1. CASE late /\ Answer("timeout") /\ UNCHANGED <<late, refused>>
      BY <2>2, <3>1
    <3>2. CASE ~late /\ SkipName(taken) /\ refused' = refused \cup {n} /\ UNCHANGED late
      BY <2>1, <3>2
    <3>3. CASE ~late /\ late' = TRUE /\ SkipName(taken) /\ UNCHANGED refused
      BY <2>1, <3>3
    <3> QED BY <1>2, <3>1, <3>2, <3>3 DEF Ask
  <2>4. late' \in BOOLEAN /\ (late => late')
    BY <1>0, <1>2 DEF Ask
  <2> QED BY <1>0, <1>1, <2>3, <2>4 DEF taken
<1>3. CASE ~Ask(n, SkipName(taken))
  BY <1>0, <1>1, <1>3 DEF Inspect, Answer, Continue
<1> QED BY <1>2, <1>3

LEMMA ReadMetadataIs ==
  ASSUME MprisAssumption, MprisTypeOK, ReadMetadata
  PROVE  LET p == players[reader.name] IN
         /\ late' \in BOOLEAN /\ refused' \in SUBSET (Names \cup {Null}) /\ (late => late')
         /\ refused \subseteq refused'
         /\ UNCHANGED bluez /\ answer = Null /\ reader.at = "metadata"
         /\ \/ /\ p.process = "ended" \/ p.track # Item \/ p.file = Null
                  \/ late' \/ reader.name \in refused'
               /\ answer' = Null /\ reader' = [reader EXCEPT !.at = "next"]
            \/ p.file = Null /\ reader' = reader /\ answer' = "badFile"
            \/ p.file # Null /\ answer' = Null
               /\ reader' = [reader EXCEPT !.at = "open", !.file = p.file]
            \/ late' /\ reader' = reader /\ answer' = "timeout"
<1>0. late \in BOOLEAN /\ refused \in SUBSET (Names \cup {Null})
  BY DEF MprisTypeOK
<1> DEFINE n == reader.name
<1>a. n \in Names \cup {Null}
  BY DEF MprisTypeOK, Reader
<1> HIDE DEF n
<1>1. answer = Null /\ reader.at = "metadata" /\ UNCHANGED bluez
  BY DEF ReadMetadata, ReaderAt
<1>2. CASE Ask(n, SkipName(reader))
  <2>1. SkipName(reader) => reader' = [reader EXCEPT !.at = "next"] /\ answer' = Null
    BY <1>1 DEF SkipName, Continue
  <2>2. Answer("timeout") => reader' = reader /\ answer' = "timeout"
    BY DEF Answer
  <2>3. \/ late' /\ reader' = reader /\ answer' = "timeout" /\ refused' = refused
        \/ /\ late' \/ n \in refused'
           /\ reader' = [reader EXCEPT !.at = "next"] /\ answer' = Null
           /\ refused' \in {refused, refused \cup {n}}
    <3>1. CASE late /\ Answer("timeout") /\ UNCHANGED <<late, refused>>
      BY <2>2, <3>1
    <3>2. CASE ~late /\ SkipName(reader) /\ refused' = refused \cup {n} /\ UNCHANGED late
      BY <2>1, <3>2
    <3>3. CASE ~late /\ late' = TRUE /\ SkipName(reader) /\ UNCHANGED refused
      BY <2>1, <3>3
    <3> QED BY <1>2, <3>1, <3>2, <3>3 DEF Ask
  <2>4. late' \in BOOLEAN /\ (late => late')
    BY <1>0, <1>2 DEF Ask
  <2> QED BY <1>0, <1>a, <1>1, <2>3, <2>4 DEF n
<1>3. CASE ~Ask(n, SkipName(reader))
  BY <1>0, <1>1, <1>3 DEF ReadMetadata, Answer, Continue, n
<1> QED BY <1>2, <1>3
----------------------------------------------------------------------------
(* The invariant is kept                                                   *)

LEMMA InitHolds == ASSUME MprisAssumption, MprisInit PROVE MprisInv
<1> USE DEF MprisInit
<1>1. MprisTypeOK
  <2>1. reader \in Reader
    BY DEF MprisAssumption, Reader
  <2>2. 0 \in 0..MaxChanges /\ {} \subseteq Names \cup {Null}
    BY DEF MprisAssumption
  <2>3. late \in BOOLEAN /\ touched \in BOOLEAN
    OBVIOUS
  <2>4. answer \in Answers \cup {Null} /\ steady \subseteq Names
    OBVIOUS
  <2> QED BY <2>1, <2>2, <2>3, <2>4 DEF MprisTypeOK
<1>2. PiecesAreFile /\ BytesAreRead /\ OfferIsAhead
  BY DEF MprisAssumption, PiecesAreFile, BytesAreRead, OfferIsAhead, Answers
<1> QED BY <1>1, <1>2 DEF MprisInv

LEMMA ListKeeps == ASSUME MprisAssumption, MprisInv, List PROVE MprisInv'
<1>1. MprisTypeOK /\ PiecesAreFile /\ BytesAreRead /\ OfferIsAhead
  BY DEF MprisInv
<1>2. /\ late' \in BOOLEAN /\ refused' \in SUBSET (Names \cup {Null})
      /\ UNCHANGED bluez /\ answer = Null /\ reader.at = "list"
      /\ \/ reader' = [reader EXCEPT !.at = "next", !.left =
                            {n \in Names : players[n].process # "ended"}]
            /\ answer' = Null
         \/ reader' = reader /\ answer' \in {"error", "timeout"}
  BY <1>1, ListIs
<1>3. MprisTypeOK'
  <2> DEFINE listed == {n \in Names : players[n].process # "ended"}
  <2>1. listed \in SUBSET Names
    OBVIOUS
  <2> HIDE DEF listed
  <2>2. [reader EXCEPT !.at = "next", !.left = listed] \in Reader
    BY <1>1, <2>1 DEF MprisTypeOK, Reader
  <2>3. reader' \in Reader /\ answer' \in Answers \cup {Null}
    BY <1>1, <1>2, <2>2 DEF MprisTypeOK, Answers, listed
  <2> QED BY <1>1, <1>2, <2>3 DEF MprisTypeOK, bluez
<1>4. PiecesAreFile' /\ BytesAreRead'
  BY <1>1, <1>2 DEF MprisAssumption, PiecesAreFile, BytesAreRead, MprisTypeOK, Reader, bluez, Answers
<1>5. OfferIsAhead'
  <2>1. CASE reader' = reader /\ answer' \in {"error", "timeout"}
    BY <1>1, <1>2, <2>1 DEF OfferIsAhead
  <2>2. CASE /\ reader' = [reader EXCEPT !.at = "next", !.left =
                            {n \in Names : players[n].process # "ended"}]
             /\ answer' = Null
    <3>1. /\ reader'.at = "next"
          /\ reader'.left = {n \in Names : players[n].process # "ended"}
      BY <1>1, <2>2 DEF MprisTypeOK, Reader
    <3>2. steady' = steady /\ players' = players /\ steady \subseteq Names
      BY <1>1, <1>2 DEF bluez, MprisTypeOK
    <3>3. ASSUME NEW n \in steady', Offers(n)' PROVE n \in reader'.left
      BY <3>1, <3>2, <3>3 DEF Offers
    <3> QED BY <2>2, <3>1, <3>3 DEF MprisAssumption, OfferIsAhead, Answers
  <2> QED BY <1>2, <2>1, <2>2
<1> QED BY <1>3, <1>4, <1>5 DEF MprisInv

LEMMA InspectKeeps ==
  ASSUME MprisAssumption, MprisInv, NEW n \in Names, Inspect(n)
  PROVE  MprisInv'
<1> DEFINE taken == [reader EXCEPT !.left = @ \ {n}, !.name = n]
<1>1. MprisTypeOK /\ PiecesAreFile /\ BytesAreRead /\ OfferIsAhead
  BY DEF MprisInv
<1>2. /\ late' \in BOOLEAN /\ refused' \in SUBSET (Names \cup {Null}) /\ (late => late')
      /\ refused \subseteq refused'
      /\ UNCHANGED bluez /\ answer = Null /\ reader.at = "next"
      /\ n \in reader.left
      /\ \/ players[n].process = "mpris-proxy" /\ answer' = Null
               /\ reader' = [taken EXCEPT !.at = "metadata"]
         \/ /\ players[n].process \in {"other", "ended"} \/ late' \/ n \in refused'
            /\ answer' = Null /\ reader' = [taken EXCEPT !.at = "next"]
         \/ players[n].process = "hidden" /\ reader' = reader
               /\ answer' = "unverified"
         \/ late' /\ reader' = reader /\ answer' = "timeout"
  BY <1>1, InspectIs
<1>3. MprisTypeOK'
  <2>1. reader \in Reader
    BY <1>1 DEF MprisTypeOK
  <2>2. /\ [taken EXCEPT !.at = "metadata"] \in Reader
        /\ [taken EXCEPT !.at = "next"] \in Reader
    BY <2>1 DEF Reader
  <2>3. reader' \in Reader
    BY <2>1, <2>2, <1>2
  <2>4. answer' \in Answers \cup {Null}
    BY <1>2 DEF Answers
  <2> QED BY <2>3, <2>4, <1>1, <1>2 DEF MprisTypeOK, bluez
<1>4. PiecesAreFile' /\ BytesAreRead'
  BY <1>1, <1>2, ZenonT(60) DEF MprisAssumption, PiecesAreFile, BytesAreRead, MprisTypeOK, Reader, bluez, Answers
<1>5. OfferIsAhead'
  <2>1. /\ steady' = steady /\ players' = players
    BY <1>2 DEF bluez
  <2>2. /\ answer' # "notReady" /\ answer' # "error"
    BY <1>2 DEF MprisAssumption, Answers
  <2>3. \/ reader' = reader
        \/ /\ reader'.left = reader.left \ {n} /\ reader'.name = n
           /\ reader'.at \in {"next", "metadata"}
    BY <1>1, <1>2 DEF MprisTypeOK, Reader
  <2>4. reader'.at \in {"metadata", "open", "read"} => reader'.name \in Names
    BY <1>1, <2>3 DEF OfferIsAhead
  <2>5. ASSUME ~late', NEW m \in steady' \ refused', Offers(m)'
        PROVE  m \in reader'.left \/ (reader'.at # "next" /\ reader'.name = m)
    <3>1. ~late /\ m \in steady \ refused /\ Offers(m)
      BY <1>2, <2>1, <2>5 DEF Offers
    <3>2. m \in reader.left
      BY <1>1, <1>2, <3>1 DEF OfferIsAhead
    <3>3. CASE m # n
      BY <2>3, <3>2, <3>3
    <3>4. CASE m = n
      <4>1. players[n].process = "mpris-proxy"
        BY <3>1, <3>4 DEF Offers
      <4>2. \/ reader' = [taken EXCEPT !.at = "metadata"]
            \/ reader' = reader
        BY <1>2, <2>5, <3>4, <4>1
      <4> QED BY <1>1, <3>2, <3>4, <4>2 DEF MprisTypeOK, Reader
    <3> QED BY <3>3, <3>4
  <2> QED BY <2>2, <2>4, <2>5 DEF OfferIsAhead
<1> QED BY <1>3, <1>4, <1>5 DEF MprisInv

LEMMA ReadMetadataKeeps ==
  ASSUME MprisAssumption, MprisInv, ReadMetadata
  PROVE  MprisInv'
<1> DEFINE p == players[reader.name]
<1>1. MprisTypeOK /\ PiecesAreFile /\ BytesAreRead /\ OfferIsAhead
  BY DEF MprisInv
<1>2. /\ late' \in BOOLEAN /\ refused' \in SUBSET (Names \cup {Null}) /\ (late => late')
      /\ refused \subseteq refused'
      /\ UNCHANGED bluez /\ answer = Null /\ reader.at = "metadata"
      /\ \/ /\ p.process = "ended" \/ p.track # Item \/ p.file = Null
                  \/ late' \/ reader.name \in refused'
            /\ answer' = Null /\ reader' = [reader EXCEPT !.at = "next"]
         \/ p.file = Null /\ reader' = reader /\ answer' = "badFile"
         \/ p.file # Null /\ answer' = Null
               /\ reader' = [reader EXCEPT !.at = "open", !.file = p.file]
         \/ late' /\ reader' = reader /\ answer' = "timeout"
  BY <1>1, ReadMetadataIs
<1>3. reader.name \in Names
  BY <1>1, <1>2 DEF OfferIsAhead
<1>4. p.file \in Files \cup {Null}
  BY <1>1, <1>3, PlayerFields
<1> HIDE DEF p
<1>5. MprisTypeOK'
  BY <1>1, <1>2, <1>4, ZenonT(60) DEF MprisTypeOK, Reader, Answers, bluez
<1>6. PiecesAreFile' /\ BytesAreRead'
  BY <1>1, <1>2, <1>4 DEF MprisAssumption, PiecesAreFile, BytesAreRead, MprisTypeOK, Reader, bluez, Answers
<1>7. OfferIsAhead'
  <2>1. steady' = steady /\ players' = players
    BY <1>2 DEF bluez
  <2>2. answer' # "notReady" /\ answer' # "error"
    BY <1>2 DEF MprisAssumption, Answers
  <2>3. reader'.left = reader.left /\ reader'.name = reader.name
    BY <1>1, <1>2 DEF MprisTypeOK, Reader
  <2>4. ASSUME ~late', NEW m \in steady' \ refused', Offers(m)'
        PROVE  m \in reader'.left \/ (reader'.at # "next" /\ reader'.name = m)
    <3>1. ~late /\ m \in steady \ refused /\ Offers(m)
      BY <1>2, <2>1, <2>4 DEF Offers
    <3>2. m \in reader.left \/ reader.name = m
      BY <1>1, <1>2, <3>1 DEF OfferIsAhead
    <3>3. CASE reader.name = m
      <4>1. p.process # "ended" /\ p.track = Item /\ p.file # Null
        BY <3>1, <3>3 DEF Offers, p
      <4>2. reader'.at # "next"
        BY <1>1, <1>2, <2>4, <3>3, <4>1 DEF MprisTypeOK, Reader
      <4> QED BY <2>3, <3>3, <4>2
    <3> QED BY <2>3, <3>2, <3>3
  <2> QED BY <1>3, <2>2, <2>3, <2>4 DEF OfferIsAhead
<1> QED BY <1>5, <1>6, <1>7 DEF MprisInv

LEMMA OpenFileKeeps == ASSUME MprisAssumption, MprisInv, OpenFile PROVE MprisInv'
<1>1. MprisTypeOK /\ PiecesAreFile /\ BytesAreRead /\ OfferIsAhead
  BY DEF MprisInv
<1>2. /\ answer = Null /\ reader.at = "open" /\ reader.file \in Files
      /\ touched' = FALSE
      /\ UNCHANGED <<late, refused, players, files, changes, steady>>
      /\ \/ /\ files[reader.file].size \in 1..Limit /\ answer' = answer
            /\ reader' = [reader EXCEPT !.at = "read", !.size = files[reader.file].size]
         \/ reader' = reader /\ answer' = "badFile"
  BY <1>1 DEF OpenFile, ReaderAt, Answer, PiecesAreFile
<1>3. OfferIsAhead'
  BY <1>1, <1>2 DEF MprisAssumption, OfferIsAhead, Offers, MprisTypeOK, Reader, Answers
<1> DEFINE size == files[reader.file].size
<1>4. \/ /\ size \in 1..Limit /\ answer' = answer
         /\ reader' = [reader EXCEPT !.at = "read", !.size = size]
      \/ reader' = reader /\ answer' = "badFile"
  BY <1>2
<1>5. CASE reader' = reader /\ answer' = "badFile"
  <2>1. MprisTypeOK'
    BY <1>1, <1>2, <1>5 DEF MprisTypeOK, Answers
  <2>2. PiecesAreFile' /\ BytesAreRead'
    BY <1>1, <1>2, <1>5 DEF PiecesAreFile, BytesAreRead
  <2> QED BY <1>3, <2>1, <2>2 DEF MprisInv
<1>6. CASE /\ size \in 1..Limit /\ answer' = answer
           /\ reader' = [reader EXCEPT !.at = "read", !.size = size]
  <2>1. size \in 0..Limit
    BY <1>6 DEF MprisAssumption
  <2>2. files[reader.file].size = size /\ UNCHANGED files
    BY <1>2
  <2> HIDE DEF size
  <2>3. /\ reader' \in Reader
        /\ reader'.at = "read" /\ reader'.size = size /\ reader'.file = reader.file
        /\ reader'.got = reader.got /\ reader'.of = reader.of
    BY <1>1, <1>6, <2>1 DEF MprisTypeOK, Reader
  <2>4. MprisTypeOK'
    BY <1>1, <1>2, <1>6, <2>3 DEF MprisTypeOK
  <2>5. reader.got = 0 /\ reader.of = {} /\ 0 <= size
    BY <1>1, <1>2, <2>1 DEF PiecesAreFile
  <2>6. PiecesAreFile'
    BY <1>2, <1>6, <2>2, <2>3, <2>5 DEF PiecesAreFile
  <2>7. BytesAreRead'
    BY <1>2, <1>6 DEF MprisAssumption, BytesAreRead, Answers
  <2> QED BY <1>3, <2>4, <2>6, <2>7 DEF MprisInv
<1> QED BY <1>5, <1>6, <1>4

LEMMA ReadFileKeeps == ASSUME MprisAssumption, MprisInv, ReadFile PROVE MprisInv'
<1> DEFINE art == files[reader.file]
<1>1. MprisTypeOK /\ PiecesAreFile /\ BytesAreRead /\ OfferIsAhead
  BY DEF MprisInv
<1>2. /\ answer = Null /\ reader.at = "read" /\ reader.file \in Files
      /\ reader.got < reader.size
      /\ UNCHANGED <<late, refused, bluez>>
      /\ \/ /\ answer' = answer
            /\ reader' = [reader EXCEPT !.got = @ + 1, !.of = @ \cup {art.of}]
         \/ reader' = reader /\ answer' = "badFile"
  BY <1>1 DEF ReadFile, ReaderAt, Answer, PiecesAreFile
<1>3. art.of \in {Item, Other} /\ art' = art
  BY <1>1, <1>2, FileFields DEF bluez, MprisTypeOK, Reader
<1>4. /\ reader.size \in 1..Limit /\ reader.got \in 0..Limit /\ Limit \in Nat
      /\ reader.of \in SUBSET {Item, Other}
      /\ reader.got + 1 \in 0..Limit /\ reader.got + 1 <= reader.size
      /\ reader.got + 1 # 0
  BY <1>1, <1>2 DEF MprisAssumption, PiecesAreFile, MprisTypeOK, Reader
<1> DEFINE got == reader.got + 1
           of == reader.of \cup {art.of}
<1>a. got \in 0..Limit /\ of \in SUBSET {Item, Other}
  BY <1>3, <1>4
<1>b. \/ answer' = answer /\ reader' = [reader EXCEPT !.got = got, !.of = of]
      \/ reader' = reader /\ answer' = "badFile"
  BY <1>2
<1> HIDE DEF art, got, of
<1>5. MprisTypeOK'
  <2>1. reader' \in Reader
    BY <1>1, <1>a, <1>b DEF MprisTypeOK, Reader
  <2> QED BY <1>1, <1>2, <1>b, <2>1 DEF MprisTypeOK, Answers, bluez
<1>6. BytesAreRead' /\ OfferIsAhead'
  BY <1>1, <1>2, ZenonT(60) DEF MprisAssumption, BytesAreRead, OfferIsAhead, Offers, bluez, MprisTypeOK, Reader, Answers
<1>7. PiecesAreFile'
  <2>1. CASE reader' = reader
    BY <1>1, <1>2, <2>1 DEF PiecesAreFile, bluez
  <2>2. CASE reader' = [reader EXCEPT !.got = got, !.of = of]
    <3>1. /\ reader'.at = "read" /\ reader'.file = reader.file
          /\ reader'.size = reader.size /\ reader'.got = reader.got + 1
          /\ reader'.of = reader.of \cup {art.of}
      BY <1>1, <1>2, <2>2 DEF MprisTypeOK, Reader, got, of
    <3>2. ASSUME ~touched'
          PROVE  reader'.size = files'[reader'.file].size /\ reader'.of = {files'[reader'.file].of}
      BY <1>1, <1>2, <1>3, <3>1, <3>2 DEF PiecesAreFile, bluez, art
    <3> QED BY <1>2, <1>4, <3>1, <3>2 DEF PiecesAreFile
  <2> QED BY <1>b, <2>1, <2>2
<1> QED BY <1>5, <1>6, <1>7 DEF MprisInv

\* The steps that leave the request where it is.
LEMMA OthersKeep ==
  ASSUME MprisAssumption, MprisInv,
         \/ Exhausted \/ Deliver \/ PassDeadline \/ UNCHANGED mpris
  PROVE  MprisInv'
<1>1. MprisTypeOK /\ PiecesAreFile /\ BytesAreRead /\ OfferIsAhead
  BY DEF MprisInv
<1>2. CASE Exhausted
  BY <1>1, <1>2 DEF MprisInv, MprisTypeOK, PiecesAreFile, BytesAreRead, OfferIsAhead,
     Offers, Exhausted, ReaderAt, Answer, Answers, bluez
<1>3. CASE Deliver
  BY <1>1, <1>3 DEF MprisInv, MprisTypeOK, PiecesAreFile, BytesAreRead, OfferIsAhead,
     Offers, Deliver, ReaderAt, Answer, Answers, bluez
<1>4. CASE PassDeadline
  BY <1>1, <1>4 DEF MprisInv, MprisTypeOK, PiecesAreFile, BytesAreRead, OfferIsAhead,
     Offers, PassDeadline, bluez
<1>5. CASE UNCHANGED mpris
  BY <1>1, <1>5 DEF MprisInv, MprisTypeOK, PiecesAreFile, BytesAreRead, OfferIsAhead,
     Offers, mpris, bluez
<1> QED BY <1>2, <1>3, <1>4, <1>5

LEMMA ChangePlayerKeeps ==
  ASSUME MprisAssumption, MprisInv, NEW n \in Names, NEW p \in Published, ChangePlayer(n, p)
  PROVE  MprisInv'
<1>1. MprisTypeOK /\ PiecesAreFile /\ BytesAreRead /\ OfferIsAhead
  BY DEF MprisInv
<1>2. /\ UNCHANGED <<reader, answer, late, files, refused, touched>>
      /\ changes' \in 0..MaxChanges
      /\ players' = [players EXCEPT ![n] = p] /\ steady' = steady \ {n}
  BY <1>1 DEF MprisAssumption, ChangePlayer, Change, MprisTypeOK
<1>3. MprisTypeOK'
  BY <1>1, <1>2 DEF MprisTypeOK
<1>4. PiecesAreFile' /\ BytesAreRead'
  BY <1>1, <1>2 DEF PiecesAreFile, BytesAreRead
<1>5. \A m \in steady' : m \in steady /\ players'[m] = players[m]
  BY <1>1, <1>2 DEF MprisTypeOK
<1>6. OfferIsAhead'
  BY <1>1, <1>2, <1>5 DEF OfferIsAhead, Offers
<1> QED BY <1>3, <1>4, <1>6 DEF MprisInv

LEMMA RewriteFileKeeps ==
  ASSUME MprisAssumption, MprisInv, NEW f \in Files, NEW g \in Contents, RewriteFile(f, g)
  PROVE  MprisInv'
<1>1. MprisTypeOK /\ PiecesAreFile /\ BytesAreRead /\ OfferIsAhead
  BY DEF MprisInv
<1>2. /\ UNCHANGED <<reader, answer, late, players, refused>>
      /\ changes' \in 0..MaxChanges
      /\ files' = [files EXCEPT ![f] = g] /\ steady' \subseteq steady
      /\ touched' = (touched \/ reader.file = f)
  BY <1>1 DEF MprisAssumption, RewriteFile, Change, MprisTypeOK
<1>3. MprisTypeOK'
  BY <1>1, <1>2 DEF MprisTypeOK
<1>4. /\ ~touched' => ~touched
      /\ ~touched' /\ reader.file \in Files => files'[reader.file] = files[reader.file]
  BY <1>1, <1>2 DEF MprisTypeOK
<1>5. PiecesAreFile' /\ BytesAreRead' /\ OfferIsAhead'
  BY <1>1, <1>2, <1>4 DEF PiecesAreFile, BytesAreRead, OfferIsAhead, Offers
<1> QED BY <1>3, <1>5 DEF MprisInv

LEMMA NextKeeps == ASSUME MprisAssumption, MprisInv, [MprisNext]_mpris PROVE MprisInv'
<1>1. CASE List
  BY <1>1, ListKeeps
<1>2. CASE ReadMetadata
  BY <1>2, ReadMetadataKeeps
<1>3. CASE OpenFile
  BY <1>3, OpenFileKeeps
<1>4. CASE ReadFile
  BY <1>4, ReadFileKeeps
<1>5. CASE \E n \in Names : Inspect(n)
  BY <1>5, InspectKeeps
<1>6. CASE Exhausted \/ Deliver \/ PassDeadline \/ UNCHANGED mpris
  BY <1>6, OthersKeep
<1>7. CASE \E n \in Names, p \in Published : ChangePlayer(n, p)
  BY <1>7, ChangePlayerKeeps
<1>8. CASE \E f \in Files, g \in Contents : RewriteFile(f, g)
  BY <1>8, RewriteFileKeeps
<1> QED BY <1>1, <1>2, <1>3, <1>4, <1>5, <1>6, <1>7, <1>8 DEF MprisNext, MprisRequest

----------------------------------------------------------------------------
(* The theorems                                                            *)

\* What the request knows of its file and of the names it has passed over is
\* an invariant of every interleaving with the players (get_mpris_cover_art).
THEOREM MprisInvariant == MprisSpec => []MprisInv
<1>1. MprisInit => MprisInv
  BY InitHolds, MprisAssumption
<1>2. MprisInv /\ [MprisNext]_mpris => MprisInv'
  BY NextKeeps, MprisAssumption
<1> QED BY <1>1, <1>2, PTL DEF MprisSpec

\* Every reachable state is of the declared types: no more is read than the
\* limit, whatever the files hold (read_cover_art_file).
THEOREM MprisTypeCorrect == MprisSpec => []MprisTypeOK
<1>1. MprisInv => MprisTypeOK
  BY DEF MprisInv
<1> QED BY <1>1, MprisInvariant, PTL

\* Bytes that are returned are one whole file, as it was when it was opened,
\* unless it was rewritten in place (read_cover_art_file).
THEOREM OneFile == MprisSpec => []BytesAreOneFile
<1>1. MprisInv => BytesAreOneFile
  BY DEF MprisInv, MprisTypeOK, Reader, PiecesAreFile, BytesAreRead, BytesAreOneFile
<1> QED BY <1>1, MprisInvariant, PTL

\* However many names there are and whichever of them refuse a call, the search
\* does not miss a player that offers the artwork throughout and refuses none
\* (get_mpris_cover_art's handler inside its loop); a name whose process or file
\* cannot be used ends the search with an error of its own.
THEOREM Found == MprisSpec => []OfferIsFound
<1>1. MprisInv => OfferIsFound
  BY DEF MprisInv, OfferIsAhead, OfferIsFound, Offers
<1> QED BY <1>1, MprisInvariant, PTL

=============================================================================
