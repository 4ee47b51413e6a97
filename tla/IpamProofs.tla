----------------------------- MODULE IpamProofs -----------------------------
(***************************************************************************)
(* Proofs about Ipam.  Type correctness holds for any number of processes; *)
(* the safety properties are proved for one process, whatever its threads, *)
(* the subnet, the names and the number of failed requests.                *)
(***************************************************************************)
EXTENDS Ipam, TLAPS

Working == Requests \union {"done"}

\* A call in progress holds ipam.lock of its process.
LockInv == \A t \in Thread : pc[t] # "idle" => lock[procOf[t]] = t

\* At most one call is in progress, over all the processes.
Serial == \A s, t \in Thread : pc[s] # "idle" /\ pc[t] # "idle" => s = t

\* What the arguments and the search are at each request.
ArgsInv ==
    \A t \in Thread :
        /\ pc[t] \in {"exist", "readLast", "check", "writeIP", "writeLast"}
              => op[t] = "require"
        /\ pc[t] # "idle" => op[t] \in {"require", "release"}
        /\ pc[t] \in {"relDelete", "check", "writeIP", "writeLast"}
              => cur[t] \in Addresses
        /\ pc[t] = "readLast" => reqIP[t] = NoIP
        /\ pc[t] = "check" /\ reqIP[t] = NoIP => endIP[t] \in Addresses
        /\ pc[t] = "check" /\ reqIP[t] # NoIP => cur[t] = reqIP[t]

\* What the store holds at the address a call is working on.
OwnInv ==
    \A t \in Thread :
        /\ pc[t] = "writeIP" => owner[cur[t]] = Free
        /\ pc[t] \in {"relDelete", "writeLast"} => owner[cur[t]] = id[t]
        /\ pc[t] = "done" /\ op[t] = "require" /\ status[t] = "ok"
              => cur[t] \in Addresses /\ owner[cur[t]] = id[t]

\* The addresses a search that now probes c and ends with e has behind it.
Probed(c, e) ==
    {a \in Addresses : IF c > e THEN e < a /\ a < c ELSE a > e \/ a < c}

\* The search has found no free address so far.
SearchInv ==
    \A t \in Thread :
        pc[t] = "check" /\ reqIP[t] = NoIP
            => \A a \in Probed(cur[t], endIP[t]) : owner[a] # Free

\* Without failed requests a name that is about to get an address has none.
NoneYet ==
    faults = 0 => \A t \in Thread :
        pc[t] \in {"readLast", "check", "writeIP"} => Owned(id[t]) = {}

\* Without failed requests every owner is in ipamCache, or about to be.
CacheInv ==
    faults = 0 => \A p \in Proc, a \in Addresses :
        \/ owner[a] = Free
        \/ owner[a] \in cache[p]
        \/ \E t \in Thread : pc[t] = "writeLast" /\ id[t] = owner[a]

CoreInv == TypeOK /\ LockInv /\ ArgsInv /\ OwnInv

\* The steps FreesOwnAddress and SearchAdvances allow.
FreesOwn ==
    \A ip \in Addresses : owner[ip] # Free /\ owner'[ip] = Free =>
        \E t \in Thread : pc[t] = "relDelete" /\ id[t] = owner[ip]

Nearer ==
    \A t \in Thread : pc[t] = "check" /\ pc'[t] = "check" /\ cur'[t] # cur[t] =>
        Distance(cur'[t], endIP'[t]) < Distance(cur[t], endIP[t])

IInv == /\ CoreInv
        /\ SearchInv
        /\ RefusalsTrue
        /\ NoneYet
        /\ AtMostOneAddress
        /\ CacheInv

-----------------------------------------------------------------------------
(* The address range.                                                      *)

(***************************************************************************)
(* The bounds of the range are integers, in order: what NewIPAllocator     *)
(* computes from the mask.                                                 *)
(***************************************************************************)
LEMMA RangeBounds ==
    rangeStart \in Int /\ rangeEnd \in Int /\ rangeStart <= rangeEnd
<1>1. SubnetIP % SubnetSize \in Int
  BY SubnetAssumption
<1>2. network \in Int
  BY <1>1, SubnetAssumption DEF network
<1> QED
  BY <1>2, SubnetAssumption, RangeAssumption DEF rangeStart, rangeEnd

(***************************************************************************)
(* nextIP stays in the range, and what validateRangeIP lets through is an  *)
(* address of it; nil is not.                                              *)
(***************************************************************************)
LEMMA RangeClosed ==
    /\ NoIP \notin Addresses
    /\ \A a \in Addresses : a \in Int /\ nextIP(a) \in Addresses
    /\ \A r \in Int : validateRangeIP(r) => r \in Addresses
BY RangeBounds, SubnetAssumption DEF Addresses, nextIP, NextIP, validateRangeIP

(***************************************************************************)
(* getSearchRange returns two addresses of the range, and the first is the *)
(* one after the last: a search that starts has nothing behind it.         *)
(***************************************************************************)
LEMMA SearchRange ==
    ASSUME NEW last \in Addresses \union {NoIP}
    PROVE  /\ getSearchRange(last).first \in Addresses
           /\ getSearchRange(last).end \in Addresses
           /\ getSearchRange(last).first = nextIP(getSearchRange(last).end)
<1>1. rangeStart \in Addresses /\ rangeEnd \in Addresses
  BY RangeBounds DEF Addresses
<1>2. nextIP(rangeEnd) = rangeStart
  BY DEF nextIP
<1> QED
  BY <1>1, <1>2, RangeClosed DEF getSearchRange

(***************************************************************************)
(* One round of the loop of IPAllocator.Get: the address just probed joins *)
(* those behind the search, and at the end of it they are the whole range. *)
(***************************************************************************)
LEMMA ProbedStep ==
    ASSUME NEW c \in Addresses, NEW e \in Addresses
    PROVE  /\ Probed(nextIP(e), e) = {}
           /\ c # e => Probed(nextIP(c), e) \subseteq Probed(c, e) \union {c}
           /\ c = e => Addresses \subseteq Probed(c, e) \union {c}
<1>1. /\ c \in Int /\ e \in Int
      /\ rangeStart <= c /\ c <= rangeEnd
      /\ rangeStart <= e /\ e <= rangeEnd
  BY RangeBounds DEF Addresses
<1>2. \A a \in Addresses : a \in Int /\ rangeStart <= a /\ a <= rangeEnd
  BY RangeBounds DEF Addresses
<1>3. ASSUME NEW a \in Probed(nextIP(e), e)
      PROVE  FALSE
  <2>1. /\ a \in Int /\ rangeStart <= a /\ a <= rangeEnd
        /\ IF nextIP(e) > e THEN e < a /\ a < nextIP(e)
                            ELSE a > e \/ a < nextIP(e)
    BY <1>2 DEF Probed
  <2>2. CASE e = rangeEnd
    BY <1>1, <2>1, <2>2, RangeBounds DEF nextIP
  <2>3. CASE e # rangeEnd
    BY <1>1, <2>1, <2>3 DEF nextIP, NextIP
  <2> QED
    BY <2>2, <2>3
<1>4. ASSUME c # e, NEW a \in Probed(nextIP(c), e), a # c
      PROVE  a \in Probed(c, e)
  <2>1. a \in Addresses /\ a \in Int /\ rangeStart <= a /\ a <= rangeEnd
    BY <1>2, <1>4 DEF Probed
  <2>2. CASE c = rangeEnd
    <3>1. nextIP(c) = rangeStart /\ ~ (rangeStart > e) /\ c > e
      BY <1>1, <1>4, <2>2, RangeBounds DEF nextIP
    <3> QED
      BY <1>1, <1>4, <2>1, <2>2, <3>1, RangeBounds DEF Probed
  <2>3. CASE c # rangeEnd
    <3>1. nextIP(c) = c + 1
      BY <2>3 DEF nextIP, NextIP
    <3> QED
      BY <1>1, <1>4, <2>1, <3>1 DEF Probed
  <2> QED
    BY <2>2, <2>3
<1>5. ASSUME c = e, NEW a \in Addresses, a # c
      PROVE  a \in Probed(c, e)
  BY <1>1, <1>2, <1>5 DEF Probed
<1> QED
  BY <1>3, <1>4, <1>5

-----------------------------------------------------------------------------
(* Type correctness.                                                       *)

(***************************************************************************)
(* The head of IPAllocator.Get keeps the types of what it assigns.         *)
(***************************************************************************)
LEMMA StartGetType ==
    ASSUME TypeOK, NEW t \in Thread, StartGet(t)
    PROVE  /\ pc' \in [Thread -> Requests \union {"idle", "done"}]
           /\ cur' \in [Thread -> Addresses \union {NoIP}]
           /\ status' \in [Thread -> {"none", "ok"} \union Failures]
           /\ \A s \in Thread \ {t} : pc'[s] = pc[s]
<1>1. reqIP[t] = NoIP \/ reqIP[t] \in Int
  BY IpamAssumption DEF TypeOK
<1>2. reqIP[t] # NoIP /\ validateRangeIP(reqIP[t]) => reqIP[t] \in Addresses
  BY <1>1, RangeClosed
<1>3. CASE reqIP[t] = NoIP /\ Goto(t, "readLast") /\ UNCHANGED <<cur, status>>
  BY <1>3 DEF TypeOK, Goto, Requests
<1>4. CASE /\ reqIP[t] # NoIP /\ validateRangeIP(reqIP[t])
           /\ Goto(t, "check")
           /\ cur' = [cur EXCEPT ![t] = reqIP[t]]
           /\ UNCHANGED status
  BY <1>2, <1>4 DEF TypeOK, Goto, Requests
<1>5. CASE Finish(t, "invalid") /\ UNCHANGED cur
  BY <1>5 DEF TypeOK, Goto, Finish, Failures
<1> QED
  BY <1>3, <1>4, <1>5 DEF StartGet

(***************************************************************************)
(* The bound on failed requests.                                           *)
(***************************************************************************)
LEMMA FaultsType ==
    ASSUME TypeOK, StoreError
    PROVE  faults' \in 0 .. MaxFaults /\ faults' # 0
BY IpamAssumption DEF TypeOK, StoreError

(***************************************************************************)
(* So does what follows IPAllocator.Release.                               *)
(***************************************************************************)
LEMMA AfterReleaseType ==
    ASSUME TypeOK, NEW t \in Thread, NEW err \in BOOLEAN, AfterRelease(t, err)
    PROVE  /\ pc' \in [Thread -> Requests \union {"idle", "done"}]
           /\ cur' \in [Thread -> Addresses \union {NoIP}]
           /\ status' \in [Thread -> {"none", "ok"} \union Failures]
           /\ cache' \in [Proc -> SUBSET (Id \union Addresses)]
           /\ \A s \in Thread \ {t} : pc'[s] = pc[s]
<1>1. CASE op[t] = "require" /\ StartGet(t) /\ UNCHANGED cache
  BY <1>1, StartGetType DEF TypeOK
<1>2. CASE /\ Finish(t, IF err THEN "error" ELSE "ok")
           /\ cache' = IF err THEN cache
                       ELSE [cache EXCEPT ![procOf[t]] = @ \ {id[t]}]
           /\ UNCHANGED cur
  <2>1. cache' \in [Proc -> SUBSET (Id \union Addresses)]
    BY <1>2, IpamAssumption DEF TypeOK
  <2> QED
    BY <1>2, <2>1 DEF TypeOK, Finish, Goto, Requests, Failures
<1> QED
  BY <1>1, <1>2 DEF AfterRelease

(***************************************************************************)
(* The variables keep their types under every step: in particular a search *)
(* never leaves the range and nothing but addresses of the range is ever   *)
(* written as reserved.                                                    *)
(***************************************************************************)
LEMMA TypeStep == TypeOK /\ ArgsInv /\ [Next]_vars => TypeOK'
<1> SUFFICES ASSUME TypeOK, ArgsInv, [Next]_vars PROVE TypeOK'
  OBVIOUS
<1> USE DEF TypeOK
<1>1. ASSUME NEW t \in Thread, NEW i \in Id, NEW r \in Request \union {NoIP},
             RequireIP(t, i, r)
      PROVE  TypeOK'
  BY <1>1, IpamAssumption DEF RequireIP, Lock, Goto, store, Requests
<1>2. ASSUME NEW t \in Thread, NEW i \in Id, ReleaseIP(t, i)
      PROVE  TypeOK'
  BY <1>2, IpamAssumption DEF ReleaseIP, Lock, Goto, store, Requests
<1>3. ASSUME NEW t \in Thread, Return(t)
      PROVE  TypeOK'
  BY <1>3, IpamAssumption DEF Return, Goto, store, Requests
<1>4. ASSUME NEW t \in Thread, Exist(t)
      PROVE  TypeOK'
  <2>1. /\ UNCHANGED <<owner, lastReserved, cache, lock, op, id, reqIP, endIP>>
        /\ pc[t] = "exist"
    BY <1>4 DEF Exist, store, args
  <2>2. CASE \E ip \in Owned(id[t]) :
               /\ cur' = [cur EXCEPT ![t] = ip]
               /\ Finish(t, "ok")
               /\ UNCHANGED faults
    BY <2>1, <2>2 DEF Finish, Goto, Requests, Owned
  <2>3. CASE Move(t) /\ UNCHANGED faults
    BY <2>1, <2>3 DEF Move, Goto, Requests
  <2>4. CASE StartGet(t) /\ UNCHANGED faults
    BY <2>1, <2>4, StartGetType
  <2>5. CASE StoreError /\ Finish(t, "error") /\ UNCHANGED cur
    BY <2>1, <2>5, IpamAssumption DEF StoreError, Finish, Goto, Requests, Failures
  <2> QED
    BY <1>4, <2>2, <2>3, <2>4, <2>5 DEF Exist
<1>5. ASSUME NEW t \in Thread, RelExist(t)
      PROVE  TypeOK'
  <2>1. /\ UNCHANGED <<owner, lastReserved, lock, op, id, reqIP, endIP>>
        /\ pc[t] = "relExist"
    BY <1>5 DEF RelExist, store, args
  <2>2. CASE \E ip \in Owned(id[t]) :
               /\ cur' = [cur EXCEPT ![t] = ip]
               /\ Goto(t, "relDelete")
               /\ UNCHANGED <<cache, status, faults>>
    BY <2>1, <2>2 DEF Goto, Requests, Owned
  <2>3. CASE AfterRelease(t, FALSE) /\ UNCHANGED faults
    BY <2>1, <2>3, AfterReleaseType
  <2>4. CASE StoreError /\ AfterRelease(t, TRUE)
    BY <2>1, <2>4, AfterReleaseType, FaultsType
  <2> QED
    BY <1>5, <2>2, <2>3, <2>4 DEF RelExist
<1>6. ASSUME NEW t \in Thread, RelDelete(t)
      PROVE  TypeOK'
  <2>1. /\ UNCHANGED <<lastReserved, lock, op, id, reqIP, endIP>>
        /\ pc[t] = "relDelete"
        /\ owner' \in [Addresses -> Id \union {Free}]
    BY <1>6 DEF RelDelete, args
  <2>2. CASE AfterRelease(t, FALSE) /\ UNCHANGED faults
    BY <2>1, <2>2, AfterReleaseType
  <2>3. CASE AfterRelease(t, TRUE) /\ UNCHANGED faults
    BY <2>1, <2>3, AfterReleaseType
  <2>4. CASE StoreError /\ AfterRelease(t, TRUE)
    BY <2>1, <2>4, AfterReleaseType, FaultsType
  <2> QED
    BY <1>6, <2>2, <2>3, <2>4 DEF RelDelete
<1>7. ASSUME NEW t \in Thread, ReadLast(t)
      PROVE  TypeOK'
  <2>1. PICK last \in {lastReserved, NoIP} :
          /\ last # lastReserved => StoreError
          /\ last = lastReserved => UNCHANGED faults
          /\ cur' = [cur EXCEPT ![t] = getSearchRange(last).first]
          /\ endIP' = [endIP EXCEPT ![t] = getSearchRange(last).end]
    BY <1>7 DEF ReadLast
  <2>2. /\ getSearchRange(last).first \in Addresses
        /\ getSearchRange(last).end \in Addresses
    BY <2>1, SearchRange
  <2> QED
    BY <1>7, <2>1, <2>2, IpamAssumption
    DEF ReadLast, StoreError, Goto, store, args, Requests
<1>8. ASSUME NEW t \in Thread, Check(t)
      PROVE  TypeOK'
  <2>1. cur[t] \in Addresses /\ nextIP(cur[t]) \in Addresses
    BY <1>8, RangeClosed DEF Check, ArgsInv
  <2>2. /\ UNCHANGED <<owner, lastReserved, cache, lock, op, id, reqIP, endIP>>
        /\ pc[t] = "check"
    BY <1>8 DEF Check, store, args
  <2>3. CASE Goto(t, "writeIP") /\ UNCHANGED <<cur, status, faults>>
    BY <2>2, <2>3 DEF Goto, Requests
  <2>4. CASE /\ \E s \in {"taken", "full"} : Finish(t, s)
             /\ UNCHANGED <<cur, faults>>
    BY <2>2, <2>4 DEF Finish, Goto, Requests, Failures
  <2>5. CASE /\ cur' = [cur EXCEPT ![t] = nextIP(cur[t])]
             /\ UNCHANGED <<pc, status, faults>>
    BY <2>1, <2>2, <2>5
  <2>6. CASE StoreError /\ Finish(t, "error") /\ UNCHANGED cur
    BY <2>2, <2>6, IpamAssumption DEF StoreError, Finish, Goto, Requests, Failures
  <2> QED
    BY <1>8, <2>3, <2>4, <2>5, <2>6 DEF Check
<1>9. ASSUME NEW t \in Thread, WriteIP(t)
      PROVE  TypeOK'
  BY <1>9, IpamAssumption
  DEF WriteIP, StoreError, Finish, Goto, args, Requests, Failures
<1>10. ASSUME NEW t \in Thread, WriteLast(t)
       PROVE  TypeOK'
  BY <1>10, IpamAssumption
  DEF WriteLast, StoreError, Finish, Goto, args, Requests, Failures
<1>11. ASSUME NEW p \in Proc, Restart(p)
       PROVE  TypeOK'
  BY <1>11, IpamAssumption DEF Restart, Recover, store, Requests
<1>12. CASE UNCHANGED vars
  BY <1>12 DEF vars
<1> QED
  BY <1>1, <1>2, <1>3, <1>4, <1>5, <1>6, <1>7, <1>8, <1>9, <1>10, <1>11, <1>12
  DEF Next, Call, Step

(***************************************************************************)
(* The arguments of a call are what each of its requests relies on.        *)
(***************************************************************************)
LEMMA ArgsStep == TypeOK /\ ArgsInv /\ [Next]_vars => ArgsInv'
<1> SUFFICES ASSUME TypeOK, ArgsInv, [Next]_vars PROVE ArgsInv'
  OBVIOUS
<1>start. ASSUME NEW t \in Thread, StartGet(t), op[t] = "require",
                 UNCHANGED <<op, reqIP, endIP>>
          PROVE  ArgsInv'
  <2>1. reqIP[t] = NoIP \/ reqIP[t] \in Int
    BY IpamAssumption DEF TypeOK
  <2>2. reqIP[t] # NoIP /\ validateRangeIP(reqIP[t]) => reqIP[t] \in Addresses
    BY <2>1, RangeClosed
  <2> QED
    BY <1>start, <2>2 DEF ArgsInv, TypeOK, StartGet, Goto, Finish
<1>after. ASSUME NEW t \in Thread, NEW err \in BOOLEAN, AfterRelease(t, err),
                 UNCHANGED <<op, reqIP, endIP>>
          PROVE  ArgsInv'
  <2>1. CASE op[t] = "require" /\ StartGet(t)
    BY <1>start, <1>after, <2>1
  <2>2. CASE /\ op[t] = "release"
             /\ Finish(t, IF err THEN "error" ELSE "ok")
             /\ UNCHANGED cur
    BY <1>after, <2>2 DEF ArgsInv, TypeOK, Goto, Finish
  <2> QED
    BY <1>after, <2>1, <2>2 DEF AfterRelease
<1>1. ASSUME NEW t \in Thread, NEW i \in Id, NEW r \in Request \union {NoIP},
             RequireIP(t, i, r)
      PROVE  ArgsInv'
  BY <1>1 DEF RequireIP, Goto, ArgsInv, TypeOK
<1>2. ASSUME NEW t \in Thread, NEW i \in Id, ReleaseIP(t, i)
      PROVE  ArgsInv'
  BY <1>2 DEF ReleaseIP, Goto, ArgsInv, TypeOK
<1>3. ASSUME NEW t \in Thread, Return(t)
      PROVE  ArgsInv'
  BY <1>3 DEF Return, Goto, ArgsInv, TypeOK
<1>4. ASSUME NEW t \in Thread, Exist(t)
      PROVE  ArgsInv'
  <2>1. pc[t] = "exist" /\ op[t] = "require" /\ UNCHANGED <<op, reqIP, endIP>>
    BY <1>4 DEF Exist, args, ArgsInv
  <2>2. CASE StartGet(t)
    BY <1>start, <2>1, <2>2
  <2>3. CASE Move(t)
    BY <2>1, <2>3 DEF Move, Goto, ArgsInv, TypeOK
  <2>4. CASE \E s : Finish(t, s)
    BY <1>4, <2>1, <2>4 DEF Exist, Move, StartGet, Finish, Goto, ArgsInv, TypeOK
  <2> QED
    BY <1>4, <2>2, <2>3, <2>4 DEF Exist
<1>5. ASSUME NEW t \in Thread, RelExist(t)
      PROVE  ArgsInv'
  <2>1. pc[t] = "relExist" /\ UNCHANGED <<op, reqIP, endIP>>
    BY <1>5 DEF RelExist, args
  <2>2. CASE \E err \in BOOLEAN : AfterRelease(t, err)
    BY <1>after, <2>1, <2>2
  <2>3. CASE \E ip \in Owned(id[t]) :
               cur' = [cur EXCEPT ![t] = ip] /\ Goto(t, "relDelete")
    BY <2>1, <2>3 DEF Goto, Owned, ArgsInv, TypeOK
  <2> QED
    BY <1>5, <2>2, <2>3 DEF RelExist
<1>6. ASSUME NEW t \in Thread, RelDelete(t)
      PROVE  ArgsInv'
  BY <1>6, <1>after DEF RelDelete, args
<1>7. ASSUME NEW t \in Thread, ReadLast(t)
      PROVE  ArgsInv'
  <2>1. PICK last \in {lastReserved, NoIP} :
          /\ cur' = [cur EXCEPT ![t] = getSearchRange(last).first]
          /\ endIP' = [endIP EXCEPT ![t] = getSearchRange(last).end]
    BY <1>7 DEF ReadLast
  <2>2. /\ getSearchRange(last).first \in Addresses
        /\ getSearchRange(last).end \in Addresses
    BY <2>1, SearchRange DEF TypeOK
  <2> QED
    BY <1>7, <2>1, <2>2 DEF ReadLast, Goto, args, ArgsInv, TypeOK
<1>8. ASSUME NEW t \in Thread, Check(t)
      PROVE  ArgsInv'
  <2>1. cur[t] \in Addresses /\ nextIP(cur[t]) \in Addresses
    BY <1>8, RangeClosed DEF Check, ArgsInv
  <2> QED
    BY <1>8, <2>1 DEF Check, Finish, Goto, args, ArgsInv, TypeOK
<1>9. ASSUME NEW t \in Thread, WriteIP(t)
      PROVE  ArgsInv'
  BY <1>9 DEF WriteIP, Finish, Goto, args, ArgsInv, TypeOK
<1>10. ASSUME NEW t \in Thread, WriteLast(t)
       PROVE  ArgsInv'
  BY <1>10 DEF WriteLast, Finish, Goto, args, ArgsInv, TypeOK
<1>11. ASSUME NEW p \in Proc, Restart(p)
       PROVE  ArgsInv'
  BY <1>11 DEF Restart, ArgsInv
<1>12. CASE UNCHANGED vars
  BY <1>12 DEF vars, ArgsInv
<1> QED
  BY <1>1, <1>2, <1>3, <1>4, <1>5, <1>6, <1>7, <1>8, <1>9, <1>10, <1>11, <1>12
  DEF Next, Call, Step

(***************************************************************************)
(* Type correctness, for any number of processes and threads: the search   *)
(* of IPAllocator.Get never leaves the range of the subnet, and nothing    *)
(* outside it is ever recorded as reserved.                                *)
(***************************************************************************)
THEOREM TypeCorrect == Spec => []TypeOK
<1>1. Init => TypeOK /\ ArgsInv
  BY IpamAssumption DEF Init, TypeOK, ArgsInv
<1>2. TypeOK /\ ArgsInv /\ [Next]_vars => (TypeOK /\ ArgsInv)'
  BY TypeStep, ArgsStep
<1> QED
  BY <1>1, <1>2, PTL DEF Spec

-----------------------------------------------------------------------------
(* One call at a time.                                                     *)

(***************************************************************************)
(* A request or a return moves the goroutine that makes it and no other.   *)
(***************************************************************************)
LEMMA StepMoves ==
    ASSUME TypeOK, NEW t \in Thread, Step(t)
    PROVE  /\ pc[t] # "idle"
           /\ \A s \in Thread \ {t} : pc'[s] = pc[s]
<1>1. pc[t] # "idle"
  BY DEF Step, Exist, RelExist, RelDelete, ReadLast, Check, WriteIP, WriteLast,
         Return
<1>2. ASSUME NEW s \in Thread \ {t}
      PROVE  pc'[s] = pc[s]
  <2>1. ASSUME StartGet(t) PROVE pc'[s] = pc[s]
    BY <2>1 DEF StartGet, Finish, Goto, TypeOK
  <2>2. ASSUME NEW err, AfterRelease(t, err) PROVE pc'[s] = pc[s]
    BY <2>1, <2>2 DEF AfterRelease, Finish, Goto, TypeOK
  <2> QED
    BY <2>1, <2>2
    DEF Step, Exist, RelExist, RelDelete, ReadLast, Check, WriteIP, WriteLast,
        Return, Move, Finish, Goto, TypeOK
<1> QED
  BY <1>1, <1>2

(***************************************************************************)
(* A call takes ipam.lock of its process and touches nothing else.         *)
(***************************************************************************)
LEMMA CallMoves ==
    ASSUME TypeOK, NEW t \in Thread, Call(t)
    PROVE  /\ pc[t] = "idle"
           /\ pc'[t] \in {"exist", "relExist"}
           /\ \A s \in Thread \ {t} : pc'[s] = pc[s]
           /\ lock[procOf[t]] = Nobody
           /\ lock' = [lock EXCEPT ![procOf[t]] = t]
           /\ UNCHANGED <<owner, cache, faults>>
BY DEF Call, RequireIP, ReleaseIP, Lock, Goto, store, TypeOK

(***************************************************************************)
(* A restart ends the calls of its process and leaves the others alone.    *)
(***************************************************************************)
LEMMA RestartMoves ==
    ASSUME TypeOK, NEW p \in Proc, Restart(p)
    PROVE  /\ UNCHANGED <<owner, lastReserved, faults>>
           /\ \A q \in Proc \ {p} : lock'[q] = lock[q] /\ cache'[q] = cache[q]
           /\ \A s \in Thread :
                 \/ procOf[s] = p /\ pc'[s] = "idle"
                 \/ /\ procOf[s] # p
                    /\ pc'[s] = pc[s] /\ op'[s] = op[s] /\ id'[s] = id[s]
                    /\ reqIP'[s] = reqIP[s] /\ cur'[s] = cur[s]
                    /\ endIP'[s] = endIP[s] /\ status'[s] = status[s]
BY DEF Restart, store, TypeOK

(***************************************************************************)
(* ipam.lock is held throughout a call, in every process.                  *)
(***************************************************************************)
LEMMA LockStep == TypeOK /\ LockInv /\ [Next]_vars => LockInv'
<1> SUFFICES ASSUME TypeOK, LockInv, [Next]_vars PROVE LockInv'
  OBVIOUS
<1> USE IpamAssumption
<1>1. ASSUME NEW t \in Thread, Call(t) PROVE LockInv'
  <2>1. \A s \in Thread \ {t} : pc[s] # "idle" => procOf[s] # procOf[t]
    BY <1>1, CallMoves DEF LockInv
  <2> QED
    BY <1>1, <2>1, CallMoves DEF LockInv, TypeOK
<1>2. ASSUME NEW t \in Thread, Step(t) PROVE LockInv'
  <2>1. \A s \in Thread \ {t} : pc[s] # "idle" => procOf[s] # procOf[t]
    BY <1>2, StepMoves DEF LockInv
  <2>2. \/ lock' = lock
        \/ pc'[t] = "idle" /\ lock' = [lock EXCEPT ![procOf[t]] = Nobody]
    BY <1>2 DEF Step, Exist, RelExist, RelDelete, ReadLast, Check, WriteIP,
                WriteLast, Return, Goto, TypeOK
  <2> QED
    BY <1>2, <2>1, <2>2, StepMoves DEF LockInv, TypeOK
<1>3. ASSUME NEW p \in Proc, Restart(p) PROVE LockInv'
  BY <1>3, RestartMoves DEF LockInv
<1>4. CASE UNCHANGED vars
  BY <1>4 DEF vars, LockInv
<1> QED
  BY <1>1, <1>2, <1>3, <1>4 DEF Next

(***************************************************************************)
(* In one process ipam.lock serialises the calls.                          *)
(***************************************************************************)
LEMMA OneProcessSerial ==
    ASSUME OneProcess, LockInv
    PROVE  Serial
BY IpamAssumption DEF OneProcess, LockInv, Serial

(***************************************************************************)
(* While calls are serial, a request is made by the one call in progress.  *)
(***************************************************************************)
LEMMA StepAlone ==
    ASSUME TypeOK, Serial, NEW t \in Thread, Step(t)
    PROVE  /\ pc[t] # "idle"
           /\ \A s \in Thread \ {t} : pc[s] = "idle" /\ pc'[s] = "idle"
BY StepMoves DEF Serial

(***************************************************************************)
(* And a call begins when no other is in progress.                         *)
(***************************************************************************)
LEMMA CallAlone ==
    ASSUME TypeOK, Serial', NEW t \in Thread, Call(t)
    PROVE  /\ \A s \in Thread : pc[s] = "idle"
           /\ \A s \in Thread \ {t} : pc'[s] = "idle"
           /\ pc'[t] \in {"exist", "relExist"}
           /\ UNCHANGED <<owner, cache, faults>>
<1>1. ASSUME NEW s \in Thread \ {t}
      PROVE  pc'[s] = "idle" /\ pc[s] = "idle"
  BY CallMoves DEF Serial
<1> QED
  BY <1>1, CallMoves

(***************************************************************************)
(* Between the check and the write of Store.Reserve, and between the       *)
(* lookup and the delete of Store.ReleaseByID, the store does not change   *)
(* under the call.                                                         *)
(***************************************************************************)
LEMMA OwnStep ==
    ASSUME Serial, Serial', CoreInv, [Next]_vars
    PROVE  OwnInv'
<1> USE DEF CoreInv
<1>start. ASSUME NEW t \in Thread, StartGet(t)
          PROVE  \/ pc'[t] \in {"readLast", "check"}
                 \/ pc'[t] = "done" /\ status'[t] = "invalid"
  BY <1>start DEF StartGet, Goto, Finish, TypeOK
<1>after. ASSUME NEW t \in Thread, NEW err \in BOOLEAN, AfterRelease(t, err),
                 UNCHANGED op
          PROVE  \/ pc'[t] \in {"readLast", "check"}
                 \/ pc'[t] = "done" /\ status'[t] = "invalid"
                 \/ pc'[t] = "done" /\ op'[t] = "release"
  BY <1>start, <1>after DEF AfterRelease, Goto, Finish, TypeOK
<1>1. ASSUME NEW t \in Thread, Call(t) PROVE OwnInv'
  BY <1>1, CallAlone DEF OwnInv
<1>2. ASSUME NEW t \in Thread, Step(t) PROVE OwnInv'
  <2>1. \A s \in Thread \ {t} : pc'[s] = "idle"
    BY <1>2, StepAlone
  <2>2. SUFFICES
          /\ pc'[t] = "writeIP" => owner'[cur'[t]] = Free
          /\ pc'[t] \in {"relDelete", "writeLast"} => owner'[cur'[t]] = id'[t]
          /\ pc'[t] = "done" /\ op'[t] = "require" /\ status'[t] = "ok"
                => cur'[t] \in Addresses /\ owner'[cur'[t]] = id'[t]
    BY <2>1 DEF OwnInv
  <2>3. CASE Exist(t)
    <3>1. CASE \E ip \in Owned(id[t]) :
                 cur' = [cur EXCEPT ![t] = ip] /\ Finish(t, "ok")
      BY <2>3, <3>1 DEF Exist, Owned, Finish, Goto, store, args, TypeOK
    <3>2. CASE Move(t) \/ Finish(t, "error")
      BY <3>2 DEF Move, Finish, Goto, TypeOK
    <3>3. CASE StartGet(t)
      BY <3>3, <1>start
    <3> QED
      BY <2>3, <3>1, <3>2, <3>3 DEF Exist
  <2>4. CASE RelExist(t)
    <3>1. CASE \E ip \in Owned(id[t]) :
                 cur' = [cur EXCEPT ![t] = ip] /\ Goto(t, "relDelete")
      BY <2>4, <3>1 DEF RelExist, Owned, Goto, store, args, TypeOK
    <3>2. CASE \E err \in BOOLEAN : AfterRelease(t, err)
      BY <1>after, <2>4, <3>2 DEF RelExist, args
    <3> QED
      BY <2>4, <3>1, <3>2 DEF RelExist
  <2>5. CASE RelDelete(t)
    BY <1>after, <2>5 DEF RelDelete, args
  <2>6. CASE ReadLast(t)
    BY <2>6 DEF ReadLast, Goto, TypeOK
  <2>7. CASE Check(t)
    BY <2>7 DEF Check, Finish, Goto, store, args, TypeOK
  <2>8. CASE WriteIP(t)
    BY <2>8 DEF WriteIP, Finish, Goto, args, TypeOK, ArgsInv
  <2>9. CASE WriteLast(t)
    BY <2>9 DEF WriteLast, Finish, Goto, args, TypeOK, ArgsInv, OwnInv
  <2>10. CASE Return(t)
    BY <2>10 DEF Return, Goto, TypeOK
  <2> QED
    BY <1>2, <2>3, <2>4, <2>5, <2>6, <2>7, <2>8, <2>9, <2>10 DEF Step
<1>3. ASSUME NEW p \in Proc, Restart(p) PROVE OwnInv'
  BY <1>3, RestartMoves DEF OwnInv
<1>4. CASE UNCHANGED vars
  BY <1>4 DEF vars, OwnInv
<1> QED
  BY <1>1, <1>2, <1>3, <1>4 DEF Next

(***************************************************************************)
(* The core of the inductive invariant.                                    *)
(***************************************************************************)
LEMMA CoreStep ==
    ASSUME OneProcess, CoreInv, [Next]_vars
    PROVE  CoreInv' /\ Serial /\ Serial'
<1>1. TypeOK' /\ ArgsInv' /\ LockInv'
  BY TypeStep, ArgsStep, LockStep DEF CoreInv
<1>2. Serial
  BY OneProcessSerial DEF CoreInv
<1>3. Serial'
  BY <1>1, IpamAssumption DEF OneProcess, LockInv, Serial
<1> QED
  BY <1>1, <1>2, <1>3, OwnStep DEF CoreInv

(***************************************************************************)
(* It holds in one process.                                                *)
(***************************************************************************)
LEMMA CoreCorrect == ASSUME OneProcess PROVE Spec => []CoreInv
<1>1. Init => CoreInv
  BY IpamAssumption DEF Init, CoreInv, TypeOK, LockInv, ArgsInv, OwnInv
<1>2. CoreInv /\ [Next]_vars => CoreInv'
  BY CoreStep
<1> QED
  BY <1>1, <1>2, PTL DEF Spec

(***************************************************************************)
(* In one process every address RequireIP reports is recorded in etcd for  *)
(* the name that asked.                                                    *)
(***************************************************************************)
THEOREM OwnedOnReturnHolds == ASSUME OneProcess PROVE Spec => []OwnedOnReturn
<1>1. CoreInv => OwnedOnReturn
  BY DEF CoreInv, OwnInv, OwnedOnReturn
<1> QED
  BY <1>1, CoreCorrect, PTL

(***************************************************************************)
(* The three ways a step can treat the reservations.                       *)
(***************************************************************************)
LEMMA OwnerSteps ==
    ASSUME CoreInv, [Next]_vars
    PROVE  \/ owner' = owner
           \/ \E t \in Thread :
                 /\ pc[t] = "relDelete"
                 /\ cur[t] \in Addresses /\ owner[cur[t]] = id[t] /\ id[t] \in Id
                 /\ owner' = [owner EXCEPT ![cur[t]] = Free]
           \/ \E t \in Thread :
                 /\ pc[t] = "writeIP"
                 /\ cur[t] \in Addresses /\ owner[cur[t]] = Free /\ id[t] \in Id
                 /\ owner' = [owner EXCEPT ![cur[t]] = id[t]]
<1>1. ASSUME NEW t \in Thread, RelDelete(t)
      PROVE  \/ owner' = owner
             \/ owner' = [owner EXCEPT ![cur[t]] = Free]
  BY <1>1 DEF RelDelete
<1>2. ASSUME NEW t \in Thread, WriteIP(t)
      PROVE  \/ owner' = owner
             \/ owner' = [owner EXCEPT ![cur[t]] = id[t]]
  BY <1>2 DEF WriteIP
<1>3. CASE \E t \in Thread : RelDelete(t)
  BY <1>1, <1>3 DEF RelDelete, CoreInv, TypeOK, ArgsInv, OwnInv
<1>4. CASE \E t \in Thread : WriteIP(t)
  BY <1>2, <1>4 DEF WriteIP, CoreInv, TypeOK, ArgsInv, OwnInv
<1>5. CASE ~ \E t \in Thread : RelDelete(t) \/ WriteIP(t)
  BY <1>5 DEF Next, Call, Step, RequireIP, ReleaseIP, Return, Exist, RelExist,
              ReadLast, Check, WriteLast, Restart, store, vars
<1> QED
  BY <1>3, <1>4, <1>5

(***************************************************************************)
(* An address is only freed by a call for the name it belongs to.          *)
(***************************************************************************)
LEMMA FreesOwnStep == CoreInv /\ [Next]_vars => FreesOwn
<1> SUFFICES ASSUME CoreInv, [Next]_vars PROVE FreesOwn
  OBVIOUS
<1>1. owner \in [Addresses -> Id \union {Free}]
  BY DEF CoreInv, TypeOK
<1> QED
  BY <1>1, OwnerSteps DEF FreesOwn

(***************************************************************************)
(* In one process Store.ReleaseByID deletes nobody else's reservation.     *)
(***************************************************************************)
THEOREM FreesOwnAddressHolds == ASSUME OneProcess PROVE Spec => FreesOwnAddress
<1>1. CoreInv /\ [Next]_vars => [FreesOwn]_vars
  BY FreesOwnStep
<1> QED
  BY <1>1, CoreCorrect, PTL DEF Spec, FreesOwnAddress, FreesOwn

(***************************************************************************)
(* A step of the address manager is a step of the abstract pool, or leaves *)
(* the reservations alone.                                                 *)
(***************************************************************************)
LEMMA PoolStep == CoreInv /\ [Next]_vars => [AP!Next]_owner
<1> SUFFICES ASSUME CoreInv, [Next]_vars, owner' # owner
             PROVE  AP!Next
  OBVIOUS
<1>1. CASE \E t \in Thread :
             /\ cur[t] \in Addresses /\ owner[cur[t]] = id[t] /\ id[t] \in Id
             /\ owner' = [owner EXCEPT ![cur[t]] = Free]
  BY <1>1, IpamAssumption DEF AP!Next, AP!Unassign
<1>2. CASE \E t \in Thread :
             /\ cur[t] \in Addresses /\ owner[cur[t]] = Free /\ id[t] \in Id
             /\ owner' = [owner EXCEPT ![cur[t]] = id[t]]
  BY <1>2 DEF AP!Next, AP!Assign
<1> QED
  BY <1>1, <1>2, OwnerSteps

(***************************************************************************)
(* In one process the address manager implements the abstract pool: an     *)
(* address in use is never handed to somebody else.                        *)
(***************************************************************************)
THEOREM ImplementsAddressPool ==
    ASSUME OneProcess PROVE Spec => RefinesAddressPool
<1>1. Init => AP!Init
  BY DEF Init, AP!Init
<1> QED
  BY <1>1, PoolStep, CoreCorrect, PTL DEF Spec, RefinesAddressPool, AP!Spec

-----------------------------------------------------------------------------
(* The search, and what holds while no request has failed.                 *)

(***************************************************************************)
(* Failed requests are counted, never forgotten.                           *)
(***************************************************************************)
LEMMA FaultsGrow ==
    ASSUME TypeOK, [Next]_vars, faults' = 0
    PROVE  faults = 0
<1>1. faults' = faults \/ StoreError
  BY DEF Next, Call, Step, RequireIP, ReleaseIP, Return, Exist, RelExist,
         RelDelete, ReadLast, Check, WriteIP, WriteLast, Restart, vars
<1> QED
  BY <1>1, FaultsType

(***************************************************************************)
(* The head of IPAllocator.Get starts no search and, of the refusals, only *)
(* says "invalid".                                                         *)
(***************************************************************************)
LEMMA StartGetTo ==
    ASSUME TypeOK, NEW t \in Thread, StartGet(t)
    PROVE  \/ pc'[t] = "readLast"
           \/ pc'[t] = "check" /\ reqIP[t] # NoIP
           \/ pc'[t] = "done" /\ status'[t] = "invalid"
BY DEF StartGet, Goto, Finish, TypeOK

(***************************************************************************)
(* Where a call goes after IPAllocator.Release.                            *)
(***************************************************************************)
LEMMA AfterReleaseTo ==
    ASSUME TypeOK, NEW t \in Thread, NEW err \in BOOLEAN, AfterRelease(t, err)
    PROVE  \/ /\ op[t] = "require"
              /\ UNCHANGED cache
              /\ \/ pc'[t] = "readLast"
                 \/ pc'[t] = "check" /\ reqIP[t] # NoIP
                 \/ pc'[t] = "done" /\ status'[t] = "invalid"
           \/ /\ op[t] = "release"
              /\ pc'[t] = "done"
              /\ status'[t] = IF err THEN "error" ELSE "ok"
              /\ cache' = IF err THEN cache
                          ELSE [cache EXCEPT ![procOf[t]] = @ \ {id[t]}]
<1>1. CASE op[t] = "require" /\ StartGet(t) /\ UNCHANGED cache
  BY <1>1, StartGetTo
<1>2. CASE /\ op[t] = "release"
           /\ Finish(t, IF err THEN "error" ELSE "ok")
           /\ cache' = IF err THEN cache
                       ELSE [cache EXCEPT ![procOf[t]] = @ \ {id[t]}]
  BY <1>2 DEF Finish, Goto, TypeOK
<1> QED
  BY <1>1, <1>2 DEF AfterRelease

(***************************************************************************)
(* The search has only taken addresses behind it, so when it gives up all  *)
(* of them are.                                                            *)
(***************************************************************************)
LEMMA SearchStep ==
    ASSUME Serial, Serial', CoreInv, SearchInv, RefusalsTrue, NoneYet,
           [Next]_vars
    PROVE  SearchInv' /\ RefusalsTrue'
<1> USE DEF CoreInv
<1>1. ASSUME NEW t \in Thread, Call(t) PROVE SearchInv' /\ RefusalsTrue'
  BY <1>1, CallAlone DEF SearchInv, RefusalsTrue
<1>2. ASSUME NEW t \in Thread, Step(t) PROVE SearchInv' /\ RefusalsTrue'
  <2>1. \A s \in Thread \ {t} : pc'[s] = "idle"
    BY <1>2, StepAlone
  <2>2. SUFFICES
          /\ pc'[t] = "check" /\ reqIP'[t] = NoIP
                => \A a \in Probed(cur'[t], endIP'[t]) : owner'[a] # Free
          /\ pc'[t] = "done" =>
                /\ status'[t] = "full" => \A ip \in Addresses : owner'[ip] # Free
                /\ status'[t] = "taken" /\ faults' = 0
                      => owner'[reqIP'[t]] \notin {Free, id'[t]}
    BY <2>1 DEF SearchInv, RefusalsTrue, Probed
  <2>3. CASE Exist(t)
    <3>1. CASE StartGet(t)
      BY <2>3, <3>1, StartGetTo DEF Exist, args
    <3>2. CASE Move(t) \/ \E s \in {"ok", "error"} : Finish(t, s)
      BY <3>2 DEF Move, Finish, Goto, TypeOK
    <3> QED
      BY <2>3, <3>1, <3>2 DEF Exist
  <2>4. CASE RelExist(t)
    <3>1. CASE Goto(t, "relDelete")
      BY <3>1 DEF Goto, TypeOK
    <3>2. CASE \E err \in BOOLEAN : AfterRelease(t, err)
      BY <2>4, <3>2, AfterReleaseTo DEF RelExist, args
    <3> QED
      BY <2>4, <3>1, <3>2 DEF RelExist
  <2>5. CASE RelDelete(t)
    BY <2>5, AfterReleaseTo DEF RelDelete, args
  <2>6. CASE ReadLast(t)
    <3>1. PICK last \in {lastReserved, NoIP} :
            /\ cur' = [cur EXCEPT ![t] = getSearchRange(last).first]
            /\ endIP' = [endIP EXCEPT ![t] = getSearchRange(last).end]
      BY <2>6 DEF ReadLast
    <3>2. /\ getSearchRange(last).end \in Addresses
          /\ getSearchRange(last).first = nextIP(getSearchRange(last).end)
      BY <3>1, SearchRange DEF TypeOK
    <3>3. Probed(cur'[t], endIP'[t]) = {}
      BY <3>1, <3>2, ProbedStep DEF TypeOK
    <3> QED
      BY <2>6, <3>3 DEF ReadLast, Goto, TypeOK
  <2>7. CASE Check(t)
    <3>1. /\ pc[t] = "check" /\ cur[t] \in Addresses
          /\ reqIP[t] = NoIP => endIP[t] \in Addresses
          /\ reqIP[t] # NoIP => cur[t] = reqIP[t]
          /\ UNCHANGED <<owner, id, reqIP, endIP>>
      BY <2>7 DEF Check, ArgsInv, store, args
    <3>2. CASE owner[cur[t]] = Free /\ Goto(t, "writeIP")
      BY <3>2 DEF Goto, TypeOK
    <3>3. CASE /\ owner[cur[t]] # Free /\ reqIP[t] # NoIP
               /\ Finish(t, "taken") /\ UNCHANGED faults
      <4>1. faults' = 0 => owner[cur[t]] # id[t]
        BY <3>1, <3>3 DEF NoneYet, Owned
      <4> QED
        BY <3>1, <3>3, <4>1 DEF Finish, Goto, TypeOK
    <3>4. CASE /\ owner[cur[t]] # Free /\ reqIP[t] = NoIP
               /\ cur[t] = endIP[t] /\ Finish(t, "full")
      <4>1. \A a \in Addresses : owner[a] # Free
        BY <3>1, <3>4, ProbedStep DEF SearchInv
      <4> QED
        BY <3>1, <3>4, <4>1 DEF Finish, Goto, TypeOK
    <3>5. CASE /\ owner[cur[t]] # Free /\ reqIP[t] = NoIP
               /\ cur[t] # endIP[t]
               /\ cur' = [cur EXCEPT ![t] = nextIP(cur[t])]
               /\ UNCHANGED pc
      <4>1. cur'[t] = nextIP(cur[t])
        BY <3>5 DEF TypeOK
      <4>2. \A a \in Probed(cur'[t], endIP[t]) : owner[a] # Free
        BY <3>1, <3>5, <4>1, ProbedStep DEF SearchInv
      <4> QED
        BY <3>1, <3>5, <4>2
    <3>6. CASE Finish(t, "error")
      BY <3>6 DEF Finish, Goto, TypeOK
    <3> QED
      BY <2>7, <3>2, <3>3, <3>4, <3>5, <3>6 DEF Check
  <2>8. CASE WriteIP(t)
    BY <2>8 DEF WriteIP, Finish, Goto, TypeOK
  <2>9. CASE WriteLast(t)
    BY <2>9 DEF WriteLast, Finish, Goto, TypeOK
  <2>10. CASE Return(t)
    BY <2>10 DEF Return, Goto, TypeOK
  <2> QED
    BY <1>2, <2>3, <2>4, <2>5, <2>6, <2>7, <2>8, <2>9, <2>10 DEF Step
<1>3. ASSUME NEW p \in Proc, Restart(p) PROVE SearchInv' /\ RefusalsTrue'
  BY <1>3, RestartMoves DEF SearchInv, RefusalsTrue, Probed
<1>4. CASE UNCHANGED vars
  BY <1>4 DEF vars, SearchInv, RefusalsTrue, Probed
<1> QED
  BY <1>1, <1>2, <1>3, <1>4 DEF Next

(***************************************************************************)
(* While no request fails, the delete of Store.Release leaves its caller   *)
(* without an address: it had that one.                                    *)
(***************************************************************************)
LEMMA ReleaseFrees ==
    ASSUME CoreInv, AtMostOneAddress, faults = 0, ~ StoreError,
           NEW t \in Thread, RelDelete(t)
    PROVE  /\ Owned(id[t])' = {} /\ UNCHANGED id
           /\ \A a \in Addresses : owner'[a] \in {owner[a], Free}
<1>1. /\ cur[t] \in Addresses /\ owner[cur[t]] = id[t] /\ id[t] \in Id
      /\ id[t] # Free
  BY IpamAssumption DEF CoreInv, RelDelete, TypeOK, ArgsInv, OwnInv
<1>2. owner' = [owner EXCEPT ![cur[t]] = Free] /\ UNCHANGED id
  BY <1>1 DEF RelDelete, args
<1>3. \A a \in Addresses : owner[a] = id[t] => a = cur[t]
  BY <1>1 DEF AtMostOneAddress
<1>4. \A a \in Addresses : owner'[a] = IF a = cur[t] THEN Free ELSE owner[a]
  BY <1>2 DEF CoreInv, TypeOK
<1> QED
  BY <1>1, <1>2, <1>3, <1>4 DEF Owned

(***************************************************************************)
(* While no request fails: RequireIP has given the old address back before *)
(* it takes another, so a name never has two.                              *)
(***************************************************************************)
LEMMA UniqueStep ==
    ASSUME Serial, Serial', CoreInv, NoneYet, AtMostOneAddress, [Next]_vars
    PROVE  NoneYet' /\ AtMostOneAddress'
<1> USE DEF CoreInv
<1> SUFFICES ASSUME faults' = 0
             PROVE  NoneYet' /\ AtMostOneAddress'
  BY DEF NoneYet, AtMostOneAddress
<1>0. faults = 0
  BY FaultsGrow
<1>1. ASSUME NEW t \in Thread, Call(t)
      PROVE  NoneYet' /\ AtMostOneAddress'
  BY <1>0, <1>1, CallAlone DEF NoneYet, AtMostOneAddress
<1>2. ASSUME NEW t \in Thread, Step(t)
      PROVE  NoneYet' /\ AtMostOneAddress'
  <2>1. \A s \in Thread \ {t} : pc[s] = "idle" /\ pc'[s] = "idle"
    BY <1>2, StepAlone
  <2>2. ~ StoreError
    BY <1>0, FaultsType
  <2>quiet. ASSUME UNCHANGED <<owner, id>>,
                   pc'[t] \in {"readLast", "check", "writeIP"} => Owned(id[t]) = {}
            PROVE  NoneYet' /\ AtMostOneAddress'
    BY <1>0, <2>1, <2>quiet DEF NoneYet, AtMostOneAddress, Owned
  <2>free. ASSUME Owned(id[t])' = {}, UNCHANGED id,
                  \A a \in Addresses : owner'[a] \in {owner[a], Free}
           PROVE  NoneYet' /\ AtMostOneAddress'
    BY <1>0, <2>1, <2>free DEF NoneYet, AtMostOneAddress, Owned
  <2>3. CASE Exist(t)
    <3>1. CASE Owned(id[t]) = {}
      BY <2>3, <2>quiet, <3>1 DEF Exist, store, args
    <3>2. CASE Owned(id[t]) # {}
      <4>1. pc'[t] \in {"done", "relExist"}
        BY <2>2, <2>3, <3>2 DEF Exist, Move, Finish, Goto, TypeOK
      <4> QED
        BY <2>3, <2>quiet, <4>1 DEF Exist, store, args
    <3> QED
      BY <3>1, <3>2
  <2>4. CASE RelExist(t)
    <3>1. CASE Goto(t, "relDelete")
      <4>1. pc'[t] = "relDelete"
        BY <3>1 DEF Goto, TypeOK
      <4> QED
        BY <2>4, <2>quiet, <4>1 DEF RelExist, store, args
    <3>2. CASE Owned(id[t]) = {}
      BY <2>4, <2>free, <3>2 DEF RelExist, store, args, Owned
    <3> QED
      BY <2>2, <2>4, <3>1, <3>2 DEF RelExist
  <2>5. CASE RelDelete(t)
    BY <1>0, <2>2, <2>5, <2>free, ReleaseFrees
  <2>6. CASE ReadLast(t) \/ Check(t)
    <3>1. Owned(id[t]) = {}
      BY <1>0, <2>6 DEF NoneYet, ReadLast, Check
    <3> QED
      BY <2>6, <2>quiet, <3>1 DEF ReadLast, Check, store, args
  <2>7. CASE WriteIP(t)
    <3>1. Owned(id[t]) = {} /\ UNCHANGED id
      BY <1>0, <2>7 DEF WriteIP, NoneYet, args
    <3>2. /\ \A a \in Addresses :
                owner'[a] = IF a = cur[t] THEN id[t] ELSE owner[a]
          /\ pc'[t] = "writeLast"
      BY <2>2, <2>7 DEF WriteIP, Goto, TypeOK
    <3>3. NoneYet'
      BY <2>1, <3>2 DEF NoneYet
    <3>4. AtMostOneAddress'
      BY <1>0, <3>1, <3>2 DEF AtMostOneAddress, Owned
    <3> QED
      BY <3>3, <3>4
  <2>8. CASE WriteLast(t) \/ Return(t)
    <3>1. owner' = owner /\ pc'[t] \in {"done", "idle"}
      BY <2>2, <2>8 DEF WriteLast, Return, Finish, Goto, TypeOK, store
    <3> QED
      BY <1>0, <2>1, <3>1 DEF NoneYet, AtMostOneAddress
  <2> QED
    BY <1>2, <2>3, <2>4, <2>5, <2>6, <2>7, <2>8 DEF Step
<1>3. ASSUME NEW p \in Proc, Restart(p)
      PROVE  NoneYet' /\ AtMostOneAddress'
  <2>1. owner' = owner
    BY <1>3, RestartMoves
  <2>2. AtMostOneAddress'
    BY <1>0, <2>1 DEF AtMostOneAddress
  <2>3. NoneYet'
    BY <1>0, <1>3, <2>1, RestartMoves DEF NoneYet, Owned
  <2> QED
    BY <2>2, <2>3
<1>4. CASE UNCHANGED vars
  BY <1>0, <1>4 DEF vars, NoneYet, AtMostOneAddress, Owned
<1> QED
  BY <1>1, <1>2, <1>3, <1>4 DEF Next

(***************************************************************************)
(* In one process ipamCache follows the reservations, while no request     *)
(* fails: it loses a name with the name's one address, and gains it in the *)
(* call that wrote it.                                                     *)
(***************************************************************************)
LEMMA CacheStep ==
    ASSUME OneProcess, Serial, Serial', CoreInv, AtMostOneAddress, CacheInv,
           [Next]_vars
    PROVE  CacheInv'
<1> USE DEF CoreInv
<1> SUFFICES ASSUME faults' = 0 PROVE CacheInv'
  BY DEF CacheInv
<1>0. faults = 0
  BY FaultsGrow
<1>1. ASSUME NEW t \in Thread, Call(t)
      PROVE  CacheInv'
  BY <1>0, <1>1, CallAlone DEF CacheInv
<1>2. ASSUME NEW t \in Thread, Step(t)
      PROVE  CacheInv'
  <2>1. /\ pc[t] # "idle"
        /\ \A s \in Thread \ {t} : pc[s] = "idle" /\ pc'[s] = "idle"
    BY <1>2, StepAlone
  <2>2. ~ StoreError
    BY <1>0, FaultsType
  <2>3. \A p \in Proc : p = procOf[t]
    BY IpamAssumption DEF OneProcess
  <2>quiet. ASSUME owner' = owner, pc[t] # "writeLast",
                   \A p \in Proc : cache[p] \subseteq cache'[p]
            PROVE  CacheInv'
    BY <1>0, <2>1, <2>quiet DEF CacheInv
  <2>free. ASSUME Owned(id[t])' = {}, UNCHANGED id, pc[t] # "writeLast",
                  \A a \in Addresses : owner'[a] \in {owner[a], Free},
                  \A p \in Proc : cache[p] \ {id[t]} \subseteq cache'[p]
           PROVE  CacheInv'
    BY <1>0, <2>1, <2>free DEF CacheInv, Owned
  <2>cache. ASSUME AfterRelease(t, FALSE)
            PROVE  \A p \in Proc : cache[p] \ {id[t]} \subseteq cache'[p]
    <3>1. CASE cache' = cache
      BY <3>1
    <3>2. CASE cache' = [cache EXCEPT ![procOf[t]] = @ \ {id[t]}]
      <4>1. \A p \in Proc : cache'[p] = cache[p] \ {id[t]}
        BY <2>3, <3>2 DEF TypeOK
      <4> QED
        BY <4>1
    <3> QED
      BY <2>cache, <3>1, <3>2, AfterReleaseTo
  <2>4. CASE Exist(t)
    BY <2>4, <2>quiet DEF Exist, store
  <2>5. CASE RelExist(t)
    <3>1. CASE Goto(t, "relDelete") /\ UNCHANGED cache
      BY <2>5, <2>quiet, <3>1 DEF RelExist, store
    <3>2. CASE Owned(id[t]) = {} /\ AfterRelease(t, FALSE)
      <4>1. \A p \in Proc : cache[p] \ {id[t]} \subseteq cache'[p]
        BY <2>cache, <3>2
      <4> QED
        BY <2>5, <2>free, <3>2, <4>1 DEF RelExist, store, args, Owned
    <3> QED
      BY <2>2, <2>5, <3>1, <3>2 DEF RelExist
  <2>6. CASE RelDelete(t)
    <3>1. AfterRelease(t, FALSE)
      BY <2>2, <2>6, IpamAssumption DEF RelDelete, TypeOK, OwnInv
    <3>2. \A p \in Proc : cache[p] \ {id[t]} \subseteq cache'[p]
      BY <2>cache, <3>1
    <3> QED
      BY <1>0, <2>2, <2>6, <2>free, <3>2, ReleaseFrees DEF RelDelete
  <2>7. CASE ReadLast(t) \/ Check(t)
    BY <2>7, <2>quiet DEF ReadLast, Check, store
  <2>8. CASE WriteIP(t)
    <3>1. /\ \A a \in Addresses :
                owner'[a] = IF a = cur[t] THEN id[t] ELSE owner[a]
          /\ UNCHANGED <<cache, id>>
          /\ pc'[t] = "writeLast"
      BY <2>2, <2>8 DEF WriteIP, Goto, TypeOK, args
    <3>2. \A s \in Thread : pc[s] # "writeLast"
      BY <2>1, <2>8 DEF WriteIP
    <3> QED
      BY <1>0, <3>1, <3>2 DEF CacheInv
  <2>9. CASE WriteLast(t)
    <3>1. /\ UNCHANGED <<owner, id>>
          /\ cache' = [cache EXCEPT ![procOf[t]] = @ \union {id[t]}]
      BY <2>2, <2>9 DEF WriteLast, args
    <3>2. \A p \in Proc : cache'[p] = cache[p] \union {id[t]}
      BY <2>3, <3>1 DEF TypeOK
    <3> QED
      BY <1>0, <2>1, <3>1, <3>2 DEF CacheInv
  <2>10. CASE Return(t)
    BY <2>10, <2>quiet DEF Return, store
  <2> QED
    BY <1>2, <2>4, <2>5, <2>6, <2>7, <2>8, <2>9, <2>10 DEF Step
<1>3. ASSUME NEW p \in Proc, Restart(p)
      PROVE  CacheInv'
  <2>1. \A q \in Proc : q = p
    BY DEF OneProcess
  <2>2. \A q \in Proc : cache'[q] = Recover
    BY <1>3, <2>1 DEF Restart, TypeOK
  <2>3. owner' = owner
    BY <1>3 DEF Restart, store
  <2> QED
    BY <2>2, <2>3 DEF CacheInv, Recover
<1>4. CASE UNCHANGED vars
  BY <1>0, <1>4 DEF vars, CacheInv
<1> QED
  BY <1>1, <1>2, <1>3, <1>4 DEF Next

(***************************************************************************)
(* The whole inductive invariant.                                          *)
(***************************************************************************)
LEMMA InductiveInvariant == ASSUME OneProcess PROVE Spec => []IInv
<1>1. Init => IInv
  BY IpamAssumption DEF Init, IInv, CoreInv, TypeOK, LockInv, ArgsInv, OwnInv,
     SearchInv, RefusalsTrue, NoneYet, AtMostOneAddress, CacheInv
<1>2. IInv /\ [Next]_vars => IInv'
  BY CoreStep, SearchStep, UniqueStep, CacheStep DEF IInv
<1> QED
  BY <1>1, <1>2, PTL DEF Spec

(***************************************************************************)
(* In one process "no IP addresses available" is only said of a full       *)
(* subnet, and "not available" only of an address another name has.        *)
(***************************************************************************)
THEOREM RefusalsTrueHolds == ASSUME OneProcess PROVE Spec => []RefusalsTrue
BY InductiveInvariant, PTL DEF IInv

(***************************************************************************)
(* In one process, while etcd answers, no name ever has two addresses.     *)
(***************************************************************************)
THEOREM AtMostOneAddressHolds ==
    ASSUME OneProcess PROVE Spec => []AtMostOneAddress
BY InductiveInvariant, PTL DEF IInv

(***************************************************************************)
(* In one process, while etcd answers, ipamCache names every owner when no *)
(* call is in progress.                                                    *)
(***************************************************************************)
THEOREM CacheCompleteHolds == ASSUME OneProcess PROVE Spec => []CacheComplete
<1>1. IInv => CacheComplete
  <2> SUFFICES ASSUME IInv, faults = 0, NEW p \in Proc, lock[p] = Nobody,
                      NEW a \in Addresses, owner[a] # Free
               PROVE  owner[a] \in cache[p]
    BY DEF CacheComplete
  <2>1. \A t \in Thread : procOf[t] = p
    BY IpamAssumption DEF OneProcess
  <2>2. \A t \in Thread : pc[t] = "idle"
    BY <2>1, IpamAssumption DEF IInv, CoreInv, LockInv
  <2> QED
    BY <2>2 DEF IInv, CacheInv
<1> QED
  BY <1>1, InductiveInvariant, PTL

-----------------------------------------------------------------------------
(* The search ends, with any number of processes.                          *)

(***************************************************************************)
(* The remainder of a number less than one period away from the range of   *)
(* remainders.                                                             *)
(***************************************************************************)
LEMMA Remainder ==
    ASSUME NEW n \in Int, n > 0, NEW x \in Int
    PROVE  /\ 0 <= x /\ x < n => x % n = x
           /\ -n <= x /\ x < 0 => x % n = x + n
<1>1. x % n \in Int /\ 0 <= x % n /\ x % n < n
  OBVIOUS
<1>2. PICK q \in Int : x = n * q + (x % n)
  OBVIOUS
<1>3. ASSUME 0 <= x, x < n PROVE q = 0
  <2>1. ~ (q >= 1)
    <3> SUFFICES ASSUME q >= 1 PROVE FALSE
      OBVIOUS
    <3>1. n * q >= n
      OBVIOUS
    <3> QED
      BY <1>1, <1>2, <1>3, <3>1
  <2>2. ~ (q <= -1)
    <3> SUFFICES ASSUME q <= -1 PROVE FALSE
      OBVIOUS
    <3>1. n * q <= -n
      OBVIOUS
    <3> QED
      BY <1>1, <1>2, <1>3, <3>1
  <2> QED
    BY <2>1, <2>2
<1>4. ASSUME -n <= x, x < 0 PROVE q = -1
  <2>1. ~ (q >= 0)
    <3> SUFFICES ASSUME q >= 0 PROVE FALSE
      OBVIOUS
    <3>1. n * q >= 0
      OBVIOUS
    <3> QED
      BY <1>1, <1>2, <1>4, <3>1
  <2>2. ~ (q <= -2)
    <3> SUFFICES ASSUME q <= -2 PROVE FALSE
      OBVIOUS
    <3>1. n * q <= -n - n
      OBVIOUS
    <3> QED
      BY <1>1, <1>2, <1>4, <3>1
  <2> QED
    BY <2>1, <2>2
<1> QED
  BY <1>1, <1>2, <1>3, <1>4

(***************************************************************************)
(* nextIP comes nearer to the address a search ends with, across the wrap. *)
(***************************************************************************)
LEMMA NextIsNearer ==
    ASSUME NEW c \in Addresses, NEW e \in Addresses, c # e
    PROVE  Distance(nextIP(c), e) < Distance(c, e)
<1> DEFINE n == rangeEnd - rangeStart + 1
<1>1. /\ c \in Int /\ e \in Int /\ n \in Int /\ n > 0
      /\ rangeStart <= c /\ c <= rangeEnd
      /\ rangeStart <= e /\ e <= rangeEnd
  BY RangeBounds DEF Addresses
<1>2. CASE c = rangeEnd
  <2>1. (e - c) % n = e - c + n
    BY <1>1, <1>2, Remainder, RangeBounds
  <2>2. (e - rangeStart) % n = e - rangeStart
    BY <1>1, Remainder, RangeBounds
  <2> QED
    BY <1>1, <1>2, <2>1, <2>2, RangeBounds DEF Distance, nextIP
<1>3. CASE c # rangeEnd /\ c < e
  <2>1. (e - c) % n = e - c
    BY <1>1, <1>3, Remainder, RangeBounds
  <2>2. (e - (c + 1)) % n = e - c - 1
    BY <1>1, <1>3, Remainder, RangeBounds
  <2> QED
    BY <1>1, <1>3, <2>1, <2>2, RangeBounds DEF Distance, nextIP, NextIP
<1>4. CASE c # rangeEnd /\ c > e
  <2>1. (e - c) % n = e - c + n
    BY <1>1, <1>4, Remainder, RangeBounds
  <2>2. (e - (c + 1)) % n = e - c - 1 + n
    BY <1>1, <1>4, Remainder, RangeBounds
  <2> QED
    BY <1>1, <1>4, <2>1, <2>2, RangeBounds DEF Distance, nextIP, NextIP
<1> QED
  BY <1>1, <1>2, <1>3, <1>4

(***************************************************************************)
(* What a step does to a search in progress: nothing, unless it is the     *)
(* next probe of that search.                                              *)
(***************************************************************************)
LEMMA SearchMoves ==
    ASSUME TypeOK, ArgsInv, [Next]_vars,
           NEW t \in Thread, pc[t] = "check", pc'[t] = "check", cur'[t] # cur[t]
    PROVE  /\ cur[t] \in Addresses /\ endIP[t] \in Addresses
           /\ cur[t] # endIP[t]
           /\ cur'[t] = nextIP(cur[t]) /\ endIP'[t] = endIP[t]
<1>1. \A s \in Thread : Call(s) => cur' = cur
  BY DEF Call, RequireIP, ReleaseIP
<1>2. ASSUME NEW s \in Thread, Step(s), s # t
      PROVE  cur'[t] = cur[t]
  <2>1. ASSUME StartGet(s) PROVE cur'[t] = cur[t]
    BY <1>2, <2>1 DEF StartGet, TypeOK
  <2>2. ASSUME NEW err \in BOOLEAN, AfterRelease(s, err) PROVE cur'[t] = cur[t]
    BY <2>1, <2>2 DEF AfterRelease
  <2> QED
    BY <1>2, <2>1, <2>2
    DEF Step, Exist, RelExist, RelDelete, ReadLast, Check, WriteIP, WriteLast,
        Return, Move, TypeOK
<1>3. \A p \in Proc : Restart(p) => cur'[t] = cur[t]
  BY RestartMoves
<1>4. Step(t)
  BY <1>1, <1>2, <1>3 DEF Next, vars
<1>5. Check(t)
  BY <1>4 DEF Step, Exist, RelExist, RelDelete, ReadLast, WriteIP, WriteLast,
              Return
<1> QED
  BY <1>5 DEF Check, ArgsInv, TypeOK

(***************************************************************************)
(* A search that moves comes nearer to its end.                            *)
(***************************************************************************)
LEMMA NearerStep == TypeOK /\ ArgsInv /\ [Next]_vars => [Nearer]_vars
BY SearchMoves, NextIsNearer DEF Nearer

(***************************************************************************)
(* Whatever other goroutines and processes do to the store, every further  *)
(* probe of a search is nearer to its end: the loop of IPAllocator.Get     *)
(* stops after one turn around the range at the latest.                    *)
(***************************************************************************)
THEOREM SearchAdvancesHolds == Spec => SearchAdvances
<1>1. Init => TypeOK /\ ArgsInv
  BY IpamAssumption DEF Init, TypeOK, ArgsInv
<1>2. TypeOK /\ ArgsInv /\ [Next]_vars => (TypeOK /\ ArgsInv)'
  BY TypeStep, ArgsStep
<1> QED
  BY <1>1, <1>2, NearerStep, PTL DEF Spec, SearchAdvances, Nearer

=============================================================================
