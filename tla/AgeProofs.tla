------------------------------ MODULE AgeProofs ------------------------------
(***************************************************************************)
(* For every max_age, every number of workers and clients, and every bound *)
(* on the clock: refreshes do not overlap, the served data never gets      *)
(* older, and nobody is admitted on data that is too old.                  *)
(***************************************************************************)
EXTENDS DirectoryProofs

------------------------------------------------------------------------------
\* The server starts with data that was just read.
LEMMA AgeInvInit == Init => AgeInv
<1> SUFFICES ASSUME Init PROVE AgeInv
  OBVIOUS
<1>1. TypeOK
  BY TypeInit
<1>2. NeverOverlaps
  BY DEF Init, NeverOverlaps, Busy, Off
<1>3. AgesAreOrdered
  BY DEF Init, AgesAreOrdered, Off, StartSnapshot, Snapshot
<1>4. AnswersAreYoungEnough
  BY DEF Init, AnswersAreYoungEnough
<1> QED
  BY <1>1, <1>2, <1>3, <1>4 DEF AgeInv

\* A step that leaves the workers and the claim alone, and neither the age of
\* what is served nor the last reading, while time may pass, keeps the order.
LEMMA WorkersAndAgesStay ==
  ASSUME AgeInv, UNCHANGED <<worker, refreshing, lastRead, client>>,
         snap'.built = snap.built, now' \in Nat, now' >= now
  PROVE  NeverOverlaps' /\ AgesAreOrdered' /\ AnswersAreYoungEnough'
<1>1. snap.built \in Nat /\ lastRead \in Nat /\ now \in Nat
  BY DEF AgeInv, TypeOK, Snapshots
<1>2. NeverOverlaps'
  BY DEF AgeInv, NeverOverlaps, Busy
<1>3. AgesAreOrdered'
  BY <1>1 DEF AgeInv, AgesAreOrdered
<1>4. AnswersAreYoungEnough'
  BY DEF AgeInv, AnswersAreYoungEnough
<1> QED
  BY <1>2, <1>3, <1>4

\* One worker moves to a place from which it does not swap next, and nobody
\* else gives up its claim.
LEMMA OneWorkerGoesOn ==
  ASSUME AgeInv, NEW k \in Workers, NEW w \in WorkerStates, SetWorker(k, w),
         UNCHANGED <<snap, now, lastRead, client>>, w.at # "swap",
         w.at \notin {"off", "close"} =>
            /\ refreshing'
            /\ \A l \in Workers \ {k} : ~Busy(l),
         ~refreshing' => \A l \in Workers \ {k} : ~Busy(l)
  PROVE  NeverOverlaps' /\ AgesAreOrdered' /\ AnswersAreYoungEnough'
<1>1. \A l \in Workers : worker'[l] = IF l = k THEN w ELSE worker[l]
  BY DEF SetWorker, AgeInv, TypeOK
<1>2. NeverOverlaps'
  BY <1>1 DEF AgeInv, NeverOverlaps, Busy
<1>3. AgesAreOrdered'
  BY <1>1 DEF AgeInv, AgesAreOrdered
<1>4. AnswersAreYoungEnough'
  BY DEF AgeInv, AnswersAreYoungEnough
<1> QED
  BY <1>2, <1>3, <1>4

\* A worker serves data of its own reading, which nobody read after.
LEMMA AgeRefresh ==
  ASSUME AgeInv, NEW k \in Workers, Refresh(k)
  PROVE  /\ NeverOverlaps' /\ AgesAreOrdered' /\ AnswersAreYoungEnough'
         /\ snap'.built >= snap.built /\ UNCHANGED client
<1>t. TypeOK /\ TypeOK'
  BY TypeRefresh DEF AgeInv
<1>w. worker[k] \in WorkerStates /\ worker'[k] \in WorkerStates
  BY <1>t DEF TypeOK
<1>n. snap.built \in Nat /\ lastRead \in Nat /\ now \in Nat
  BY <1>t DEF TypeOK, Snapshots
<1>o. Busy(k) => refreshing /\ \A l \in Workers \ {k} : ~Busy(l)
  BY DEF AgeInv, NeverOverlaps
<1>c. UNCHANGED <<now, client>>
  BY DEF Refresh, StartRefresh, LoadGen, ReadPeople, ReadGroups, CheckSnapshot,
         Swap, Note, Release, CloseDone, clock
<1>l. ASSUME NEW l \in Workers, l # k PROVE worker'[l] = worker[l]
  BY <1>l, <1>t DEF TypeOK, Refresh, StartRefresh, LoadGen, ReadPeople, ReadGroups,
         CheckSnapshot, Swap, Note, Release, CloseDone, SetWorker, Fail
<1>m. ASSUME NEW w, SetWorker(k, w) PROVE worker'[k] = w
  BY <1>m, <1>t DEF SetWorker, TypeOK
<1>f. Fail(k) => worker'[k].at = "note"
  BY <1>w, <1>m DEF Fail, WorkerStates
<1>1. CASE StartRefresh(k) \/ Release(k) \/ CloseDone(k)
  <2>1. UNCHANGED <<snap, lastRead>> /\ worker'[k].at # "swap"
    BY <1>1, <1>t DEF StartRefresh, Release, CloseDone, served, SetWorker, Off, TypeOK
  <2>2. SetWorker(k, worker'[k])
    BY <1>1, <1>t DEF StartRefresh, Release, CloseDone, SetWorker, TypeOK
  <2>3. CASE StartRefresh(k)
    <3>1. refreshing' /\ \A l \in Workers : ~Busy(l)
      BY <2>3 DEF StartRefresh, Claim, AgeInv, NeverOverlaps
    <3> QED
      BY <1>w, <1>n, <1>c, <2>1, <2>2, <3>1, OneWorkerGoesOn
  <2>4. CASE Release(k)
    <3>1. worker'[k].at = "close" /\ Busy(k)
      BY <2>4, <1>t DEF Release, SetWorker, TypeOK, Busy, Off
    <3> QED
      BY <1>w, <1>n, <1>c, <1>o, <2>1, <2>2, <3>1, OneWorkerGoesOn
  <2>5. CASE CloseDone(k)
    <3>1. worker'[k].at = "off" /\ UNCHANGED refreshing
      BY <2>5, <1>t DEF CloseDone, SetWorker, TypeOK, Off
    <3>2. ~refreshing => \A l \in Workers : ~Busy(l)
      BY DEF AgeInv, NeverOverlaps
    <3> QED
      BY <1>w, <1>n, <1>c, <2>1, <2>2, <3>1, <3>2, OneWorkerGoesOn
  <2> QED
    BY <1>1, <2>3, <2>4, <2>5
<1>2. CASE LoadGen(k) \/ ReadPeople(k) \/ ReadGroups(k) \/ Note(k)
  <2>1. UNCHANGED <<snap, lastRead, refreshing>> /\ Busy(k)
    BY <1>2 DEF LoadGen, ReadPeople, ReadGroups, Note, served, Busy
  <2>2. worker'[k].at # "swap"
    BY <1>2, <1>w, <1>m, <1>f DEF LoadGen, ReadPeople, ReadGroups, Note, WorkerStates
  <2>3. SetWorker(k, worker'[k])
    BY <1>2, <1>t DEF LoadGen, ReadPeople, ReadGroups, Note, Fail, SetWorker, TypeOK
  <2> QED
    BY <1>w, <1>n, <1>c, <1>o, <2>1, <2>2, <2>3, OneWorkerGoesOn
<1>3. CASE CheckSnapshot(k)
  <2>1. UNCHANGED <<snap, refreshing>> /\ Busy(k)
    BY <1>3 DEF CheckSnapshot, served, Busy
  <2>2. \A l \in Workers \ {k} : worker'[l].at # "swap"
    BY <1>l, <1>o, <2>1 DEF Busy
  <2>3. CASE UNCHANGED lastRead /\ worker'[k].at # "swap"
    <3>1. SetWorker(k, worker'[k])
      BY <1>3, <1>t DEF CheckSnapshot, Fail, SetWorker, TypeOK
    <3> QED
      BY <1>w, <1>n, <1>c, <1>o, <2>1, <2>3, <3>1, OneWorkerGoesOn
  <2>4. CASE worker'[k].sn.built = now /\ lastRead' = now
    <3>1. NeverOverlaps'
      BY <1>l, <1>o, <2>1 DEF NeverOverlaps, Busy
    <3>2. AgesAreOrdered'
      BY <1>n, <1>c, <2>1, <2>2, <2>4 DEF AgeInv, AgesAreOrdered
    <3>3. AnswersAreYoungEnough'
      BY <1>c, <2>1 DEF AgeInv, AnswersAreYoungEnough
    <3> QED
      BY <1>n, <1>c, <2>1, <3>1, <3>2, <3>3
  <2>5. \/ UNCHANGED lastRead /\ worker'[k].at # "swap"
        \/ worker'[k].sn.built = now /\ lastRead' = now
    <3> DEFINE w == [worker[k] EXCEPT !.at = "swap",
                                      !.sn = [worker[k].sn EXCEPT !.built = now]]
    <3>1. w.sn.built = now
      BY <1>w DEF WorkerStates, Snapshots
    <3>2. \/ Fail(k) /\ UNCHANGED lastRead
          \/ SetWorker(k, w) /\ lastRead' = now
      BY <1>3 DEF CheckSnapshot
    <3> HIDE DEF w
    <3> QED
      BY <1>m, <1>f, <3>1, <3>2
  <2> QED
    BY <2>3, <2>4, <2>5
<1>4. CASE Swap(k)
  <2>1. UNCHANGED <<lastRead, refreshing>> /\ Busy(k) /\ worker[k].at = "swap"
    BY <1>4 DEF Swap, Busy
  <2>2. worker'[k].at # "swap" /\ SetWorker(k, worker'[k])
    <3>1. worker'[k].at # "swap"
      BY <1>4, <1>w, <1>m, <1>f DEF Swap, WorkerStates
    <3>2. SetWorker(k, worker'[k])
      BY <1>4, <1>t DEF Swap, Fail, SetWorker, TypeOK
    <3> QED
      BY <3>1, <3>2
  <2>3. CASE UNCHANGED snap
    BY <1>w, <1>n, <1>c, <1>o, <2>1, <2>2, <2>3, OneWorkerGoesOn
  <2>4. CASE snap' = worker[k].sn
    <3>1. /\ snap'.built >= snap.built /\ snap'.built <= lastRead
          /\ snap'.built \in Nat
      BY <1>t, <1>n, <2>1, <2>4 DEF AgeInv, AgesAreOrdered, TypeOK, Snapshots
    <3>2. \A l \in Workers : worker'[l].at # "swap"
      BY <1>l, <1>o, <2>1, <2>2 DEF Busy
    <3>3. NeverOverlaps'
      BY <1>l, <1>o, <2>1 DEF NeverOverlaps, Busy
    <3>4. AgesAreOrdered'
      BY <1>c, <2>1, <3>1, <3>2 DEF AgeInv, AgesAreOrdered
    <3>5. AnswersAreYoungEnough'
      BY <1>n, <1>c, <1>t, <3>1, ConstantsAssumption
         DEF AgeInv, AnswersAreYoungEnough, TypeOK, ClientStates
    <3> QED
      BY <1>c, <3>1, <3>3, <3>4, <3>5
  <2> QED
    BY <1>4, <2>3, <2>4 DEF Swap
<1> QED
  BY <1>1, <1>2, <1>3, <1>4 DEF Refresh

\* A password change never touches the age of what is served.
LEMMA ChangeKeepsTheAge ==
  ASSUME AgeInv, NEW s \in Sessions, Change(s)
  PROVE  /\ UNCHANGED <<worker, refreshing, lastRead, client, now>>
         /\ snap'.built = snap.built
<1>1. UNCHANGED <<worker, refreshing, lastRead, client, now>>
  BY DEF Change, Ask, Prove, Lock, Recheck, WriteFile, LoadConfig, SwapLocal,
         StoreSnapshot, BumpGen, clock
<1>2. snap' = snap \/ snap' = Restored(session[s].cfg.users, snap)
  BY DEF Change, Ask, Prove, Lock, Recheck, WriteFile, LoadConfig, SwapLocal,
         StoreSnapshot, BumpGen, served
<1>3. snap \in Snapshots
  BY DEF AgeInv, TypeOK
<1> QED
  BY <1>1, <1>2, <1>3 DEF Restored, Snapshots

\* Whoever is admitted is admitted on what is served then.
LEMMA AgeClients ==
  ASSUME AgeInv, NEW c \in Clients, Admit(c) \/ Answer(c)
  PROVE  /\ NeverOverlaps' /\ AgesAreOrdered' /\ AnswersAreYoungEnough'
         /\ UNCHANGED <<snap, now, lastRead>>
<1>1. UNCHANGED <<worker, refreshing, lastRead, snap, now>>
  BY DEF Admit, Answer, clock, served
<1>2. NeverOverlaps' /\ AgesAreOrdered'
  BY <1>1 DEF AgeInv, NeverOverlaps, Busy, AgesAreOrdered
<1>3. \A d \in Clients :
        \/ client'[d] = client[d]
        \/ client'[d].at = "idle"
        \/ client'[d].since = now /\ ~TooOld
  BY DEF AgeInv, TypeOK, Admit, Answer
<1>4. AnswersAreYoungEnough'
  BY <1>1, <1>3, ConstantsAssumption
     DEF AgeInv, AnswersAreYoungEnough, TooOld, TypeOK, Snapshots
<1> QED
  BY <1>1, <1>2, <1>4

\* Hence every step.
LEMMA AgeInvNext ==
  ASSUME AgeInv, [Next]_vars
  PROVE  AgeInv' /\ snap'.built >= snap.built
<1>t. TypeOK /\ TypeOK'
  BY TypeNext DEF AgeInv
<1>n. snap.built \in Nat /\ now \in Nat /\ now' \in Nat
  BY <1>t DEF TypeOK, Snapshots
<1>1. CASE UNCHANGED vars
  BY <1>1, <1>t, <1>n, WorkersAndAgesStay DEF vars, clock, served, AgeInv
<1>2. CASE Outside \/ Loop
  <2>1. UNCHANGED <<snap, worker, refreshing, lastRead, client>> /\ now' >= now
    BY <1>2, <1>n DEF Outside, EditFile, ChangeUpstream, ChangeHealth, Tick, Loop,
       SkipRefresh, FinishRefresh, GiveUpRefresh, served, clock
  <2> QED
    BY <1>t, <1>n, <2>1, WorkersAndAgesStay DEF AgeInv
<1>3. CASE \E k \in Workers : Refresh(k)
  BY <1>3, <1>t, AgeRefresh DEF AgeInv
<1>4. CASE \E s \in Sessions : Change(s)
  BY <1>4, <1>t, <1>n, ChangeKeepsTheAge, WorkersAndAgesStay DEF AgeInv
<1>5. CASE \E c \in Clients : Admit(c) \/ Answer(c)
  BY <1>5, <1>t, <1>n, AgeClients DEF AgeInv
<1> QED
  BY <1>1, <1>2, <1>3, <1>4, <1>5 DEF Next

\* Only Admit admits, and it asked for the age.
LEMMA AdmittedIsYoung ==
  ASSUME AgeInv, [Next]_vars, NEW c \in Clients,
         client[c].at = "idle", client'[c].at = "admitted"
  PROVE  ~TooOld
<1>1. ASSUME UNCHANGED client PROVE FALSE
  BY <1>1
<1>2. CASE UNCHANGED vars
  BY <1>1, <1>2 DEF vars
<1>3. CASE Outside \/ Loop
  BY <1>1, <1>3 DEF Outside, EditFile, ChangeUpstream, ChangeHealth, Tick, Loop,
     SkipRefresh, FinishRefresh, GiveUpRefresh
<1>4. CASE \E k \in Workers : Refresh(k)
  BY <1>1, <1>4, AgeRefresh
<1>5. CASE \E s \in Sessions : Change(s)
  BY <1>1, <1>5, ChangeKeepsTheAge
<1>6. CASE \E d \in Clients : Admit(d) \/ Answer(d)
  BY <1>6 DEF AgeInv, TypeOK, Admit, Answer
<1> QED
  BY <1>2, <1>3, <1>4, <1>5, <1>6 DEF Next

------------------------------------------------------------------------------
\* However slow the sources and however late the loop's select, one goroutine
\* at a time reads them (refreshOnce's CompareAndSwap is enough).
THEOREM RefreshesDoNotOverlap == Spec => []NeverOverlaps
<1>1. AgeInv => NeverOverlaps
  BY DEF AgeInv
<1> QED
  BY <1>1, AgeInvInit, AgeInvNext, PTL DEF Spec

\* A bind, search or ticket request that was admitted is answered from data
\* that was within max_age when it came, whatever was swapped since.
THEOREM AnswersStayYoung == Spec => []AnswersAreYoungEnough
<1>1. AgeInv => AnswersAreYoungEnough
  BY DEF AgeInv
<1> QED
  BY <1>1, AgeInvInit, AgeInvNext, PTL DEF Spec

\* No refresh, and no password change, makes the served data older.
THEOREM AgeNeverGoesBack == Spec => BuiltNeverGoesBack
<1>1. AgeInv /\ [Next]_vars => [snap'.built >= snap.built]_vars
  BY AgeInvNext
<1> QED
  BY <1>1, AgeInvInit, AgeInvNext, PTL DEF Spec, BuiltNeverGoesBack

\* Whoever is admitted is admitted within max_age of a reading that ended: a
\* password written to the file never makes the databases' data look new.
THEOREM StaleIsRefused == Spec => RefusedWhenStale
<1> DEFINE Young == \A c \in Clients :
       client[c].at = "idle" /\ client'[c].at = "admitted" /\ MaxAge > 0
         => now - lastRead <= MaxAge
<1>1. AgeInv /\ [Next]_vars => Young
  <2> SUFFICES ASSUME AgeInv, [Next]_vars, NEW c \in Clients,
                      client[c].at = "idle", client'[c].at = "admitted", MaxAge > 0
               PROVE  now - lastRead <= MaxAge
    OBVIOUS
  <2>1. ~(now - snap.built > MaxAge)
    BY AdmittedIsYoung DEF TooOld
  <2>2. snap.built <= lastRead /\ {snap.built, lastRead, now} \subseteq Nat
    BY DEF AgeInv, AgesAreOrdered, TypeOK, Snapshots
  <2> QED
    BY <2>1, <2>2, ConstantsAssumption
<1>2. AgeInv /\ [Next]_vars => [Young]_vars
  BY <1>1
<1> QED
  BY <1>2, AgeInvInit, AgeInvNext, PTL DEF Spec, RefusedWhenStale
=============================================================================
