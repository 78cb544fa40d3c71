--------------------------- MODULE DirectoryProofs ---------------------------
(***************************************************************************)
(* For every set of names, passwords, sources, sessions, workers and       *)
(* clients, and every bound: Directory's state is well typed, the file's   *)
(* people who are served are the live source's, and no two of the people   *)
(* served have spellings of one name.                                      *)
(***************************************************************************)
EXTENDS DirectoryInvariant, TLAPS

------------------------------------------------------------------------------
(***************************************************************************)
(* What the operators on people and snapshots return.                      *)
(***************************************************************************)
\* A merged roster is a roster, and its file part is the file's people.
LEMMA MergeIsARoster ==
  ASSUME NEW users \in Users, NEW others \in Users
  PROVE  Merge(users, others) \in Rosters
BY DEF Merge, Rosters, Identities, Nobody, Users

\* The file comes first of the sources, so its people are all in it.
LEMMA MergeKeepsTheFile ==
  ASSUME NEW users \in Users, NEW others \in Users
  PROVE  FilePart(Merge(users, others)) = users
BY DEF Merge, FilePart, Nobody, Users

\* So is a rebuilt one, if whoever the roster before took from the file was
\* marked as the file's.
LEMMA RebuiltIsARoster ==
  ASSUME NEW users \in Users, NEW before \in Snapshots
  PROVE  Rebuilt(users, before) \in Rosters
BY DEF Rebuilt, Rosters, Identities, Nobody, Users, Snapshots

\* And takes the file people from the file, when the roster before marked its own.
LEMMA RebuiltKeepsTheFile ==
  ASSUME NEW users \in Users, NEW before \in Snapshots, Marked(before)
  PROVE  FilePart(Rebuilt(users, before)) = users
BY DEF Rebuilt, FilePart, Nobody, Users, Marked, Snapshots

\* A roster whose file people are the file's marks every one of them.
LEMMA FileImpliesMarked ==
  ASSUME NEW users \in Users, NEW sn \in Snapshots,
         FilePart(sn.people) = users, sn.local = Held(users)
  PROVE  Marked(sn)
<1> SUFFICES ASSUME NEW n \in Names, sn.people[n].src = "file"
             PROVE  n \in sn.local
  BY DEF Marked
<1>1. sn.people[n] \in Identities
  BY DEF Snapshots, Rosters
<1>2. sn.people[n].pw \in Passwords
  BY <1>1 DEF Identities, Nobody
<1>3. users[n] = sn.people[n].pw
  BY DEF FilePart
<1> QED
  BY <1>2, <1>3, ConstantsAssumption DEF Held

\* What open starts with is typed.
LEMMA StartIsTyped ==
  /\ Blocks(StartFile) \in [users : Users, groups : SUBSET Names]
  /\ StartSnapshot \in Snapshots
  /\ Off \in WorkerStates
  /\ Nobody \in Identities
<1>1. StartFile \in Files /\ StartUp \in Upstreams
  BY ConstantsAssumption
<1>2. Blocks(StartFile) \in [users : Users, groups : SUBSET Names]
  BY <1>1 DEF Blocks, Files
<1>3. Merge(StartFile.users, StartUp.people) \in Rosters
  BY <1>1, MergeIsARoster DEF Files, Upstreams
<1>4. StartSnapshot \in Snapshots
  BY <1>1, <1>3 DEF StartSnapshot, Snapshot, Snapshots, Held, Files, Upstreams
<1>5. Off \in WorkerStates
  BY <1>4 DEF Off, WorkerStates, WorkerAt, Attempts
<1>6. Nobody \in Identities
  BY DEF Identities
<1> QED
  BY <1>2, <1>4, <1>5, <1>6

------------------------------------------------------------------------------
(***************************************************************************)
(* Typing.                                                                 *)
(***************************************************************************)
LEMMA TypeInit == Init => TypeOK
<1> SUFFICES ASSUME Init PROVE TypeOK
  OBVIOUS
<1>1. StartFile \in Files /\ StartUp \in Upstreams /\ Requests \subseteq Asked
  BY ConstantsAssumption
<1>2. session \in [Sessions -> SessionStates]
  BY <1>1, StartIsTyped DEF Init, SessionStates, SessionAt
<1>3. client \in [Clients -> ClientStates]
  BY DEF Init, ClientStates
<1> QED
  BY <1>1, <1>2, <1>3, StartIsTyped DEF Init, TypeOK

\* What happens outside the server changes the outside, or the clock, in type.
LEMMA TypeOutside == TypeOK /\ Outside => TypeOK'
<1> SUFFICES ASSUME TypeOK, Outside PROVE TypeOK'
  OBVIOUS
<1> USE DEF TypeOK, outside, clock, served
<1>1. CASE EditFile
  BY <1>1, ConstantsAssumption DEF EditFile
<1>2. CASE ChangeUpstream
  BY <1>2, ConstantsAssumption DEF ChangeUpstream
<1>3. CASE ChangeHealth
  BY <1>3, ConstantsAssumption DEF ChangeHealth
<1>4. CASE Tick
  BY <1>4, ConstantsAssumption DEF Tick
<1> QED
  BY <1>1, <1>2, <1>3, <1>4 DEF Outside

\* So does the refresh loop with its own variables.
LEMMA TypeLoop == TypeOK /\ Loop => TypeOK'
<1> SUFFICES ASSUME TypeOK, Loop PROVE TypeOK'
  OBVIOUS
<1> USE DEF TypeOK, outside, clock, served
<1>1. CASE SkipRefresh
  BY <1>1 DEF SkipRefresh
<1>2. CASE FinishRefresh
  BY <1>2 DEF FinishRefresh
<1>3. CASE GiveUpRefresh
  BY <1>3 DEF GiveUpRefresh
<1> QED
  BY <1>1, <1>2, <1>3 DEF Loop

\* Identities that moved are still typed.
LEMMA MovedIsTyped ==
  ASSUME TypeOK, NEW people
  PROVE  Moved(people) \in [Sessions -> SessionStates]
BY DEF TypeOK, Moved, SessionStates

\* One worker, or one session, becomes another typed one.
LEMMA WorkerBecomes ==
  ASSUME TypeOK, NEW k \in Workers, NEW w \in WorkerStates,
         SetWorker(k, w)
  PROVE  worker' \in [Workers -> WorkerStates]
BY DEF TypeOK, SetWorker

\* One change moves, to a state a change may be in.
LEMMA SessionBecomes ==
  ASSUME TypeOK, NEW s \in Sessions, NEW t \in SessionStates,
         SetSession(s, t)
  PROVE  session' \in [Sessions -> SessionStates]
BY DEF TypeOK, SetSession

\* Every step of a worker keeps the types: what it reads is a roster.
LEMMA TypeRefresh ==
  ASSUME TypeOK, NEW k \in Workers, Refresh(k)
  PROVE  TypeOK'
<1> USE DEF TypeOK, outside, clock, served
<1>w. worker[k] \in WorkerStates /\ Off \in WorkerStates
  BY StartIsTyped
<1>u. /\ local.users \in Users /\ upstream.people \in Users
      /\ local.groups \in SUBSET Names /\ upstream.groups \in SUBSET Names
  BY DEF Upstreams
<1>f. ASSUME Fail(k) PROVE worker' \in [Workers -> WorkerStates]
  <2>1. [worker[k] EXCEPT !.at = "note", !.ok = FALSE] \in WorkerStates
    BY <1>w DEF WorkerStates, WorkerAt
  <2> QED
    BY <1>f, <2>1, WorkerBecomes DEF Fail
<1>1. CASE StartRefresh(k)
  <2> DEFINE w == [Off EXCEPT !.at = "gen", !.tries = 1]
  <2>0. 1 \in 0..Attempts
    BY DEF Attempts
  <2>1. w \in WorkerStates
    BY <1>w, <2>0 DEF WorkerStates, WorkerAt
  <2>2. SetWorker(k, w)
    BY <1>1 DEF StartRefresh
  <2>3. worker' \in [Workers -> WorkerStates]
    BY <2>1, <2>2, WorkerBecomes
  <2> QED
    BY <1>1, <2>3 DEF StartRefresh
<1>2. CASE LoadGen(k)
  <2>1. [worker[k] EXCEPT !.at = "people", !.gen = gen] \in WorkerStates
    BY <1>w DEF WorkerStates, WorkerAt
  <2> QED
    BY <1>2, <2>1, WorkerBecomes DEF LoadGen
<1>3. CASE ReadPeople(k)
  <2>1. Merge(local.users, upstream.people) \in Rosters
    BY <1>u, MergeIsARoster
  <2> DEFINE sn == [worker[k].sn EXCEPT !.people = Merge(local.users, upstream.people)]
             w == [worker[k] EXCEPT !.at = "groups", !.sn = sn]
  <2>2. sn \in Snapshots
    BY <1>w, <2>1 DEF WorkerStates, Snapshots
  <2>3. w \in WorkerStates
    BY <1>w, <2>2 DEF WorkerStates, WorkerAt
  <2>4. SetWorker(k, w) \/ Fail(k)
    BY <1>3 DEF ReadPeople
  <2>5. worker' \in [Workers -> WorkerStates]
    BY <1>f, <2>3, <2>4, WorkerBecomes
  <2> QED
    BY <1>3, <2>5 DEF ReadPeople
<1>4. CASE ReadGroups(k)
  <2> DEFINE sn == [worker[k].sn EXCEPT !.local = Held(local.users),
                                        !.groups = [file |-> local.groups,
                                                    upstream |-> upstream.groups]]
             w == [worker[k] EXCEPT !.at = "check", !.sn = sn]
  <2>1. sn \in Snapshots
    BY <1>w, <1>u DEF WorkerStates, Snapshots, Held
  <2>2. w \in WorkerStates
    BY <1>w, <2>1 DEF WorkerStates, WorkerAt
  <2>3. SetWorker(k, w) \/ Fail(k)
    BY <1>4 DEF ReadGroups
  <2>4. worker' \in [Workers -> WorkerStates]
    BY <1>f, <2>2, <2>3, WorkerBecomes
  <2> QED
    BY <1>4, <2>4 DEF ReadGroups
<1>5. CASE CheckSnapshot(k)
  <2> DEFINE sn == [worker[k].sn EXCEPT !.built = now]
             w == [worker[k] EXCEPT !.at = "swap", !.sn = sn]
  <2>1. sn \in Snapshots
    BY <1>w DEF WorkerStates, Snapshots
  <2>2. w \in WorkerStates
    BY <1>w, <2>1 DEF WorkerStates, WorkerAt
  <2>3. SetWorker(k, w) \/ Fail(k)
    BY <1>5 DEF CheckSnapshot
  <2>4. worker' \in [Workers -> WorkerStates]
    BY <1>f, <2>2, <2>3, WorkerBecomes
  <2> QED
    BY <1>5, <2>4 DEF CheckSnapshot
<1>6. CASE Swap(k)
  <2> DEFINE w == [worker[k] EXCEPT !.at = "note"]
             v == [worker[k] EXCEPT !.at = "gen", !.tries = @ + 1]
  <2>a. w \in WorkerStates
    BY <1>w DEF WorkerStates, WorkerAt
  <2>0. MayRetry(k) => worker[k].tries + 1 \in 0..Attempts
    BY <1>w DEF WorkerStates, MayRetry, Attempts
  <2>b. MayRetry(k) => v \in WorkerStates
    BY <1>w, <2>0 DEF WorkerStates, WorkerAt
  <2>c. \/ SetWorker(k, w)
        \/ MayRetry(k) /\ SetWorker(k, v)
        \/ Fail(k)
    BY <1>6 DEF Swap
  <2>1. worker' \in [Workers -> WorkerStates]
    BY <1>f, <2>a, <2>b, <2>c, WorkerBecomes
  <2>2. snap' \in Snapshots /\ session' \in [Sessions -> SessionStates]
    BY <1>6, <1>w, MovedIsTyped DEF Swap, WorkerStates
  <2> QED
    BY <1>6, <2>1, <2>2 DEF Swap
<1>7. CASE Note(k)
  <2>1. [worker[k] EXCEPT !.at = "release"] \in WorkerStates
    BY <1>w DEF WorkerStates, WorkerAt
  <2> QED
    BY <1>7, <1>w, <2>1, WorkerBecomes DEF Note, WorkerStates
<1>8. CASE Release(k)
  <2>1. [Off EXCEPT !.at = "close"] \in WorkerStates
    BY <1>w DEF WorkerStates, WorkerAt
  <2> QED
    BY <1>8, <2>1, WorkerBecomes DEF Release
<1>9. CASE CloseDone(k)
  <2>1. [Off EXCEPT !.done = TRUE] \in WorkerStates
    BY <1>w DEF WorkerStates, WorkerAt
  <2> QED
    BY <1>9, <2>1, WorkerBecomes DEF CloseDone
<1> QED
  BY <1>1, <1>2, <1>3, <1>4, <1>5, <1>6, <1>7, <1>8, <1>9 DEF Refresh

\* An answer, and a step from one place of a change to the next, are typed.
LEMMA TypeReply ==
  ASSUME TypeOK, NEW s \in Sessions,
         NEW r \in {"success", "refused", "unavailable", "other"}, Reply(s, r)
  PROVE  session' \in [Sessions -> SessionStates] /\ mu' \in Sessions \cup {Free}
<1> DEFINE t == [session[s] EXCEPT !.at = "replied", !.result = r,
                                   !.id = Nobody, !.moved = FALSE,
                                   !.cfg = Blocks(StartFile)]
<1>1. t \in SessionStates
  BY StartIsTyped DEF TypeOK, SessionStates, SessionAt
<1>2. SetSession(s, t)
  BY DEF Reply
<1> QED
  BY <1>1, <1>2, SessionBecomes DEF Reply, TypeOK

\* Going on keeps all but the place.
LEMMA TypeGoto ==
  ASSUME TypeOK, NEW s \in Sessions, NEW at \in SessionAt, Goto(s, at)
  PROVE  session' \in [Sessions -> SessionStates]
<1>1. [session[s] EXCEPT !.at = at] \in SessionStates
  BY DEF TypeOK, SessionStates
<1> QED
  BY <1>1, SessionBecomes DEF Goto

\* Every step of a password change keeps the types: what it stores is a roster.
LEMMA TypeChange ==
  ASSUME TypeOK, NEW s \in Sessions, Change(s)
  PROVE  TypeOK'
<1> USE DEF TypeOK, outside, clock, served
<1>s. session[s] \in SessionStates
  OBVIOUS
<1>a. SessionAt = {"idle", "prove", "lock", "recheck", "write", "reload",
                   "swap", "store", "bump", "replied"}
  BY DEF SessionAt
<1>1. CASE Ask(s)
  <2> DEFINE id == snap.people[session[s].req.who]
             t == [session[s] EXCEPT !.at = "prove", !.id = id]
  <2>a. id \in Identities
    BY <1>s DEF Snapshots, Rosters, SessionStates, Asked
  <2>b. t \in SessionStates
    BY <1>s, <2>a DEF SessionStates, SessionAt
  <2>c. \/ Reply(s, "refused") \/ Reply(s, "unavailable")
        \/ SetSession(s, t) /\ UNCHANGED mu
    BY <1>1 DEF Ask
  <2>1. /\ session' \in [Sessions -> SessionStates]
        /\ mu' \in Sessions \cup {Free}
    BY <2>b, <2>c, TypeReply, SessionBecomes
  <2> QED
    BY <1>1, <2>1 DEF Ask
<1>2. CASE Prove(s)
  BY <1>2, <1>a, TypeReply, TypeGoto DEF Prove
<1>3. CASE Lock(s)
  BY <1>3, <1>a, TypeGoto DEF Lock
<1>4. CASE Recheck(s)
  BY <1>4, <1>a, TypeReply, TypeGoto DEF Recheck
<1>5. CASE WriteFile(s)
  <2> DEFINE users == [file.users EXCEPT ![session[s].req.who] = session[s].req.new]
  <2>a. users \in Users
    BY <1>s DEF Files, Users, SessionStates, Asked
  <2>b. file' = file \/ file' = [file EXCEPT !.users = users]
    BY <1>5 DEF WriteFile
  <2>1. file' \in Files
    BY <2>a, <2>b DEF Files
  <2>2. /\ session' \in [Sessions -> SessionStates]
        /\ mu' \in Sessions \cup {Free}
    BY <1>5, <1>a, TypeReply, TypeGoto DEF WriteFile
  <2> QED
    BY <1>5, <2>1, <2>2 DEF WriteFile
<1>6. CASE LoadConfig(s)
  <2>1. Blocks(file) \in [users : Users, groups : SUBSET Names]
    BY DEF Blocks, Files
  <2>2. /\ session' \in [Sessions -> SessionStates]
        /\ mu' \in Sessions \cup {Free}
    <3> DEFINE t == [session[s] EXCEPT !.at = "swap", !.cfg = Blocks(file)]
    <3>1. t \in SessionStates
      BY <1>s, <2>1 DEF SessionStates, SessionAt
    <3>2. \/ Reply(s, "other")
          \/ SetSession(s, t) /\ UNCHANGED mu
      BY <1>6 DEF LoadConfig
    <3> QED
      BY <3>1, <3>2, TypeReply, SessionBecomes
  <2> QED
    BY <1>6, <2>2 DEF LoadConfig
<1>7. CASE SwapLocal(s)
  <2>1. /\ session' \in [Sessions -> SessionStates]
        /\ mu' \in Sessions \cup {Free}
    BY <1>7, <1>a, TypeReply, TypeGoto DEF SwapLocal
  <2> QED
    BY <1>7, <1>s, <2>1 DEF SwapLocal, SessionStates
<1>8. CASE StoreSnapshot(s)
  <2>1. session[s].cfg.users \in Users
    BY <1>s DEF SessionStates
  <2>2. snap' \in Snapshots
    BY <1>8, <2>1, RebuiltIsARoster DEF StoreSnapshot, Restored, Snapshots, Held
  <2>3. session' \in [Sessions -> SessionStates]
    <3> DEFINE moved == Moved(Remade(session[s].cfg.users, snap))
    <3>0. moved \in [Sessions -> SessionStates]
      BY MovedIsTyped
    <3>1. session' = [moved EXCEPT ![s] = [moved[s] EXCEPT !.at = "bump"]]
      BY <1>8 DEF StoreSnapshot
    <3> HIDE DEF moved
    <3>2. [moved[s] EXCEPT !.at = "bump"] \in SessionStates
      BY <3>0 DEF SessionStates, SessionAt
    <3> QED
      BY <3>0, <3>1, <3>2
  <2> QED
    BY <1>8, <2>2, <2>3 DEF StoreSnapshot
<1>9. CASE BumpGen(s)
  BY <1>9, TypeReply DEF BumpGen
<1> QED
  BY <1>1, <1>2, <1>3, <1>4, <1>5, <1>6, <1>7, <1>8, <1>9 DEF Change

\* Nobody who reads the snapshot changes it.
LEMMA TypeClients ==
  ASSUME TypeOK, NEW c \in Clients, Admit(c) \/ Answer(c)
  PROVE  TypeOK'
BY DEF TypeOK, Admit, Answer, ClientStates, outside, clock, served

\* Hence every step.
LEMMA TypeNext == TypeOK /\ [Next]_vars => TypeOK'
<1> SUFFICES ASSUME TypeOK, [Next]_vars PROVE TypeOK'
  OBVIOUS
<1>1. CASE UNCHANGED vars
  BY <1>1 DEF vars, outside, clock, served, TypeOK
<1>2. CASE Next
  BY <1>2, TypeOutside, TypeLoop, TypeRefresh, TypeChange, TypeClients DEF Next
<1> QED
  BY <1>1, <1>2

\* The state is always well typed, for every value of the constants.
THEOREM TypeCorrect == Spec => []TypeOK
BY TypeInit, TypeNext, PTL DEF Spec

------------------------------------------------------------------------------
(***************************************************************************)
(* The live source is what is served.                                      *)
(***************************************************************************)
LEMMA IndInvInit == Init => IndInv
<1> SUFFICES ASSUME Init PROVE IndInv
  OBVIOUS
<1>t. TypeOK
  BY TypeInit
<1>1. StartFile \in Files /\ StartUp \in Upstreams /\ Free \notin Sessions
  BY ConstantsAssumption
<1>2. FilePart(snap.people) = local.users /\ snap.local = Held(local.users)
  BY <1>1, MergeKeepsTheFile
     DEF Init, StartSnapshot, Snapshot, Blocks, Files, Upstreams
<1>3. Marked(snap)
  BY <1>t, <1>2, FileImpliesMarked DEF TypeOK
<1>4. LocksHeld
  BY <1>1 DEF Init, LocksHeld, HoldsMu, HoldsSwapMu
<1>5. LocalIsLoaded /\ StoredIsServed
  BY DEF Init, LocalIsLoaded, StoredIsServed, HoldsSwapMu
<1>6. GenerationTells
  BY DEF Init, GenerationTells, Tells, Off
<1> QED
  BY <1>t, <1>2, <1>3, <1>4, <1>5, <1>6 DEF IndInv, FilesAreMarked, LocalServed

\* A step that leaves the session, the locks and what is served alone keeps
\* everything but what it says of the workers.
LEMMA OnlyWorkersMove ==
  ASSUME IndInv, UNCHANGED <<local, snap, gen, session, swapMu, mu>>
  PROVE  LocksHeld' /\ LocalIsLoaded' /\ FilesAreMarked' /\ StoredIsServed' /\ LocalServed'
BY DEF IndInv, LocksHeld, LocalIsLoaded, FilesAreMarked, StoredIsServed,
       LocalServed, Marked, Held, FilePart

\* A step that leaves the generation and the live source alone, and keeps
\* swapMu from being given back, keeps what is known of the workers it leaves
\* alone; of one it changes, what is known of the change.
LEMMA WorkersStay ==
  ASSUME GenerationTells, UNCHANGED <<worker, gen, local>>,
         swapMu' = Free => swapMu = Free
  PROVE  GenerationTells'
BY DEF GenerationTells, Tells, Held, FilePart

\* A worker that moves while nothing is swapped has only itself to answer for.
LEMMA OneWorkerMoves ==
  ASSUME IndInv, UNCHANGED <<gen, local, swapMu>>,
         NEW k \in Workers, NEW w \in WorkerStates, SetWorker(k, w), Tells(w)
  PROVE  GenerationTells'
<1> SUFFICES ASSUME NEW l \in Workers PROVE Tells(worker[l])'
  BY DEF GenerationTells
<1>1. worker'[l] = IF l = k THEN w ELSE worker[l]
  BY DEF SetWorker, IndInv, TypeOK
<1>2. Tells(worker'[l])
  BY <1>1 DEF IndInv, GenerationTells
<1> QED
  BY <1>2 DEF Tells, Held, FilePart

\* Neither the outside nor the loop touches what the invariant is about.
LEMMA IndInvOutside == IndInv /\ (Outside \/ Loop) => IndInv'
<1> SUFFICES ASSUME IndInv, Outside \/ Loop PROVE IndInv'
  OBVIOUS
<1>1. TypeOK'
  BY TypeOutside, TypeLoop DEF IndInv
<1>2. UNCHANGED <<local, snap, gen, session, swapMu, mu, worker>>
  BY DEF Outside, EditFile, ChangeUpstream, ChangeHealth, Tick, Loop,
         SkipRefresh, FinishRefresh, GiveUpRefresh, served
<1> QED
  BY <1>1, <1>2, OnlyWorkersMove, WorkersStay DEF IndInv

\* Each step of a worker keeps the invariant; its swap, since it only swaps with
\* a current generation.
LEMMA IndInvRefresh ==
  ASSUME IndInv, NEW k \in Workers, Refresh(k)
  PROVE  IndInv'
<1>t. TypeOK /\ TypeOK'
  BY TypeRefresh DEF IndInv
<1>w. worker[k] \in WorkerStates /\ worker'[k] \in WorkerStates /\ gen \in Nat
  BY <1>t DEF TypeOK
<1>u. local.users \in Users /\ upstream.people \in Users
  BY <1>t DEF TypeOK, Upstreams
<1>k. Tells(worker[k])
  BY DEF IndInv, GenerationTells
<1>f. ASSUME Fail(k), UNCHANGED <<local, gen, swapMu>> PROVE GenerationTells'
  <2> DEFINE w == [worker[k] EXCEPT !.at = "note", !.ok = FALSE]
  <2>1. w \in WorkerStates /\ Tells(w)
    BY <1>w, <1>k DEF WorkerStates, WorkerAt, Tells
  <2> QED
    BY <1>f, <2>1, OneWorkerMoves DEF Fail
<1>0. CASE StartRefresh(k) \/ Release(k) \/ CloseDone(k)
  <2>1. UNCHANGED <<local, snap, gen, session, swapMu, mu>>
    BY <1>0 DEF StartRefresh, Release, CloseDone, served
  <2>2. ASSUME NEW w \in WorkerStates, SetWorker(k, w), w.gen = 0,
               w.at \notin {"groups", "check", "swap"}
        PROVE  GenerationTells'
    BY <1>w, <2>1, <2>2, OneWorkerMoves DEF Tells
  <2>3. [Off EXCEPT !.at = "gen", !.tries = 1] \in WorkerStates
    <3>1. 1 \in 0..Attempts
      BY DEF Attempts
    <3> QED
      BY <3>1, StartIsTyped DEF WorkerStates, WorkerAt
  <2>4. /\ [Off EXCEPT !.at = "close"] \in WorkerStates
        /\ [Off EXCEPT !.done = TRUE] \in WorkerStates
    BY StartIsTyped DEF WorkerStates, WorkerAt
  <2>5. GenerationTells'
    BY <1>0, <2>2, <2>3, <2>4 DEF StartRefresh, Release, CloseDone, Off
  <2> QED
    BY <1>t, <2>1, <2>5, OnlyWorkersMove DEF IndInv
<1>1. CASE LoadGen(k)
  <2> DEFINE w == [worker[k] EXCEPT !.at = "people", !.gen = gen]
  <2>1. UNCHANGED <<local, snap, gen, session, swapMu, mu>> /\ SetWorker(k, w)
    BY <1>1 DEF LoadGen, served
  <2>2. w \in WorkerStates /\ w.at = "people" /\ w.gen = gen
    BY <1>w DEF WorkerStates, WorkerAt
  <2>3. Tells(w)
    BY <1>w, <2>2 DEF Tells
  <2> QED
    BY <1>t, <2>1, <2>2, <2>3, OnlyWorkersMove, OneWorkerMoves DEF IndInv
<1>2. CASE ReadPeople(k)
  <2> DEFINE sn == [worker[k].sn EXCEPT !.people = Merge(local.users, upstream.people)]
             w == [worker[k] EXCEPT !.at = "groups", !.sn = sn]
  <2>1. UNCHANGED <<local, snap, gen, session, swapMu, mu>>
    BY <1>2 DEF ReadPeople, served
  <2>2. FilePart(Merge(local.users, upstream.people)) = local.users
    BY <1>u, MergeKeepsTheFile
  <2>3. sn \in Snapshots /\ sn.people = Merge(local.users, upstream.people)
    BY <1>w, <1>t, <1>u, MergeIsARoster DEF WorkerStates, Snapshots, TypeOK
  <2>4. w \in WorkerStates /\ w.at = "groups" /\ w.sn = sn /\ w.gen = worker[k].gen
    BY <1>w, <2>3 DEF WorkerStates, WorkerAt
  <2>5. Tells(w)
    BY <1>k, <2>2, <2>3, <2>4 DEF Tells
  <2>6. SetWorker(k, w) \/ Fail(k)
    BY <1>2 DEF ReadPeople
  <2>7. GenerationTells'
    BY <1>f, <2>1, <2>4, <2>5, <2>6, OneWorkerMoves
  <2> QED
    BY <1>t, <2>1, <2>7, OnlyWorkersMove DEF IndInv
<1>3. CASE ReadGroups(k)
  <2> DEFINE sn == [worker[k].sn EXCEPT !.local = Held(local.users),
                                        !.groups = [file |-> local.groups,
                                                    upstream |-> upstream.groups]]
             w == [worker[k] EXCEPT !.at = "check", !.sn = sn]
  <2>1. /\ UNCHANGED <<local, snap, gen, session, swapMu, mu>>
        /\ worker[k].at = "groups"
        /\ SetWorker(k, w) \/ Fail(k)
    BY <1>3 DEF ReadGroups, served
  <2>2. /\ sn \in Snapshots
        /\ sn.people = worker[k].sn.people /\ sn.local = Held(local.users)
    BY <1>w, <1>t DEF WorkerStates, Snapshots, TypeOK, Upstreams, Held
  <2>3. w \in WorkerStates /\ w.at = "check" /\ w.sn = sn /\ w.gen = worker[k].gen
    BY <1>w, <2>2 DEF WorkerStates, WorkerAt
  <2>4. Tells(w)
    BY <1>k, <2>1, <2>2, <2>3 DEF Tells
  <2>5. GenerationTells'
    BY <1>f, <2>1, <2>3, <2>4, OneWorkerMoves
  <2> QED
    BY <1>t, <2>1, <2>5, OnlyWorkersMove DEF IndInv
<1>4. CASE CheckSnapshot(k)
  <2> DEFINE sn == [worker[k].sn EXCEPT !.built = now]
             w == [worker[k] EXCEPT !.at = "swap", !.sn = sn]
  <2>1. /\ UNCHANGED <<local, snap, gen, session, swapMu, mu>>
        /\ worker[k].at = "check"
        /\ SetWorker(k, w) \/ Fail(k)
    BY <1>4 DEF CheckSnapshot, served
  <2>2. /\ sn \in Snapshots
        /\ sn.people = worker[k].sn.people /\ sn.local = worker[k].sn.local
    BY <1>w, <1>t DEF WorkerStates, Snapshots, TypeOK
  <2>3. w \in WorkerStates /\ w.at = "swap" /\ w.sn = sn /\ w.gen = worker[k].gen
    BY <1>w, <2>2 DEF WorkerStates, WorkerAt
  <2>4. Tells(w)
    BY <1>k, <2>1, <2>2, <2>3 DEF Tells
  <2>5. GenerationTells'
    BY <1>f, <2>1, <2>3, <2>4, OneWorkerMoves
  <2> QED
    BY <1>t, <2>1, <2>5, OnlyWorkersMove DEF IndInv
<1>5. CASE Swap(k)
  <2>1. UNCHANGED <<local, gen, swapMu, mu>> /\ swapMu = Free
    BY <1>5 DEF Swap
  <2>2. GenerationTells'
    <3> DEFINE w == [worker[k] EXCEPT !.at = "note"]
               v == [worker[k] EXCEPT !.at = "gen", !.tries = @ + 1]
    <3>1. w \in WorkerStates /\ Tells(w)
      BY <1>w, <1>k DEF WorkerStates, WorkerAt, Tells
    <3>2. MayRetry(k) => worker[k].tries + 1 \in 0..Attempts
      BY <1>w DEF WorkerStates, MayRetry, Attempts
    <3>3. MayRetry(k) => v \in WorkerStates /\ Tells(v)
      BY <1>w, <1>k, <3>2 DEF WorkerStates, WorkerAt, Tells
    <3>4. SetWorker(k, w) \/ (MayRetry(k) /\ SetWorker(k, v)) \/ Fail(k)
      BY <1>5 DEF Swap
    <3> QED
      BY <1>f, <2>1, <3>1, <3>3, <3>4, OneWorkerMoves
  <2>3. CASE UNCHANGED <<snap, session>>
    BY <1>t, <2>1, <2>2, <2>3, OnlyWorkersMove DEF IndInv
  <2>4. CASE snap' = worker[k].sn /\ session' = Moved(Names) /\ Current(k)
    <3>1. \A s \in Sessions : /\ session'[s].at = session[s].at
                              /\ session'[s].cfg = session[s].cfg
      BY <1>t, <2>4 DEF Moved, TypeOK, SessionStates
    <3>2. LocksHeld' /\ LocalIsLoaded'
      BY <2>1, <3>1 DEF IndInv, LocksHeld, LocalIsLoaded
    <3>3. StoredIsServed'
      BY <2>1, <3>1, ConstantsAssumption DEF IndInv, LocksHeld, HoldsSwapMu, StoredIsServed
    <3>4. FilePart(snap'.people) = local.users /\ snap'.local = Held(local.users)
      BY <1>5, <1>k, <2>1, <2>4 DEF Swap, Current, Tells
    <3>5. Marked(snap')
      BY <1>t, <1>u, <3>4, FileImpliesMarked DEF TypeOK
    <3>6. FilesAreMarked' /\ LocalServed'
      BY <2>1, <3>4, <3>5 DEF FilesAreMarked, Marked, LocalServed, FilePart, Held
    <3> QED
      BY <1>t, <2>2, <3>2, <3>3, <3>6 DEF IndInv
  <2> QED
    BY <1>5, <2>3, <2>4 DEF Swap
<1>6. CASE Note(k)
  <2> DEFINE w == [worker[k] EXCEPT !.at = "release"]
  <2>1. UNCHANGED <<local, snap, gen, session, swapMu, mu>> /\ SetWorker(k, w)
    BY <1>6 DEF Note, served
  <2>2. w \in WorkerStates /\ Tells(w)
    BY <1>w, <1>k DEF WorkerStates, WorkerAt, Tells
  <2> QED
    BY <1>t, <2>1, <2>2, OnlyWorkersMove, OneWorkerMoves DEF IndInv
<1> QED
  BY <1>0, <1>1, <1>2, <1>3, <1>4, <1>5, <1>6 DEF Refresh

\* A step of one change that touches neither the live source nor the snapshot
\* nor swapMu, and goes from one side of HoldsMu to the other only with s.mu,
\* keeps the invariant.
LEMMA OneChangeMoves ==
  ASSUME IndInv, TypeOK', NEW s \in Sessions, NEW t \in SessionStates,
         SetSession(s, t), UNCHANGED <<local, snap, gen, swapMu, worker>>,
         session[s].at \notin HoldsSwapMu, t.at \notin HoldsSwapMu,
         (mu' = s) <=> (t.at \in HoldsMu),
         \A r \in Sessions \ {s} : (mu' = r) <=> (mu = r)
  PROVE  IndInv'
<1>1. \A r \in Sessions : session'[r] = IF r = s THEN t ELSE session[r]
  BY DEF SetSession, IndInv, TypeOK
<1>2. LocksHeld'
  BY <1>1 DEF IndInv, LocksHeld
<1>3. LocalIsLoaded'
  BY <1>1 DEF IndInv, LocalIsLoaded
<1>4. StoredIsServed'
  BY <1>1 DEF IndInv, StoredIsServed, HoldsSwapMu, FilePart, Held
<1>5. FilesAreMarked' /\ LocalServed'
  BY DEF IndInv, FilesAreMarked, Marked, LocalServed, FilePart, Held
<1>6. GenerationTells'
  BY WorkersStay DEF IndInv
<1> QED
  BY <1>2, <1>3, <1>4, <1>5, <1>6 DEF IndInv

\* An answer given before the live source is swapped is such a step.
LEMMA ReplyKeeps ==
  ASSUME IndInv, TypeOK', NEW s \in Sessions,
         NEW r \in {"success", "refused", "unavailable", "other"}, Reply(s, r),
         UNCHANGED <<local, snap, gen, swapMu, worker>>,
         session[s].at \notin HoldsSwapMu
  PROVE  IndInv'
<1> DEFINE t == [session[s] EXCEPT !.at = "replied", !.result = r,
                                   !.id = Nobody, !.moved = FALSE,
                                   !.cfg = Blocks(StartFile)]
<1>1. t \in SessionStates /\ t.at = "replied"
  <2>1. session[s] \in SessionStates
    BY DEF IndInv, TypeOK
  <2> QED
    BY <2>1, StartIsTyped DEF SessionStates, SessionAt
<1>2. t.at \notin HoldsMu /\ t.at \notin HoldsSwapMu
  BY <1>1 DEF HoldsMu, HoldsSwapMu
<1>3. SetSession(s, t) /\ mu' = IF mu = s THEN Free ELSE mu
  BY DEF Reply
<1>4. mu' # s /\ \A o \in Sessions \ {s} : (mu' = o) <=> (mu = o)
  BY <1>3, ConstantsAssumption
<1> QED
  BY <1>1, <1>2, <1>3, <1>4, OneChangeMoves

\* So is a step within HoldsMu, or outside it.
LEMMA GotoKeeps ==
  ASSUME IndInv, TypeOK', NEW s \in Sessions, NEW at \in SessionAt, Goto(s, at),
         UNCHANGED <<local, snap, gen, swapMu, worker, mu>>,
         session[s].at \notin HoldsSwapMu, at \notin HoldsSwapMu,
         (session[s].at \in HoldsMu) <=> (at \in HoldsMu)
  PROVE  IndInv'
<1> DEFINE t == [session[s] EXCEPT !.at = at]
<1>1. t \in SessionStates /\ t.at = at
  BY DEF IndInv, TypeOK, SessionStates
<1>2. (mu' = s) <=> (t.at \in HoldsMu)
  BY <1>1 DEF IndInv, LocksHeld
<1> QED
  BY <1>1, <1>2, OneChangeMoves DEF Goto

\* Each step of a password change keeps it, from the first lock to the last.
LEMMA IndInvChange ==
  ASSUME IndInv, NEW s \in Sessions, Change(s)
  PROVE  IndInv'
<1>t. TypeOK /\ TypeOK'
  BY TypeChange DEF IndInv
<1>s. session[s] \in SessionStates /\ (mu = s <=> session[s].at \in HoldsMu)
  BY <1>t DEF TypeOK, IndInv, LocksHeld
<1>a. /\ SessionAt = {"idle", "prove", "lock", "recheck", "write", "reload",
                      "swap", "store", "bump", "replied"}
      /\ HoldsMu = {"recheck", "write", "reload", "swap", "store", "bump"}
      /\ HoldsSwapMu = {"store", "bump"}
  BY DEF SessionAt, HoldsMu, HoldsSwapMu
<1>1. CASE Ask(s)
  <2> DEFINE id == snap.people[session[s].req.who]
             t == [session[s] EXCEPT !.at = "prove", !.id = id]
  <2>1. /\ UNCHANGED <<local, snap, gen, swapMu, worker>> /\ session[s].at = "idle"
        /\ \/ Reply(s, "refused") \/ Reply(s, "unavailable")
           \/ SetSession(s, t) /\ UNCHANGED mu
    BY <1>1 DEF Ask, served
  <2>i. id \in Identities
    BY <1>s, <1>t DEF TypeOK, Snapshots, Rosters, SessionStates, Asked
  <2>2. t \in SessionStates /\ t.at = "prove"
    BY <1>s, <2>i DEF SessionStates, SessionAt
  <2>x. /\ session[s].at \notin HoldsSwapMu /\ t.at \notin HoldsSwapMu
        /\ (mu = s) <=> (t.at \in HoldsMu)
    BY <1>s, <1>a, <2>1, <2>2
  <2> HIDE DEF t
  <2>3. CASE SetSession(s, t) /\ UNCHANGED mu
    BY <1>t, <2>1, <2>2, <2>3, <2>x, OneChangeMoves
  <2> QED
    BY <1>t, <1>a, <2>1, <2>3, ReplyKeeps
<1>2. CASE Prove(s)
  BY <1>2, <1>t, <1>a, ReplyKeeps, GotoKeeps DEF Prove, served
<1>3. CASE Lock(s)
  <2> DEFINE t == [session[s] EXCEPT !.at = "recheck"]
  <2>1. /\ UNCHANGED <<local, snap, gen, swapMu, worker>>
        /\ session[s].at = "lock" /\ mu = Free /\ mu' = s
        /\ SetSession(s, t)
    BY <1>3 DEF Lock, served, Goto
  <2>2. t \in SessionStates /\ t.at = "recheck"
    BY <1>s DEF SessionStates, SessionAt
  <2>3. /\ session[s].at \notin HoldsSwapMu /\ t.at \notin HoldsSwapMu
        /\ (mu' = s) <=> (t.at \in HoldsMu)
        /\ \A r \in Sessions \ {s} : (mu' = r) <=> (mu = r)
    BY <1>a, <2>1, <2>2, ConstantsAssumption
  <2> HIDE DEF t
  <2> QED
    BY <1>t, <2>1, <2>2, <2>3, OneChangeMoves
<1>4. CASE Recheck(s)
  BY <1>4, <1>t, <1>a, ReplyKeeps, GotoKeeps DEF Recheck, served
<1>5. CASE WriteFile(s)
  BY <1>5, <1>t, <1>a, ReplyKeeps, GotoKeeps DEF WriteFile, served
<1>6. CASE LoadConfig(s)
  <2> DEFINE t == [session[s] EXCEPT !.at = "swap", !.cfg = Blocks(file)]
  <2>1. /\ UNCHANGED <<local, snap, gen, swapMu, worker>> /\ session[s].at = "reload"
        /\ Reply(s, "other") \/ (SetSession(s, t) /\ UNCHANGED mu)
    BY <1>6 DEF LoadConfig, served
  <2>2. t \in SessionStates /\ t.at = "swap"
    BY <1>s, <1>t DEF SessionStates, SessionAt, TypeOK, Blocks, Files
  <2>x. /\ session[s].at \notin HoldsSwapMu /\ t.at \notin HoldsSwapMu
        /\ (mu = s) <=> (t.at \in HoldsMu)
    BY <1>s, <1>a, <2>1, <2>2
  <2> HIDE DEF t
  <2>3. CASE SetSession(s, t) /\ UNCHANGED mu
    BY <1>t, <2>1, <2>2, <2>3, <2>x, OneChangeMoves
  <2> QED
    BY <1>t, <1>a, <2>1, <2>3, ReplyKeeps
<1>7. CASE SwapLocal(s)
  <2>1. CASE Reply(s, "other") /\ UNCHANGED <<local, swapMu>>
    BY <1>7, <1>t, <1>a, <2>1, ReplyKeeps DEF SwapLocal
  <2>2. CASE swapMu' = s /\ local' = session[s].cfg /\ Goto(s, "store") /\ UNCHANGED mu
    <3>1. session[s].at = "swap" /\ swapMu = Free /\ UNCHANGED <<snap, gen, worker>>
      BY <1>7 DEF SwapLocal
    <3>2. \A r \in Sessions :
            /\ session'[r].cfg = session[r].cfg
            /\ session'[r].at = IF r = s THEN "store" ELSE session[r].at
      BY <1>t, <2>2 DEF Goto, SetSession, TypeOK, SessionStates
    <3>3. \A r \in Sessions : session[r].at \notin HoldsSwapMu
      BY <3>1, ConstantsAssumption DEF IndInv, LocksHeld
    <3>4. LocksHeld'
      BY <1>s, <1>a, <2>2, <3>1, <3>2, <3>3 DEF IndInv, LocksHeld
    <3>5. LocalIsLoaded'
      BY <2>2, <3>2, <3>3 DEF LocalIsLoaded
    <3>6. StoredIsServed'
      BY <1>a, <3>2, <3>3 DEF StoredIsServed
    <3>7. swapMu' # Free
      BY <2>2, ConstantsAssumption
    <3>8. LocalServed' /\ FilesAreMarked'
      BY <3>1, <3>7 DEF IndInv, LocalServed, FilesAreMarked, Marked
    <3>9. GenerationTells'
      BY <3>1, <3>7 DEF IndInv, GenerationTells, Tells
    <3> QED
      BY <1>t, <3>4, <3>5, <3>6, <3>8, <3>9 DEF IndInv
  <2> QED
    BY <1>7, <2>1, <2>2 DEF SwapLocal
<1>8. CASE StoreSnapshot(s)
  <2> DEFINE users == session[s].cfg.users
  <2>1. /\ session[s].at = "store" /\ UNCHANGED <<local, gen, mu, swapMu, worker>>
        /\ snap' = Restored(users, snap)
    BY <1>8 DEF StoreSnapshot
  <2>2. swapMu = s /\ swapMu # Free /\ users = local.users /\ users \in Users
    BY <1>a, <1>t, <2>1, ConstantsAssumption
       DEF IndInv, LocksHeld, LocalIsLoaded, TypeOK
  <2>3. \A r \in Sessions :
          /\ session'[r].cfg = session[r].cfg
          /\ session'[r].at = IF r = s THEN "bump" ELSE session[r].at
    BY <1>8, <1>t DEF StoreSnapshot, Moved, TypeOK, SessionStates
  <2>4. /\ snap' \in Snapshots
        /\ snap'.people = Rebuilt(users, snap) /\ snap'.local = Held(users)
    BY <1>t, <2>1 DEF TypeOK, Restored, Snapshots
  <2>5. FilePart(snap'.people) = users
    BY <1>t, <2>2, <2>4, RebuiltKeepsTheFile DEF IndInv, FilesAreMarked, TypeOK
  <2>6. Marked(snap')
    BY <2>2, <2>4, <2>5, FileImpliesMarked
  <2>7. LocksHeld' /\ LocalIsLoaded'
    BY <1>a, <2>1, <2>3 DEF IndInv, LocksHeld, LocalIsLoaded
  <2>8. StoredIsServed'
    BY <2>1, <2>2, <2>4, <2>5 DEF StoredIsServed, FilePart, Held
  <2>9. FilesAreMarked' /\ LocalServed'
    BY <2>1, <2>2, <2>6 DEF FilesAreMarked, Marked, LocalServed
  <2>10. GenerationTells'
    BY <2>1, WorkersStay DEF IndInv
  <2> QED
    BY <1>t, <2>7, <2>8, <2>9, <2>10 DEF IndInv
<1>9. CASE BumpGen(s)
  <2>1. /\ session[s].at = "bump" /\ UNCHANGED <<local, snap, worker>>
        /\ gen' = gen + 1 /\ swapMu' = Free /\ Reply(s, "success")
    BY <1>9 DEF BumpGen
  <2>2. swapMu = s /\ mu' = Free
    BY <1>s, <1>a, <2>1 DEF IndInv, LocksHeld, Reply
  <2>3. \A r \in Sessions :
          /\ r # s => session'[r] = session[r]
          /\ r = s => session'[r].at = "replied"
    BY <1>t, <2>1 DEF Reply, SetSession, TypeOK, SessionStates
  <2>4. \A r \in Sessions : r # s => session[r].at \notin HoldsMu \cup HoldsSwapMu
    BY <1>s, <1>a, <2>1, <2>2 DEF IndInv, LocksHeld
  <2>5. LocksHeld' /\ LocalIsLoaded' /\ StoredIsServed'
    BY <1>a, <2>1, <2>2, <2>3, <2>4, ConstantsAssumption
       DEF LocksHeld, LocalIsLoaded, StoredIsServed
  <2>6. LocalServed' /\ FilesAreMarked'
    BY <2>1 DEF IndInv, StoredIsServed, LocalServed, FilesAreMarked, Marked, FilePart, Held
  <2>7. \A k \in Workers : worker[k].gen <= gen /\ worker[k].gen \in Nat /\ gen \in Nat
    BY <1>t DEF IndInv, GenerationTells, Tells, TypeOK, WorkerStates
  <2>8. GenerationTells'
    BY <2>1, <2>7 DEF GenerationTells, Tells
  <2> QED
    BY <1>t, <2>5, <2>6, <2>8 DEF IndInv
<1> QED
  BY <1>1, <1>2, <1>3, <1>4, <1>5, <1>6, <1>7, <1>8, <1>9 DEF Change

\* Hence every step.
LEMMA IndInvNext == IndInv /\ [Next]_vars => IndInv'
<1> SUFFICES ASSUME IndInv, [Next]_vars PROVE IndInv'
  OBVIOUS
<1>t. TypeOK'
  BY TypeNext DEF IndInv
<1>1. CASE UNCHANGED vars
  BY <1>1, <1>t, OnlyWorkersMove, WorkersStay DEF vars, served, IndInv
<1>2. CASE \E c \in Clients : Admit(c) \/ Answer(c)
  BY <1>2, <1>t, OnlyWorkersMove, WorkersStay DEF Admit, Answer, served, IndInv
<1> QED
  BY <1>1, <1>2, IndInvOutside, IndInvRefresh, IndInvChange DEF Next

\* Whenever nobody is inside reloadLocal's swap, the file's people who are
\* served are exactly the ones the live source holds, with its passwords,
\* however many refreshes, changes, edits and clients there are.
THEOREM ServedIsLocal == Spec => []LocalServed
<1>1. IndInv => LocalServed
  BY DEF IndInv
<1> QED
  BY <1>1, IndInvInit, IndInvNext, PTL DEF Spec

\* What justifies a refresh's swap: one whose generation is current has read
\* the passwords that are served now.
THEOREM GenerationIsEnough == Spec => []GenerationTells
<1>1. IndInv => GenerationTells
  BY DEF IndInv
<1> QED
  BY <1>1, IndInvInit, IndInvNext, PTL DEF Spec

------------------------------------------------------------------------------
(***************************************************************************)
(* No roster that is served holds two spellings of one name, though a      *)
(* refresh and a password change each check a roster before the step that  *)
(* serves it.                                                              *)
(***************************************************************************)
\* Open refuses two spellings of one name.
LEMMA SpellInvInit == Init => SpellInv
<1> SUFFICES ASSUME Init PROVE SpellInv
  OBVIOUS
<1>1. NoTwoSpellings
  BY DEF Init, OpenAssumption, Indexes, NoTwoSpellings
<1>2. CheckedIsIndexed /\ SwappedIsIndexed
  BY DEF Init, CheckedIsIndexed, SwappedIsIndexed, Off
<1> QED
  BY <1>1, <1>2, IndInvInit DEF SpellInv

\* A step that leaves the snapshot and every worker's roster alone, and brings
\* no change to "store", keeps what was checked.
LEMMA NothingIsServed ==
  ASSUME SpellInv, UNCHANGED <<snap, worker>>,
         \A s \in Sessions : session'[s].at = "store" =>
           session[s].at = "store" /\ session'[s].cfg = session[s].cfg
  PROVE  NoTwoSpellings' /\ CheckedIsIndexed' /\ SwappedIsIndexed'
<1>1. NoTwoSpellings' /\ CheckedIsIndexed'
  BY DEF SpellInv, NoTwoSpellings, CheckedIsIndexed, Clash, Listed
<1>2. SwappedIsIndexed'
  <2> SUFFICES ASSUME NEW s \in Sessions, session'[s].at = "store"
               PROVE  ~Clash(Rebuilt(session'[s].cfg.users, snap))
    BY DEF SwappedIsIndexed, Clash, Rebuilt, Listed
  <2> QED
    BY DEF SpellInv, SwappedIsIndexed
<1> QED
  BY <1>1, <1>2

\* While nobody holds swapMu, no change is about to store a snapshot.
LEMMA NobodyStores ==
  ASSUME IndInv, swapMu = Free
  PROVE  \A s \in Sessions : session[s].at # "store"
BY ConstantsAssumption DEF IndInv, LocksHeld, HoldsSwapMu

\* A worker serves what it checked.
LEMMA SpellRefresh ==
  ASSUME SpellInv, NEW k \in Workers, Refresh(k)
  PROVE  NoTwoSpellings' /\ CheckedIsIndexed' /\ SwappedIsIndexed'
<1>t. TypeOK
  BY DEF SpellInv, IndInv
<1>w. worker[k] \in WorkerStates
  BY <1>t DEF TypeOK
<1>m. ASSUME NEW w, SetWorker(k, w)
      PROVE  \A l \in Workers : worker'[l] = IF l = k THEN w ELSE worker[l]
  BY <1>m, <1>t DEF SetWorker, TypeOK
<1>c. ASSUME NEW w, SetWorker(k, w),
             w.at \in {"check", "swap"} => ~Clash(w.sn.people)
      PROVE  CheckedIsIndexed'
  <2> SUFFICES ASSUME NEW l \in Workers, worker'[l].at \in {"check", "swap"}
               PROVE  ~Clash(worker'[l].sn.people)
    BY DEF CheckedIsIndexed, Clash, Listed
  <2> QED
    BY <1>c, <1>m DEF SpellInv, CheckedIsIndexed
<1>f. Fail(k) => CheckedIsIndexed'
  <2> DEFINE w == [worker[k] EXCEPT !.at = "note", !.ok = FALSE]
  <2>1. w.at \notin {"check", "swap"}
    BY <1>w DEF WorkerStates
  <2> HIDE DEF w
  <2> QED
    BY <1>c, <2>1 DEF Fail, w
<1>u. ASSUME UNCHANGED <<snap, session>> PROVE NoTwoSpellings' /\ SwappedIsIndexed'
  BY <1>u DEF SpellInv, NoTwoSpellings, SwappedIsIndexed, Clash, Listed, Rebuilt
<1>1. CASE StartRefresh(k) \/ LoadGen(k) \/ Note(k) \/ Release(k) \/ CloseDone(k)
  <2>1. UNCHANGED <<snap, session>>
    BY <1>1 DEF StartRefresh, LoadGen, Note, Release, CloseDone, served
  <2>2. CheckedIsIndexed'
    <3> DEFINE start == [Off EXCEPT !.at = "gen", !.tries = 1]
               load == [worker[k] EXCEPT !.at = "people", !.gen = gen]
               note == [worker[k] EXCEPT !.at = "release"]
               close == [Off EXCEPT !.at = "close"]
               done == [Off EXCEPT !.done = TRUE]
    <3>1. \A w \in {start, load, note, close, done} : w.at \notin {"check", "swap"}
      BY <1>w DEF Off, WorkerStates
    <3>2. \E w \in {start, load, note, close, done} : SetWorker(k, w)
      BY <1>1 DEF StartRefresh, LoadGen, Note, Release, CloseDone
    <3> HIDE DEF start, load, note, close, done
    <3> QED
      BY <1>c, <3>1, <3>2
  <2> QED
    BY <1>u, <2>1, <2>2
<1>2. CASE ReadPeople(k)
  <2> DEFINE w == [worker[k] EXCEPT !.at = "groups",
                     !.sn = [worker[k].sn EXCEPT
                               !.people = Merge(local.users, upstream.people)]]
  <2>1. UNCHANGED <<snap, session>> /\ (SetWorker(k, w) \/ Fail(k))
    BY <1>2 DEF ReadPeople, served
  <2>2. w.at = "groups"
    BY <1>w DEF WorkerStates
  <2> HIDE DEF w
  <2> QED
    BY <1>c, <1>f, <1>u, <2>1, <2>2
<1>3. CASE ReadGroups(k)
  <2> DEFINE w == [worker[k] EXCEPT !.at = "check",
                     !.sn = [worker[k].sn EXCEPT !.local = Held(local.users),
                               !.groups = [file |-> local.groups,
                                           upstream |-> upstream.groups]]]
  <2>1. /\ UNCHANGED <<snap, session>>
        /\ \/ SetWorker(k, w) /\ Indexes(worker[k].sn.people)
           \/ Fail(k)
    BY <1>3 DEF ReadGroups, served
  <2>2. w.sn.people = worker[k].sn.people
    BY <1>w DEF WorkerStates, Snapshots
  <2> HIDE DEF w
  <2> QED
    BY <1>c, <1>f, <1>u, <2>1, <2>2 DEF Indexes
<1>4. CASE CheckSnapshot(k)
  <2> DEFINE w == [worker[k] EXCEPT !.at = "swap",
                     !.sn = [worker[k].sn EXCEPT !.built = now]]
  <2>1. /\ UNCHANGED <<snap, session>> /\ worker[k].at = "check"
        /\ SetWorker(k, w) \/ Fail(k)
    BY <1>4 DEF CheckSnapshot, served
  <2>2. w.sn.people = worker[k].sn.people
    BY <1>w DEF WorkerStates, Snapshots
  <2>3. ~Clash(worker[k].sn.people)
    BY <2>1 DEF SpellInv, CheckedIsIndexed
  <2> HIDE DEF w
  <2> QED
    BY <1>c, <1>f, <1>u, <2>1, <2>2, <2>3
<1>5. CASE Swap(k)
  <2>1. CheckedIsIndexed'
    <3> DEFINE note == [worker[k] EXCEPT !.at = "note"]
               again == [worker[k] EXCEPT !.at = "gen", !.tries = @ + 1]
    <3>1. \A w \in {note, again} : w.at \notin {"check", "swap"}
      BY <1>w DEF WorkerStates
    <3>2. SetWorker(k, note) \/ SetWorker(k, again) \/ Fail(k)
      BY <1>5 DEF Swap
    <3> HIDE DEF note, again
    <3> QED
      BY <1>c, <1>f, <3>1, <3>2
  <2>2. CASE UNCHANGED <<snap, session>>
    BY <1>u, <2>1, <2>2
  <2>3. CASE snap' = worker[k].sn /\ session' = Moved(Names)
    <3>1. swapMu = Free /\ worker[k].at = "swap"
      BY <1>5 DEF Swap
    <3>2. NoTwoSpellings'
      BY <2>3, <3>1 DEF SpellInv, CheckedIsIndexed, NoTwoSpellings, Clash, Listed
    <3>3. \A s \in Sessions : session'[s].at = session[s].at
      BY <1>t, <2>3 DEF Moved, TypeOK, SessionStates
    <3>4. SwappedIsIndexed'
      BY <3>1, <3>3, NobodyStores DEF SpellInv, SwappedIsIndexed
    <3> QED
      BY <2>1, <3>2, <3>4
  <2> QED
    BY <1>5, <2>2, <2>3 DEF Swap
<1> QED
  BY <1>1, <1>2, <1>3, <1>4, <1>5 DEF Refresh

\* A change serves what it checked, since it holds swapMu from one to the other.
LEMMA SpellChange ==
  ASSUME SpellInv, NEW s \in Sessions, Change(s)
  PROVE  NoTwoSpellings' /\ CheckedIsIndexed' /\ SwappedIsIndexed'
<1>t. TypeOK
  BY DEF SpellInv, IndInv
<1>s. session[s] \in SessionStates
  BY <1>t DEF TypeOK
<1>m. ASSUME NEW t, SetSession(s, t)
      PROVE  \A r \in Sessions : session'[r] = IF r = s THEN t ELSE session[r]
  BY <1>m, <1>t DEF SetSession, TypeOK
<1>n. ASSUME NEW t, SetSession(s, t), t.at # "store", UNCHANGED <<snap, worker>>
      PROVE  NoTwoSpellings' /\ CheckedIsIndexed' /\ SwappedIsIndexed'
  <2>1. \A r \in Sessions : session'[r].at = "store" =>
          session[r].at = "store" /\ session'[r].cfg = session[r].cfg
    BY <1>n, <1>m
  <2> QED
    BY <1>n, <2>1, NothingIsServed
<1>r. ASSUME NEW r, Reply(s, r) PROVE \E t : SetSession(s, t) /\ t.at # "store"
  <2> DEFINE t == [session[s] EXCEPT !.at = "replied", !.result = r,
                                     !.id = Nobody, !.moved = FALSE,
                                     !.cfg = Blocks(StartFile)]
  <2>1. t.at = "replied"
    BY <1>s DEF SessionStates
  <2>2. SetSession(s, t)
    BY <1>r DEF Reply
  <2> HIDE DEF t
  <2> QED
    BY <2>1, <2>2
<1>g. ASSUME NEW at, Goto(s, at), at # "store"
      PROVE  \E t : SetSession(s, t) /\ t.at # "store"
  <2> DEFINE t == [session[s] EXCEPT !.at = at]
  <2>1. t.at = at
    BY <1>s DEF SessionStates
  <2>2. SetSession(s, t)
    BY <1>g DEF Goto
  <2> HIDE DEF t
  <2> QED
    BY <1>g, <2>1, <2>2
<1>1. CASE Ask(s) \/ Prove(s) \/ Lock(s) \/ Recheck(s) \/ WriteFile(s) \/ LoadConfig(s)
           \/ BumpGen(s)
  <2>1. UNCHANGED <<snap, worker>>
    BY <1>1 DEF Ask, Prove, Lock, Recheck, WriteFile, LoadConfig, BumpGen, served
  <2>2. CASE Ask(s) \/ LoadConfig(s)
    <3> DEFINE prove == [session[s] EXCEPT !.at = "prove",
                                           !.id = snap.people[session[s].req.who]]
               swap == [session[s] EXCEPT !.at = "swap", !.cfg = Blocks(file)]
    <3>1. prove.at # "store" /\ swap.at # "store"
      BY <1>s DEF SessionStates
    <3>2. (\E r : Reply(s, r)) \/ SetSession(s, prove) \/ SetSession(s, swap)
      BY <2>2 DEF Ask, LoadConfig
    <3> HIDE DEF prove, swap
    <3> QED
      BY <1>n, <1>r, <2>1, <3>1, <3>2
  <2>3. CASE Prove(s) \/ Lock(s) \/ Recheck(s) \/ WriteFile(s) \/ BumpGen(s)
    <3>1. \/ \E r : Reply(s, r)
          \/ \E at \in {"lock", "recheck", "write", "reload"} : Goto(s, at)
      BY <2>3 DEF Prove, Lock, Recheck, WriteFile, BumpGen
    <3> QED
      BY <1>n, <1>r, <1>g, <2>1, <3>1
  <2> QED
    BY <1>1, <2>2, <2>3
<1>2. CASE SwapLocal(s)
  <2>1. UNCHANGED <<snap, worker>> /\ swapMu = Free
    BY <1>2 DEF SwapLocal
  <2>2. CASE Reply(s, "other")
    BY <1>n, <1>r, <2>1, <2>2
  <2>3. CASE Goto(s, "store") /\ Indexes(Rebuilt(session[s].cfg.users, snap))
    <3>1. NoTwoSpellings' /\ CheckedIsIndexed'
      BY <2>1 DEF SpellInv, NoTwoSpellings, CheckedIsIndexed, Clash, Listed
    <3>2. \A r \in Sessions : /\ session'[r].cfg = session[r].cfg
                              /\ r # s => session'[r].at # "store"
      BY <1>t, <2>1, <2>3, NobodyStores
         DEF SpellInv, Goto, SetSession, TypeOK, SessionStates
    <3>3. SwappedIsIndexed'
      <4> SUFFICES ASSUME NEW r \in Sessions, session'[r].at = "store"
                   PROVE  ~Clash(Rebuilt(session'[r].cfg.users, snap))
        BY <2>1 DEF SwappedIsIndexed, Clash, Rebuilt, Listed
      <4> QED
        BY <2>3, <3>2 DEF Indexes
    <3> QED
      BY <3>1, <3>3
  <2> QED
    BY <1>2, <2>2, <2>3 DEF SwapLocal
<1>3. CASE StoreSnapshot(s)
  <2>1. /\ session[s].at = "store" /\ UNCHANGED worker
        /\ snap' = Restored(session[s].cfg.users, snap)
    BY <1>3 DEF StoreSnapshot
  <2>2. snap'.people = Rebuilt(session[s].cfg.users, snap)
    BY <1>t, <2>1 DEF Restored, TypeOK, Snapshots
  <2>3. NoTwoSpellings'
    BY <2>1, <2>2 DEF SpellInv, SwappedIsIndexed, NoTwoSpellings, Clash, Listed
  <2>4. CheckedIsIndexed'
    BY <2>1 DEF SpellInv, CheckedIsIndexed, Clash, Listed
  <2>5. \A r \in Sessions : session[r].at = "store" => r = s
    BY <2>1, ConstantsAssumption DEF SpellInv, IndInv, LocksHeld, HoldsSwapMu
  <2>6. \A r \in Sessions : session'[r].at = IF r = s THEN "bump" ELSE session[r].at
    BY <1>3, <1>t DEF StoreSnapshot, Moved, TypeOK, SessionStates
  <2>7. SwappedIsIndexed'
    BY <2>5, <2>6 DEF SwappedIsIndexed
  <2> QED
    BY <2>3, <2>4, <2>7
<1> QED
  BY <1>1, <1>2, <1>3 DEF Change

\* Hence every step.
LEMMA SpellInvNext == SpellInv /\ [Next]_vars => SpellInv'
<1> SUFFICES ASSUME SpellInv, [Next]_vars PROVE SpellInv'
  OBVIOUS
<1>i. IndInv'
  BY IndInvNext DEF SpellInv
<1>1. CASE UNCHANGED vars \/ Outside \/ Loop \/ \E c \in Clients : Admit(c) \/ Answer(c)
  <2>1. UNCHANGED <<snap, worker, session>>
    BY <1>1 DEF vars, served, Outside, EditFile, ChangeUpstream, ChangeHealth, Tick,
       Loop, SkipRefresh, FinishRefresh, GiveUpRefresh, Admit, Answer
  <2> QED
    BY <1>i, <2>1, NothingIsServed DEF SpellInv
<1>2. CASE \E k \in Workers : Refresh(k)
  BY <1>2, <1>i, SpellRefresh DEF SpellInv
<1>3. CASE \E s \in Sessions : Change(s)
  BY <1>3, <1>i, SpellChange DEF SpellInv
<1> QED
  BY <1>1, <1>2, <1>3 DEF Next

------------------------------------------------------------------------------
\* Neither a refresh nor a password change ever serves two names an LDAP client
\* cannot tell apart: the roster each checked is the one it stores (swapMu is
\* what makes it so for the change).
THEOREM SpelledOnce == Spec => []NoTwoSpellings
<1>1. SpellInv => NoTwoSpellings
  BY DEF SpellInv
<1> QED
  BY <1>1, SpellInvInit, SpellInvNext, PTL DEF Spec
=============================================================================
