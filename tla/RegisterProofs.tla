--------------------------- MODULE RegisterProofs ---------------------------
(***************************************************************************)
(* Directory implements PasswordRegister, for any number of changes,       *)
(* refreshes, edits and people: every step of it is a step of the          *)
(* register, or leaves what the register has as it is.                     *)
(***************************************************************************)
EXTENDS DirectoryRefinement, DirectoryProofs

------------------------------------------------------------------------------
(***************************************************************************)
(* The old password that a change proved is the one it writes over.        *)
(***************************************************************************)
\* Nobody has asked for anything when the server opens.
LEMMA RegisterInvInit == Init => RegisterInv
<1> SUFFICES ASSUME Init PROVE RegisterInv
  OBVIOUS
<1>1. \A s \in Sessions : session[s].at = "idle"
  BY DEF Init
<1>2. TakenIsServed /\ ProofIsRight /\ ServedIsProved
  BY <1>1 DEF TakenIsServed, ProofIsRight, ServedIsProved, Taken
<1> QED
  BY <1>2, IndInvInit DEF RegisterInv

\* A step in which only one change moves has only that one to answer for.
LEMMA OnlyOneProves ==
  ASSUME RegisterInv, NEW s \in Sessions, NEW t, SetSession(s, t), UNCHANGED snap,
         t.at \in Taken => /\ t.id # Nobody
                           /\ t.moved \/ t.id = snap.people[t.req.who],
         t.at \in {"lock", "recheck"} => Proves(t.id, t.req.sent),
         t.at = "write" => Proves(snap.people[t.req.who], t.req.sent)
  PROVE  TakenIsServed' /\ ProofIsRight' /\ ServedIsProved'
<1>1. \A o \in Sessions : session'[o] = IF o = s THEN t ELSE session[o]
  BY DEF SetSession, RegisterInv, IndInv, TypeOK
<1>2. TakenIsServed'
  BY <1>1 DEF RegisterInv, TakenIsServed
<1>3. ProofIsRight'
  BY <1>1 DEF RegisterInv, ProofIsRight, Proves
<1>4. ServedIsProved'
  BY <1>1 DEF RegisterInv, ServedIsProved, Proves
<1> QED
  BY <1>2, <1>3, <1>4

\* A step that leaves the changes and what is served alone has nothing to
\* answer for.
LEMMA NobodyProves ==
  ASSUME RegisterInv, UNCHANGED <<session, snap>>
  PROVE  TakenIsServed' /\ ProofIsRight' /\ ServedIsProved'
BY DEF RegisterInv, TakenIsServed, ProofIsRight, ServedIsProved, Proves

\* Two rosters with the same people of the file have them with the same passwords.
LEMMA SameFileProves ==
  ASSUME NEW a \in Rosters, NEW b \in Rosters, FilePart(a) = FilePart(b),
         NEW n \in Names, NEW sent, Proves(a[n], sent)
  PROVE  Proves(b[n], sent)
<1>1. FilePart(a)[n] = FilePart(b)[n]
  OBVIOUS
<1>2. a[n] \in Identities /\ b[n] \in Identities
  BY DEF Rosters
<1>3. (IF a[n].src = "file" THEN a[n].pw ELSE None)
        = (IF b[n].src = "file" THEN b[n].pw ELSE None)
  BY <1>1 DEF FilePart
<1>4. b[n].src = "file" => b[n].pw # None
  BY <1>2, ConstantsAssumption DEF Identities, Nobody
<1> QED
  BY <1>3, <1>4 DEF Proves

\* A refresh that swaps serves the same people of the file.
LEMMA SwapKeepsTheFile ==
  ASSUME RegisterInv, NEW k \in Workers, Swap(k), Current(k)
  PROVE  /\ snap' = worker[k].sn /\ session' = Moved(Names)
         /\ FilePart(snap'.people) = FilePart(snap.people)
<1>1. /\ swapMu = Free /\ worker[k].at = "swap" /\ worker[k].gen = gen
      /\ snap' = worker[k].sn /\ session' = Moved(Names)
  BY DEF Swap, Current
<1>2. Tells(worker[k]) /\ LocalServed
  BY Zenon DEF RegisterInv, IndInv, GenerationTells
<1>3. FilePart(worker[k].sn.people) = local.users
  BY <1>1, <1>2 DEF Tells
<1>4. FilePart(snap.people) = local.users
  BY <1>1, <1>2 DEF LocalServed
<1> QED
  BY <1>1, <1>3, <1>4

\* Moving everybody, or some, changes nothing of a change but that.
LEMMA MovedKeeps ==
  ASSUME TypeOK, NEW people, NEW s \in Sessions
  PROVE  LET t == Moved(people)[s] IN
         /\ t.at = session[s].at /\ t.req = session[s].req
         /\ t.id = session[s].id /\ t.cfg = session[s].cfg
         /\ t.result = session[s].result
         /\ t.moved <=> session[s].moved
                        \/ (session[s].at \in Taken /\ session[s].req.who \in people)
<1>1. session[s] \in SessionStates
  BY DEF TypeOK
<1> QED
  BY <1>1 DEF Moved, SessionStates

\* Each step of a worker keeps what changes have proved: a swap tells those who
\* have not looked again to look again, and for those who have it changes
\* nothing of the file.
LEMMA RegisterRefresh ==
  ASSUME RegisterInv, NEW k \in Workers, Refresh(k)
  PROVE  TakenIsServed' /\ ProofIsRight' /\ ServedIsProved'
<1>t. TypeOK /\ TypeOK'
  BY TypeRefresh DEF RegisterInv, IndInv
<1>1. CASE UNCHANGED <<session, snap>>
  BY <1>1, NobodyProves
<1>2. CASE Swap(k) /\ Current(k)
  <2>1. /\ session' = Moved(Names)
        /\ FilePart(snap'.people) = FilePart(snap.people)
    BY <1>2, SwapKeepsTheFile
  <2>2. snap.people \in Rosters /\ snap'.people \in Rosters
    BY <1>t DEF TypeOK, Snapshots
  <2>3. ASSUME NEW s \in Sessions
        PROVE  /\ session'[s].at = session[s].at /\ session'[s].req = session[s].req
               /\ session'[s].id = session[s].id /\ session[s].req.who \in Names
               /\ session[s].at \in Taken => session'[s].moved
    <3>1. session[s].req.who \in Names
      BY <1>t DEF TypeOK, SessionStates, Asked
    <3> QED
      BY <1>t, <2>1, <3>1, MovedKeeps
  <2>4. TakenIsServed'
    BY <2>3 DEF RegisterInv, TakenIsServed
  <2>5. ProofIsRight'
    BY <2>3 DEF RegisterInv, ProofIsRight, Proves
  <2>6. ServedIsProved'
    <3> SUFFICES ASSUME NEW s \in Sessions, session'[s].at = "write"
                 PROVE  Proves(snap'.people[session'[s].req.who], session'[s].req.sent)
      BY DEF ServedIsProved, Proves
    <3>1. Proves(snap.people[session[s].req.who], session[s].req.sent)
      BY <2>3 DEF RegisterInv, ServedIsProved
    <3>2. Proves(snap'.people[session[s].req.who], session[s].req.sent)
      BY <2>1, <2>2, <2>3, <3>1, SameFileProves
    <3> QED
      BY <2>3, <3>2
  <2> QED
    BY <2>4, <2>5, <2>6
<1> QED
  BY <1>1, <1>2 DEF Refresh, StartRefresh, LoadGen, ReadPeople, ReadGroups,
     CheckSnapshot, Swap, Note, Release, CloseDone, served

\* An answer proves nothing any more.
LEMMA ReplyProves ==
  ASSUME RegisterInv, NEW s \in Sessions, NEW r, Reply(s, r), UNCHANGED snap
  PROVE  TakenIsServed' /\ ProofIsRight' /\ ServedIsProved'
<1> DEFINE t == [session[s] EXCEPT !.at = "replied", !.result = r,
                                   !.id = Nobody, !.moved = FALSE,
                                   !.cfg = Blocks(StartFile)]
<1>1. session[s] \in SessionStates
  BY DEF RegisterInv, IndInv, TypeOK
<1>2. t.at = "replied" /\ t.at \notin Taken
  BY <1>1 DEF SessionStates, Taken
<1>3. SetSession(s, t)
  BY DEF Reply
<1> HIDE DEF t
<1> QED
  BY <1>2, <1>3, OnlyOneProves

\* A change that goes on with what it took owes what it has proved by then.
LEMMA GotoProves ==
  ASSUME RegisterInv, NEW s \in Sessions, NEW at, Goto(s, at), UNCHANGED snap,
         at \in Taken => session[s].at \in Taken,
         at \in {"lock", "recheck"} => Proves(session[s].id, session[s].req.sent),
         at = "write" => Proves(snap.people[session[s].req.who], session[s].req.sent)
  PROVE  TakenIsServed' /\ ProofIsRight' /\ ServedIsProved'
<1> DEFINE t == [session[s] EXCEPT !.at = at]
<1>1. session[s] \in SessionStates
  BY DEF RegisterInv, IndInv, TypeOK
<1>2. /\ t.at = at /\ t.id = session[s].id /\ t.req = session[s].req
      /\ t.moved = session[s].moved
  BY <1>1 DEF SessionStates
<1>3. SetSession(s, t)
  BY DEF Goto
<1>4. session[s].at \in Taken =>
        /\ session[s].id # Nobody
        /\ session[s].moved \/ session[s].id = snap.people[session[s].req.who]
  BY DEF RegisterInv, TakenIsServed
<1> HIDE DEF t
<1> QED
  BY <1>2, <1>3, <1>4, OnlyOneProves

\* Whom a source says a password is right of has that password, when the source
\* is the file.
LEMMA RightIsProved ==
  ASSUME NEW id, NEW n, NEW sent, Verdict(id, n, sent) = "right"
  PROVE  Proves(id, sent)
BY DEF Verdict, Proves

\* writeProved writes for somebody whose password, as it is served now, is the
\* one that was sent: it asked of the identity served, or had asked of it.
LEMMA RecheckProves ==
  ASSUME RegisterInv, NEW s \in Sessions, session[s].at = "recheck", StillProved(s)
  PROVE  Proves(snap.people[session[s].req.who], session[s].req.sent)
<1> DEFINE n == session[s].req.who
           sent == session[s].req.sent
<1>1. CASE session[s].moved
  <2>1. Verdict(snap.people[n], n, sent) = "right"
    BY <1>1 DEF StillProved
  <2> QED
    BY <2>1, RightIsProved
<1>2. CASE ~ session[s].moved
  <2>1. session[s].id = snap.people[n]
    BY <1>2 DEF RegisterInv, TakenIsServed, Taken
  <2>2. Proves(session[s].id, sent)
    BY DEF RegisterInv, ProofIsRight
  <2> QED
    BY <2>1, <2>2
<1> QED
  BY <1>1, <1>2

\* A rebuilt roster has the same identity for everybody it does not remake.
LEMMA RebuiltKeepsTheRest ==
  ASSUME NEW users \in Users, NEW before \in Snapshots, NEW n \in Names,
         n \notin Remade(users, before)
  PROVE  Rebuilt(users, before)[n] = before.people[n]
BY DEF Rebuilt, Remade, Held

\* Each step of a change keeps what changes have proved: what it takes is served
\* then, it goes on only with the right password, and while one writes the
\* files nobody else writes, or stores, anything.
LEMMA RegisterChange ==
  ASSUME RegisterInv, NEW s \in Sessions, Change(s)
  PROVE  TakenIsServed' /\ ProofIsRight' /\ ServedIsProved'
<1>t. TypeOK /\ TypeOK'
  BY TypeChange DEF RegisterInv, IndInv
<1>s. session[s] \in SessionStates
  BY <1>t DEF TypeOK
<1>1. CASE Ask(s)
  <2> DEFINE id == snap.people[session[s].req.who]
             t == [session[s] EXCEPT !.at = "prove", !.id = id]
  <2>1. CASE Reply(s, "refused") \/ Reply(s, "unavailable")
    BY <1>1, <2>1, ReplyProves DEF Ask, served
  <2>2. CASE id # Nobody /\ SetSession(s, t)
    <3>1. UNCHANGED snap
      BY <1>1 DEF Ask, served
    <3>2. t.at = "prove" /\ t.id = id /\ t.req = session[s].req
      BY <1>s DEF SessionStates
    <3>3. t.at \in Taken => t.id # Nobody /\ t.id = snap.people[t.req.who]
      BY <2>2, <3>2
    <3>4. SetSession(s, t)
      BY <2>2
    <3> HIDE DEF t, id
    <3> QED
      BY <3>1, <3>2, <3>3, <3>4, OnlyOneProves
  <2> QED
    BY <1>1, <2>1, <2>2 DEF Ask
<1>2. CASE Prove(s)
  <2>1. UNCHANGED snap /\ session[s].at \in Taken
    BY <1>2 DEF Prove, served, Taken
  <2>2. CASE Reply(s, "refused") \/ Reply(s, "unavailable")
    BY <2>1, <2>2, ReplyProves
  <2>3. CASE /\ Verdict(session[s].id, session[s].req.who, session[s].req.sent) = "right"
             /\ Goto(s, "lock")
    <3>1. Proves(session[s].id, session[s].req.sent)
      BY <2>3, RightIsProved
    <3> QED
      BY <2>1, <2>3, <3>1, GotoProves
  <2> QED
    BY <1>2, <2>2, <2>3 DEF Prove
<1>3. CASE Lock(s)
  <2>1. UNCHANGED snap /\ session[s].at = "lock" /\ Goto(s, "recheck")
    BY <1>3 DEF Lock, served
  <2>2. Proves(session[s].id, session[s].req.sent)
    BY <2>1 DEF RegisterInv, ProofIsRight
  <2> QED
    BY <2>1, <2>2, GotoProves DEF Taken
<1>4. CASE Recheck(s)
  <2>1. UNCHANGED snap /\ session[s].at = "recheck"
    BY <1>4 DEF Recheck, served
  <2>2. CASE StillProved(s) /\ Goto(s, "write")
    BY <2>1, <2>2, RecheckProves, GotoProves DEF Taken
  <2>3. CASE Reply(s, "refused")
    BY <2>1, <2>3, ReplyProves
  <2> QED
    BY <1>4, <2>2, <2>3 DEF Recheck
<1>5. CASE WriteFile(s)
  <2>1. UNCHANGED snap
    BY <1>5 DEF WriteFile, served
  <2>2. Goto(s, "reload") \/ Reply(s, "refused") \/ Reply(s, "other")
    BY <1>5 DEF WriteFile
  <2> QED
    BY <2>1, <2>2, ReplyProves, GotoProves DEF Taken
<1>6. CASE LoadConfig(s)
  <2> DEFINE t == [session[s] EXCEPT !.at = "swap", !.cfg = Blocks(file)]
  <2>1. UNCHANGED snap /\ (Reply(s, "other") \/ SetSession(s, t))
    BY <1>6 DEF LoadConfig, served
  <2>2. t.at = "swap" /\ t.at \notin Taken
    BY <1>s DEF SessionStates, Taken
  <2> HIDE DEF t
  <2> QED
    BY <2>1, <2>2, ReplyProves, OnlyOneProves
<1>7. CASE SwapLocal(s)
  <2>1. UNCHANGED snap /\ (Reply(s, "other") \/ Goto(s, "store"))
    BY <1>7 DEF SwapLocal
  <2> QED
    BY <2>1, ReplyProves, GotoProves DEF Taken
<1>8. CASE StoreSnapshot(s)
  <2> DEFINE users == session[s].cfg.users
             moved == Moved(Remade(users, snap))
  <2>1. /\ session[s].at = "store" /\ snap' = Restored(users, snap)
        /\ session' = [moved EXCEPT ![s] = [moved[s] EXCEPT !.at = "bump"]]
    BY <1>8 DEF StoreSnapshot
  <2>2. users \in Users /\ snap \in Snapshots /\ snap'.people = Rebuilt(users, snap)
    BY <1>s, <1>t, <2>1 DEF SessionStates, TypeOK, Restored, Snapshots
  <2>m. moved \in [Sessions -> SessionStates]
    BY <1>t, MovedIsTyped
  <2>3. session'[s].at = "bump"
    BY <2>1, <2>m DEF SessionStates
  <2>4. ASSUME NEW o \in Sessions, o # s
        PROVE  /\ session'[o].at = session[o].at /\ session'[o].req = session[o].req
               /\ session'[o].id = session[o].id /\ session[o].req.who \in Names
               /\ session'[o].moved <=>
                    \/ session[o].moved
                    \/ /\ session[o].at \in Taken
                       /\ session[o].req.who \in Remade(users, snap)
    <3>1. session'[o] = moved[o] /\ session[o] \in SessionStates
      BY <1>t, <2>1, <2>m, <2>4 DEF TypeOK
    <3> HIDE DEF users
    <3> QED
      BY <1>t, <3>1, MovedKeeps DEF SessionStates, Asked
  <2>5. TakenIsServed'
    <3> SUFFICES ASSUME NEW o \in Sessions, session'[o].at \in Taken
                 PROVE  /\ session'[o].id # Nobody
                        /\ \/ session'[o].moved
                           \/ session'[o].id = snap'.people[session'[o].req.who]
      BY DEF TakenIsServed
    <3>1. o # s /\ session[o].at \in Taken
      BY <2>3, <2>4 DEF Taken
    <3>2. /\ session[o].id # Nobody
          /\ session[o].moved \/ session[o].id = snap.people[session[o].req.who]
      BY <3>1 DEF RegisterInv, TakenIsServed
    <3>3. session[o].req.who \notin Remade(users, snap) =>
            snap'.people[session[o].req.who] = snap.people[session[o].req.who]
      BY <2>2, <2>4, <3>1, RebuiltKeepsTheRest
    <3> HIDE DEF users, moved
    <3> QED
      BY <2>4, <3>1, <3>2, <3>3
  <2>6. ProofIsRight'
    BY <2>3, <2>4 DEF RegisterInv, ProofIsRight, Proves
  <2>7. ServedIsProved'
    <3>1. \A o \in Sessions : session'[o].at = "write" => o # s /\ session[o].at = "write"
      BY <2>3, <2>4
    <3>2. \A o \in Sessions : o # s => session[o].at # "write"
      BY <2>1, <1>t DEF RegisterInv, IndInv, LocksHeld, HoldsMu
    <3> QED
      BY <3>1, <3>2 DEF ServedIsProved
  <2> QED
    BY <2>5, <2>6, <2>7
<1>9. CASE BumpGen(s)
  BY <1>9, ReplyProves DEF BumpGen
<1> QED
  BY <1>1, <1>2, <1>3, <1>4, <1>5, <1>6, <1>7, <1>8, <1>9 DEF Change

\* Hence every step.
LEMMA RegisterInvNext == RegisterInv /\ [Next]_vars => RegisterInv'
<1> SUFFICES ASSUME RegisterInv, [Next]_vars PROVE RegisterInv'
  OBVIOUS
<1>i. IndInv'
  BY IndInvNext DEF RegisterInv
<1>1. CASE UNCHANGED vars \/ Outside \/ Loop \/ \E c \in Clients : Admit(c) \/ Answer(c)
  <2>1. UNCHANGED <<snap, session>>
    BY <1>1 DEF vars, served, Outside, EditFile, ChangeUpstream, ChangeHealth, Tick,
       Loop, SkipRefresh, FinishRefresh, GiveUpRefresh, Admit, Answer
  <2> QED
    BY <1>i, <2>1, NobodyProves DEF RegisterInv
<1>2. CASE \E k \in Workers : Refresh(k)
  BY <1>2, <1>i, RegisterRefresh DEF RegisterInv
<1>3. CASE \E s \in Sessions : Change(s)
  BY <1>3, <1>i, RegisterChange DEF RegisterInv
<1> QED
  BY <1>1, <1>2, <1>3 DEF Next

------------------------------------------------------------------------------
(***************************************************************************)
(* The register's steps.                                                   *)
(***************************************************************************)
\* The register starts with what open served.
LEMMA StartsAsRegister == Init => Register!Init
<1> SUFFICES ASSUME Init PROVE Register!Init
  OBVIOUS
<1>1. StartFile.users \in Users /\ StartUp.people \in Users
  BY ConstantsAssumption DEF Files, Upstreams
<1>2. FilePart(snap.people) = StartFile.users /\ file.users = StartFile.users
  BY <1>1, MergeKeepsTheFile DEF Init, StartSnapshot, Snapshot
<1>3. FilePart(snap.people) \in Register!Users
  BY <1>1, <1>2 DEF Users, Register!Users
<1>4. \A s \in Sessions : session[s].at = "idle" /\ session[s].req \in Asked
  BY ConstantsAssumption DEF Init
<1>5. \A s \in Sessions : StepOf(s) = "asked"
  BY <1>4 DEF StepOf
<1> QED
  BY <1>2, <1>3, <1>4, <1>5 DEF Register!Init, Asked

\* A step that leaves the files, the file's people who are served, and how far
\* every change is as they are, is none of the register.
SameStep(s) ==
  /\ StepOf(s)' = StepOf(s) /\ session'[s].req = session[s].req
  /\ StepOf(s) = "loaded" => session'[s].cfg.users = session[s].cfg.users
LEMMA Stutters ==
  ASSUME file'.users = file.users, FilePart(snap'.people) = FilePart(snap.people),
         \A s \in Sessions : SameStep(s)
  PROVE  UNCHANGED Register!vars
<1>1. FilePart(snap.people)' = FilePart(snap.people)
  BY DEF FilePart
<1>2. [s \in Sessions |-> [at |-> StepOf(s), req |-> session[s].req]]'
        = [s \in Sessions |-> [at |-> StepOf(s), req |-> session[s].req]]
  BY DEF SameStep
<1>3. [s \in Sessions |-> IF StepOf(s) = "loaded" THEN session[s].cfg.users ELSE None]'
        = [s \in Sessions |-> IF StepOf(s) = "loaded" THEN session[s].cfg.users ELSE None]
  BY DEF SameStep
<1> QED
  BY <1>1, <1>2, <1>3 DEF Register!vars

\* A step of one change leaves every other one where it is.
LEMMA OthersStay ==
  ASSUME TypeOK, NEW s \in Sessions, NEW t, SetSession(s, t)
  PROVE  session'[s] = t /\ \A o \in Sessions \ {s} : session'[o] = session[o] /\ SameStep(o)
BY DEF TypeOK, SetSession, SameStep, StepOf

\* Whoever is refused, or not told of a success, has failed.
LEMMA RepliesFail ==
  ASSUME RegisterInv, NEW s \in Sessions, NEW r, Reply(s, r), r # "success",
         session[s].at \notin {"bump", "replied"}, UNCHANGED <<file, snap>>
  PROVE  Register!Fail(s)
<1> DEFINE t == [session[s] EXCEPT !.at = "replied", !.result = r,
                                   !.id = Nobody, !.moved = FALSE,
                                   !.cfg = Blocks(StartFile)]
<1>t. TypeOK /\ session[s] \in SessionStates
  BY DEF RegisterInv, IndInv, TypeOK
<1>1. t.at = "replied" /\ t.result = r /\ t.req = session[s].req
  BY <1>t DEF SessionStates
<1>2. SetSession(s, t)
  BY DEF Reply
<1> HIDE DEF t
<1>3. session'[s] = t /\ \A o \in Sessions \ {s} : session'[o] = session[o] /\ SameStep(o)
  BY <1>t, <1>2, OthersStay
<1>4. StepOf(s)' = "failed"
  BY <1>1, <1>3 DEF StepOf
<1>5. StepOf(s) \notin {"success", "failed"}
  BY <1>t DEF StepOf, SessionStates, SessionAt
<1>6. [o \in Sessions |-> [at |-> StepOf(o), req |-> session[o].req]]'
        = [[o \in Sessions |-> [at |-> StepOf(o), req |-> session[o].req]]
             EXCEPT ![s] = [@ EXCEPT !.at = "failed"]]
  BY <1>1, <1>3, <1>4 DEF SameStep
<1>7. [o \in Sessions |-> IF StepOf(o) = "loaded" THEN session[o].cfg.users ELSE None]'
        = [[o \in Sessions |-> IF StepOf(o) = "loaded" THEN session[o].cfg.users ELSE None]
             EXCEPT ![s] = None]
  BY <1>3, <1>4 DEF SameStep
<1>8. UNCHANGED <<FilePart(snap.people), file.users>>
  BY DEF FilePart
<1> QED
  BY <1>5, <1>6, <1>7, <1>8 DEF Register!Fail, Register!Become

\* A change that goes on without having written, or after having served, is none
\* of the register's business.
LEMMA GotoStutters ==
  ASSUME RegisterInv, NEW s \in Sessions, NEW at, Goto(s, at), UNCHANGED <<file, snap>>,
         \/ /\ session[s].at \in {"idle", "prove", "lock", "recheck", "write"}
            /\ at \in {"idle", "prove", "lock", "recheck", "write"}
         \/ session[s].at = "swap" /\ at = "store"
  PROVE  UNCHANGED Register!vars
<1> DEFINE t == [session[s] EXCEPT !.at = at]
<1>t. TypeOK /\ session[s] \in SessionStates
  BY DEF RegisterInv, IndInv, TypeOK
<1>1. t.at = at /\ t.req = session[s].req /\ t.cfg = session[s].cfg
  BY <1>t DEF SessionStates
<1>2. SetSession(s, t)
  BY DEF Goto
<1> HIDE DEF t
<1>3. session'[s] = t /\ \A o \in Sessions \ {s} : session'[o] = session[o] /\ SameStep(o)
  BY <1>t, <1>2, OthersStay
<1>4. StepOf(s)' = StepOf(s)
  BY <1>1, <1>3 DEF StepOf
<1>5. SameStep(s)
  BY <1>1, <1>3, <1>4 DEF SameStep
<1> QED
  BY <1>3, <1>5, Stutters

\* While one change is between the files and what is served, no other is.
LEMMA OneAtATime ==
  ASSUME RegisterInv, NEW s \in Sessions, session[s].at = "write"
  PROVE  \A o \in Sessions : StepOf(o) \notin {"written", "loaded"}
<1>1. \A o \in Sessions : o # s => session[o].at \notin HoldsMu
  BY DEF RegisterInv, IndInv, LocksHeld, HoldsMu
<1>2. \A o \in Sessions : session[o].at \in SessionAt
  BY DEF RegisterInv, IndInv, TypeOK, SessionStates
<1> QED
  BY <1>1, <1>2 DEF StepOf, SessionAt, HoldsMu

\* hcldir.SetPassword is the register's write: of somebody the files hold, whose
\* password is the one that was sent, one change at a time.
LEMMA FileIsWritten ==
  ASSUME RegisterInv, NEW s \in Sessions, session[s].at = "write", Goto(s, "reload"),
         file.users[session[s].req.who] # None,
         file' = [file EXCEPT !.users = [@ EXCEPT ![session[s].req.who] = session[s].req.new]],
         UNCHANGED snap
  PROVE  Register!Write(s)
<1> DEFINE n == session[s].req.who
           t == [session[s] EXCEPT !.at = "reload"]
<1>t. /\ TypeOK /\ session[s] \in SessionStates /\ file \in Files /\ n \in Names
      /\ snap.people[n] \in Identities
  BY DEF RegisterInv, IndInv, TypeOK, SessionStates, Asked, Snapshots, Rosters
<1>1. t.at = "reload" /\ t.req = session[s].req
  BY <1>t DEF SessionStates
<1>2. SetSession(s, t)
  BY DEF Goto
<1> HIDE DEF t
<1>3. session'[s] = t /\ \A o \in Sessions \ {s} : session'[o] = session[o] /\ SameStep(o)
  BY <1>t, <1>2, OthersStay
<1>4. StepOf(s) = "asked" /\ StepOf(s)' = "written"
  BY <1>1, <1>3 DEF StepOf
<1>5. [o \in Sessions |-> [at |-> StepOf(o), req |-> session[o].req]]'
        = [[o \in Sessions |-> [at |-> StepOf(o), req |-> session[o].req]]
             EXCEPT ![s] = [@ EXCEPT !.at = "written"]]
  BY <1>1, <1>3, <1>4 DEF SameStep
<1>6. UNCHANGED [o \in Sessions |-> IF StepOf(o) = "loaded" THEN session[o].cfg.users ELSE None]
  BY <1>3, <1>4 DEF SameStep
<1>7. UNCHANGED FilePart(snap.people)
  BY DEF FilePart
<1>8. file'.users = [file.users EXCEPT ![n] = session[s].req.new]
  BY <1>t DEF Files
<1>9. FilePart(snap.people)[n] \in {session[s].req.sent, None}
  <2>1. Proves(snap.people[n], session[s].req.sent)
    BY DEF RegisterInv, ServedIsProved
  <2> QED
    BY <1>t, <2>1 DEF Proves, FilePart
<1>10. \A o \in Sessions : StepOf(o) \notin {"written", "loaded"}
  BY OneAtATime
<1> QED
  BY <1>4, <1>5, <1>6, <1>7, <1>8, <1>9, <1>10 DEF Register!Write, Register!Become

\* loadConfig, in reloadLocal, is the register's reading.
LEMMA FileIsLoaded ==
  ASSUME RegisterInv, NEW s \in Sessions, session[s].at = "reload",
         SetSession(s, [session[s] EXCEPT !.at = "swap", !.cfg = Blocks(file)]),
         UNCHANGED <<file, snap>>
  PROVE  Register!Load(s)
<1> DEFINE t == [session[s] EXCEPT !.at = "swap", !.cfg = Blocks(file)]
<1>t. TypeOK /\ session[s] \in SessionStates
  BY DEF RegisterInv, IndInv, TypeOK
<1>1. t.at = "swap" /\ t.req = session[s].req /\ t.cfg.users = file.users
  BY <1>t DEF SessionStates, Blocks
<1>s. SetSession(s, t)
  OBVIOUS
<1> HIDE DEF t
<1>2. session'[s] = t /\ \A o \in Sessions \ {s} : session'[o] = session[o] /\ SameStep(o)
  BY <1>t, <1>s, OthersStay
<1>3. StepOf(s) = "written" /\ StepOf(s)' = "loaded"
  BY <1>1, <1>2 DEF StepOf
<1>4. [o \in Sessions |-> [at |-> StepOf(o), req |-> session[o].req]]'
        = [[o \in Sessions |-> [at |-> StepOf(o), req |-> session[o].req]]
             EXCEPT ![s] = [@ EXCEPT !.at = "loaded"]]
  BY <1>1, <1>2, <1>3 DEF SameStep
<1>5. [o \in Sessions |-> IF StepOf(o) = "loaded" THEN session[o].cfg.users ELSE None]'
        = [[o \in Sessions |-> IF StepOf(o) = "loaded" THEN session[o].cfg.users ELSE None]
             EXCEPT ![s] = file.users]
  BY <1>1, <1>2, <1>3 DEF SameStep
<1>6. UNCHANGED <<FilePart(snap.people), file.users>>
  BY DEF FilePart
<1> QED
  BY <1>3, <1>4, <1>5, <1>6 DEF Register!Load, Register!Become

\* And reloadLocal's store is where it takes effect: of the file, exactly what
\* the change read is served.
LEMMA SnapshotIsPublished ==
  ASSUME RegisterInv, NEW s \in Sessions, StoreSnapshot(s)
  PROVE  Register!Publish(s)
<1> DEFINE users == session[s].cfg.users
           moved == Moved(Remade(users, snap))
<1>t. TypeOK /\ session[s] \in SessionStates
  BY DEF RegisterInv, IndInv, TypeOK
<1>1. /\ session[s].at = "store" /\ snap' = Restored(users, snap)
      /\ session' = [moved EXCEPT ![s] = [moved[s] EXCEPT !.at = "bump"]]
      /\ UNCHANGED file
  BY DEF StoreSnapshot, outside
<1>2. users \in Users /\ snap \in Snapshots /\ Marked(snap)
  BY <1>t DEF SessionStates, TypeOK, RegisterInv, IndInv, FilesAreMarked
<1>3. snap'.people = Rebuilt(users, snap)
  BY <1>1, <1>2 DEF Restored, Snapshots
<1>4. FilePart(snap.people)' = users
  <2>1. FilePart(snap'.people) = users
    BY <1>2, <1>3, RebuiltKeepsTheFile
  <2> QED
    BY <2>1 DEF FilePart
<1>m. moved \in [Sessions -> SessionStates]
  BY <1>t, MovedIsTyped
<1>5. session'[s].at = "bump" /\ session'[s].req = session[s].req
  <2>1. moved[s].req = session[s].req
    BY <1>t, MovedKeeps
  <2> HIDE DEF moved
  <2> QED
    BY <1>1, <1>m, <2>1 DEF SessionStates
<1>6. \A o \in Sessions \ {s} :
        /\ session'[o].at = session[o].at /\ session'[o].req = session[o].req
        /\ session'[o].cfg = session[o].cfg /\ session'[o].result = session[o].result
  <2>1. \A o \in Sessions \ {s} : session'[o] = moved[o]
    BY <1>1, <1>m
  <2> QED
    BY <1>t, <2>1, MovedKeeps
<1> HIDE DEF moved
<1>7. \A o \in Sessions \ {s} : SameStep(o)
  BY <1>6 DEF SameStep, StepOf
<1>8. StepOf(s) = "loaded" /\ StepOf(s)' = "success"
  BY <1>1, <1>5 DEF StepOf
<1>9. [o \in Sessions |-> [at |-> StepOf(o), req |-> session[o].req]]'
        = [[o \in Sessions |-> [at |-> StepOf(o), req |-> session[o].req]]
             EXCEPT ![s] = [@ EXCEPT !.at = "success"]]
  BY <1>5, <1>7, <1>8 DEF SameStep
<1>10. [o \in Sessions |-> IF StepOf(o) = "loaded" THEN session[o].cfg.users ELSE None]'
         = [[o \in Sessions |-> IF StepOf(o) = "loaded" THEN session[o].cfg.users ELSE None]
              EXCEPT ![s] = None]
  BY <1>7, <1>8 DEF SameStep
<1>11. [o \in Sessions |-> IF StepOf(o) = "loaded" THEN session[o].cfg.users ELSE None][s] = users
  BY <1>8
<1>12. UNCHANGED file.users
  BY <1>1
<1> HIDE DEF users
<1> QED
  BY <1>4, <1>8, <1>9, <1>10, <1>11, <1>12 DEF Register!Publish, Register!Become

\* bump answers what the store has done.
LEMMA BumpStutters ==
  ASSUME RegisterInv, NEW s \in Sessions, BumpGen(s)
  PROVE  UNCHANGED Register!vars
<1> DEFINE t == [session[s] EXCEPT !.at = "replied", !.result = "success",
                                   !.id = Nobody, !.moved = FALSE,
                                   !.cfg = Blocks(StartFile)]
<1>t. TypeOK /\ session[s] \in SessionStates
  BY DEF RegisterInv, IndInv, TypeOK
<1>1. session[s].at = "bump" /\ SetSession(s, t) /\ UNCHANGED <<file, snap>>
  BY DEF BumpGen, Reply, outside
<1>2. t.at = "replied" /\ t.result = "success" /\ t.req = session[s].req
  BY <1>t DEF SessionStates
<1> HIDE DEF t
<1>3. session'[s] = t /\ \A o \in Sessions \ {s} : session'[o] = session[o] /\ SameStep(o)
  BY <1>t, <1>1, OthersStay
<1>4. StepOf(s) = "success" /\ StepOf(s)' = "success"
  BY <1>1, <1>2, <1>3 DEF StepOf
<1>5. SameStep(s)
  BY <1>2, <1>3, <1>4 DEF SameStep
<1> QED
  BY <1>1, <1>3, <1>5, Stutters

\* What happens outside the server: an edit of the files is the register's, and
\* nothing else is.
LEMMA OutsideSimulates ==
  ASSUME RegisterInv, UNCHANGED <<session, snap>>, file' \in Files
  PROVE  Register!Edit \/ UNCHANGED Register!vars
<1>1. \A s \in Sessions : SameStep(s)
  BY DEF SameStep, StepOf
<1>2. file'.users = file.users => UNCHANGED Register!vars
  BY <1>1, Stutters
<1>3. /\ UNCHANGED FilePart(snap.people)
      /\ UNCHANGED [s \in Sessions |-> [at |-> StepOf(s), req |-> session[s].req]]
      /\ UNCHANGED [s \in Sessions |-> IF StepOf(s) = "loaded" THEN session[s].cfg.users
                                       ELSE None]
  <2>1. UNCHANGED FilePart(snap.people)
    BY DEF FilePart
  <2> QED
    BY <1>1, <2>1 DEF SameStep
<1>4. file'.users \in Register!Users
  BY DEF Files, Users, Register!Users
<1> QED
  BY <1>3, <1>4 DEF Register!Edit

\* No refresh is a step of the register.
LEMMA RefreshSimulates ==
  ASSUME RegisterInv, NEW k \in Workers, Refresh(k)
  PROVE  UNCHANGED Register!vars
<1>t. TypeOK
  BY DEF RegisterInv, IndInv
<1>1. file' = file
  BY DEF Refresh, StartRefresh, LoadGen, ReadPeople, ReadGroups, CheckSnapshot, Swap,
     Note, Release, CloseDone, outside
<1>2. CASE UNCHANGED <<session, snap>>
  <2>1. \A s \in Sessions : SameStep(s)
    BY <1>2 DEF SameStep, StepOf
  <2> QED
    BY <1>1, <1>2, <2>1, Stutters
<1>3. CASE Swap(k) /\ Current(k)
  <2>1. /\ session' = Moved(Names)
        /\ FilePart(snap'.people) = FilePart(snap.people)
    BY <1>3, SwapKeepsTheFile
  <2>2. \A s \in Sessions :
          /\ session'[s].at = session[s].at /\ session'[s].req = session[s].req
          /\ session'[s].cfg = session[s].cfg /\ session'[s].result = session[s].result
    BY <1>t, <2>1, MovedKeeps
  <2>3. \A s \in Sessions : SameStep(s)
    BY <2>2 DEF SameStep, StepOf
  <2> QED
    BY <1>1, <2>1, <2>3, Stutters
<1> QED
  BY <1>2, <1>3 DEF Refresh, StartRefresh, LoadGen, ReadPeople, ReadGroups,
     CheckSnapshot, Swap, Note, Release, CloseDone, served

\* Each step of a change is one of the register's: its write, its reading, where
\* it takes effect, its failure, or none.
LEMMA ChangeSimulates ==
  ASSUME RegisterInv, NEW s \in Sessions, Change(s)
  PROVE  Register!Next \/ UNCHANGED Register!vars
<1>t. TypeOK /\ session[s] \in SessionStates
  BY DEF RegisterInv, IndInv, TypeOK
<1>f. ASSUME NEW r \in {"refused", "unavailable", "other"}, Reply(s, r),
             session[s].at \notin {"bump", "replied"}, UNCHANGED <<file, snap>>
      PROVE  Register!Next
  <2>1. Register!Fail(s)
    BY <1>f, RepliesFail
  <2> QED
    BY <2>1 DEF Register!Next
<1>1. CASE Ask(s)
  <2> DEFINE id == snap.people[session[s].req.who]
             t == [session[s] EXCEPT !.at = "prove", !.id = id]
  <2>1. /\ session[s].at = "idle" /\ UNCHANGED <<file, snap>>
        /\ Reply(s, "refused") \/ Reply(s, "unavailable") \/ SetSession(s, t)
    BY <1>1 DEF Ask, outside, served
  <2>2. t.at = "prove" /\ t.req = session[s].req
    BY <1>t DEF SessionStates
  <2> HIDE DEF t
  <2>3. CASE SetSession(s, t)
    <3>1. session'[s] = t /\ \A o \in Sessions \ {s} : SameStep(o)
      BY <1>t, <2>3, OthersStay
    <3>2. StepOf(s) = "asked" /\ StepOf(s)' = "asked"
      BY <2>1, <2>2, <3>1 DEF StepOf
    <3>3. SameStep(s)
      BY <2>2, <3>1, <3>2 DEF SameStep
    <3> QED
      BY <2>1, <3>1, <3>3, Stutters
  <2> QED
    BY <1>f, <2>1, <2>3
<1>2. CASE Prove(s)
  BY <1>2, <1>f, GotoStutters DEF Prove, outside, served
<1>3. CASE Lock(s)
  BY <1>3, GotoStutters DEF Lock, outside, served
<1>4. CASE Recheck(s)
  BY <1>4, <1>f, GotoStutters DEF Recheck, outside, served
<1>5. CASE WriteFile(s)
  <2>1. session[s].at = "write" /\ UNCHANGED snap
    BY <1>5 DEF WriteFile, served
  <2>2. CASE (Reply(s, "refused") \/ Reply(s, "other")) /\ UNCHANGED file
    BY <1>f, <2>1, <2>2
  <2>3. CASE /\ file.users[session[s].req.who] # None /\ Goto(s, "reload")
             /\ file' = [file EXCEPT !.users =
                           [@ EXCEPT ![session[s].req.who] = session[s].req.new]]
    <3>1. Register!Write(s)
      BY <2>1, <2>3, FileIsWritten
    <3> QED
      BY <3>1 DEF Register!Next
  <2> QED
    BY <1>5, <2>2, <2>3 DEF WriteFile
<1>6. CASE LoadConfig(s)
  <2>1. session[s].at = "reload" /\ UNCHANGED <<file, snap>>
    BY <1>6 DEF LoadConfig, outside, served
  <2>2. CASE Reply(s, "other")
    BY <1>f, <2>1, <2>2
  <2>3. CASE SetSession(s, [session[s] EXCEPT !.at = "swap", !.cfg = Blocks(file)])
    <3>1. Register!Load(s)
      BY <2>1, <2>3, FileIsLoaded
    <3> QED
      BY <3>1 DEF Register!Next
  <2> QED
    BY <1>6, <2>2, <2>3 DEF LoadConfig
<1>7. CASE SwapLocal(s)
  <2>1. session[s].at = "swap" /\ UNCHANGED <<file, snap>>
    BY <1>7 DEF SwapLocal, outside
  <2>2. Reply(s, "other") \/ Goto(s, "store")
    BY <1>7 DEF SwapLocal
  <2> QED
    BY <1>f, <2>1, <2>2, GotoStutters
<1>8. CASE StoreSnapshot(s)
  <2>1. Register!Publish(s)
    BY <1>8, SnapshotIsPublished
  <2> QED
    BY <2>1 DEF Register!Next
<1>9. CASE BumpGen(s)
  BY <1>9, BumpStutters
<1> QED
  BY <1>1, <1>2, <1>3, <1>4, <1>5, <1>6, <1>7, <1>8, <1>9 DEF Change

\* Hence every step.
LEMMA StepSimulates ==
  RegisterInv /\ [Next]_vars => [Register!Next]_(Register!vars)
<1> SUFFICES ASSUME RegisterInv, [Next]_vars
             PROVE  Register!Next \/ UNCHANGED Register!vars
  OBVIOUS
<1>1. CASE UNCHANGED vars \/ Outside \/ Loop \/ \E c \in Clients : Admit(c) \/ Answer(c)
  <2>1. UNCHANGED <<snap, session>>
    BY <1>1 DEF vars, served, Outside, EditFile, ChangeUpstream, ChangeHealth, Tick,
       Loop, SkipRefresh, FinishRefresh, GiveUpRefresh, Admit, Answer
  <2>2. TypeOK'
    BY TypeNext DEF RegisterInv, IndInv
  <2>3. Register!Edit \/ UNCHANGED Register!vars
    BY <2>1, <2>2, OutsideSimulates DEF TypeOK
  <2> QED
    BY <2>3 DEF Register!Next
<1>2. CASE \E k \in Workers : Refresh(k)
  BY <1>2, RefreshSimulates
<1>3. CASE \E s \in Sessions : Change(s)
  BY <1>3, ChangeSimulates
<1> QED
  BY <1>1, <1>2, <1>3 DEF Next

------------------------------------------------------------------------------
\* Whatever runs at once, the passwords of the file that binds and the KDC are
\* answered from are an atomic register's: they change only where a change that
\* proved the one it replaces takes effect, one change at a time.
THEOREM PasswordsAreARegister == Spec => ImplementsRegister
<1>1. Init => Register!Init
  BY StartsAsRegister
<1>2. RegisterInv /\ [Next]_vars => [Register!Next]_(Register!vars)
  BY StepSimulates
<1> QED
  BY <1>1, <1>2, RegisterInvInit, RegisterInvNext, PTL
     DEF Spec, ImplementsRegister, Register!Spec

\* Nothing is written over a password nobody proved: about to write the files, a
\* change has sent the one that is served then, or the person is not the file's.
THEOREM ProvedWhenWritten == Spec => []ServedIsProved
<1>1. RegisterInv => ServedIsProved
  BY DEF RegisterInv
<1> QED
  BY <1>1, RegisterInvInit, RegisterInvNext, PTL DEF Spec
=============================================================================
