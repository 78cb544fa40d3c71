------------------------------ MODULE Directory ------------------------------
(***************************************************************************)
(* The served directory of authnd: one snapshot of everybody and every     *)
(* group, swapped whole by the periodic refresh (refresh.go) and by a      *)
(* password change (server.go), and read without a lock by binds, searches *)
(* and the KDC.                                                            *)
(*                                                                         *)
(* Two sources are modelled: the configuration file, whose user and group  *)
(* blocks the server holds in `local` (liveSource), and one other          *)
(* directory, `upstream`, that verifies its own people's passwords and     *)
(* that may stop answering.  The unit of time is the refresh period.       *)
(***************************************************************************)
EXTENDS Integers, FiniteSets

CONSTANTS
  Names,      \* the uids anybody may have
  Passwords,
  None,       \* no password: a name the source does not hold
  Fold,       \* [Names -> Names]: a uid reduced to what caseIgnoreMatch compares
  StartFile,  \* what the configuration files say when the server opens
  FileEdits,  \* what an administrator may replace them by while it runs
  StartUp,    \* what the other directory holds when the server opens
  Passwordless, \* whom it knows and cannot verify (they bind with a token)
  UpStates,   \* what it may be changed to
  Health,     \* how it may answer: a subset of {"up", "down", "hung"}
  Sessions,   \* bound sessions, each of which asks for one password change
  Requests,   \* what they may ask
  Workers,    \* goroutines a refresh may run in
  Clients,    \* binds, searches and ticket requests
  Free,       \* nobody: a mutex nobody holds, a loop that waits for no worker
  MaxAge,     \* max_age in periods, 0 for no limit
  MaxTime,    \* bound on the clock
  MaxChanges  \* bound on what happens outside the server

Users == [Names -> Passwords \cup {None}]
Files == [users : Users, groups : SUBSET Names, ok : BOOLEAN]
Upstreams == [people : Users, groups : SUBSET Names]
\* Who asks, the old password it sends (None when it sends none), the new one.
Asked == [who : Names, sent : Passwords \cup {None}, new : Passwords]

ASSUME ConstantsAssumption ==
  /\ None \notin Passwords
  /\ Fold \in [Names -> Names]
  /\ StartFile \in Files /\ FileEdits \subseteq Files
  /\ StartUp \in Upstreams /\ UpStates \subseteq Upstreams
  /\ Passwordless \subseteq Names
  /\ Health \subseteq {"up", "down", "hung"}
  /\ Requests \subseteq Asked
  /\ Free \notin Sessions \cup Workers
  /\ MaxAge \in Nat /\ MaxTime \in Nat /\ MaxChanges \in Nat

\* The three attempts of refreshTry.
Attempts == 3

VARIABLES
  file,       \* the configuration files on disk
  upstream,   \* the other directory's people and group members
  health,     \* how it answers now
  changes,    \* how often something outside the server happened
  now, tick,  \* the clock, and the tick the refresh ticker holds
  local,      \* s.local: the user and group blocks the server holds
  snap,       \* s.snap
  gen,        \* s.gen
  mu, swapMu, \* who holds s.mu and s.swapMu
  refreshing, failing,
  loop,       \* the worker startRefresh's loop waits for, or Free
  worker,     \* [Workers -> the state of refreshOnce's goroutine]
  session,    \* [Sessions -> the state of Modify or Extended]
  client,     \* [Clients -> the state of Bind, Search or realmPeople.Find]
  lastRead    \* history: when the sources were last read to the end

outside == <<file, upstream, health, changes>>
clock   == <<now, tick>>
served  == <<local, snap, gen>>
vars == <<outside, clock, served, mu, swapMu, refreshing, failing, loop,
          worker, session, client, lastRead>>

------------------------------------------------------------------------------
(***************************************************************************)
(* People, rosters and snapshots.                                          *)
(***************************************************************************)
\* An identity says which source it came from; one from the file carries its
\* password, one from upstream can only ask upstream.
Nobody == [src |-> "nobody", pw |-> None]
Identities == {Nobody}
              \cup [src : {"file"}, pw : Passwords]
              \cup [src : {"upstream"}, pw : {None}]
Rosters == [Names -> Identities]

Held(users) == {n \in Names : users[n] # None}
Listed(people) == {n \in Names : people[n] # Nobody}

\* directory.Set.Identities: the sources in order, the first owns a name.
Merge(users, others) ==
  [n \in Names |->
     IF users[n] # None THEN [src |-> "file", pw |-> users[n]]
     ELSE IF others[n] # None THEN [src |-> "upstream", pw |-> None]
     ELSE Nobody]

\* The people of a roster that came from the file, as the file has them.
FilePart(people) ==
  [n \in Names |-> IF people[n].src = "file" THEN people[n].pw ELSE None]

Clash(people) ==
  \E m, n \in Listed(people) : m # n /\ Fold[m] = Fold[n]

\* newRoster refuses two names that differ only by case.
IndexesAnything(people) == TRUE                                      \* mutant
Indexes(people) == ~Clash(people)

Snapshots ==
  [people : Rosters,
   local  : SUBSET Names,                     \* roster.local
   groups : [file : SUBSET Names, upstream : SUBSET Names],
   built  : Nat]

Snapshot(users, others, groups, t) ==
  [people |-> Merge(users, others), local |-> Held(users), groups |-> groups,
   built |-> t]

\* checkConfigGroups: the group blocks the server STARTED with name only
\* people who are served.
GroupsHold(people) == StartFile.groups \subseteq Listed(people)

\* reloadLocal's people: the file's, and of the ones served before those the
\* file neither holds now nor held before.
RebuiltGone(users, before) ==                                        \* mutant
  [n \in Names |->
     IF users[n] # None \/ n \in before.local
     THEN [src |-> "file", pw |-> users[n]]
     ELSE before.people[n]]
Rebuilt(users, before) ==
  [n \in Names |->
     IF users[n] # None THEN [src |-> "file", pw |-> users[n]]
     ELSE IF n \in before.local THEN Nobody
     ELSE before.people[n]]

\* Of those, the ones that get a new identity, or none.
Remade(users, before) == Held(users) \cup before.local

\* What reloadLocal stores: its people, and the groups and the age of the
\* snapshot before.
RestoredNow(users, before) ==                                        \* mutant
  [before EXCEPT !.people = Rebuilt(users, before), !.local = Held(users),
                 !.built = now]
Restored(users, before) ==
  [before EXCEPT !.people = Rebuilt(users, before), !.local = Held(users)]

\* dataTooOld
TooOld == MaxAge > 0 /\ now - snap.built > MaxAge

\* id.Can(directory.Verifier): everybody in the file has a password.
Verifies(id, n) == id.src = "upstream" => n \notin Passwordless

\* Identity.VerifyContext within its budget: what a source says of a password.
\* One that cannot be asked is an outage, whether it refuses or never answers;
\* one that verifies nothing is not asked.
Verdict(id, n, given) ==
  IF id.src = "upstream" /\ Verifies(id, n)
  THEN IF health # "up" THEN "outage"
       ELSE IF given = upstream.people[n] THEN "right" ELSE "wrong"
  ELSE IF given = id.pw THEN "right" ELSE "wrong"

------------------------------------------------------------------------------
(***************************************************************************)
(* Where each goroutine is.                                                *)
(***************************************************************************)
Blocks(f) == [users |-> f.users, groups |-> f.groups]

WorkerAt == {"off", "gen", "people", "groups", "check", "swap", "note",
             "release", "close"}
Reading == {"people", "groups", "check", "swap"}  \* between gen.Load and the swap

WorkerStates == [at : WorkerAt, gen : Nat, tries : 0..Attempts,
                 sn : Snapshots, ok : BOOLEAN, done : BOOLEAN]

SessionAt == {"idle", "prove", "lock", "recheck", "write", "reload", "swap",
              "store", "bump", "replied"}
Taken == {"prove", "lock", "recheck"}    \* an identity, not looked at again
HoldsMu == {"recheck", "write", "reload", "swap", "store", "bump"}
HoldsSwapMu == {"store", "bump"}

\* `req` is what the request carries, `id` the identity its password is proved
\* against.  `moved`: that is no longer the one served (a refresh, and a rebuild
\* for the file's people, make new ones).
SessionStates ==
  [at : SessionAt, req : Asked, id : Identities, moved : BOOLEAN,
   cfg : [users : Users, groups : SUBSET Names],
   result : {"none", "success", "refused", "unavailable", "other"}]

ClientStates == [at : {"idle", "admitted"}, since : Nat]

StartSnapshot ==
  Snapshot(StartFile.users, StartUp.people,
           [file |-> StartFile.groups, upstream |-> StartUp.groups], 0)

\* What open checks before anything listens.
OpenAssumption ==
  /\ StartFile.ok
  /\ Indexes(StartSnapshot.people)
  /\ GroupsHold(StartSnapshot.people)

Off == [at |-> "off", gen |-> 0, tries |-> 0, sn |-> StartSnapshot,
        ok |-> TRUE, done |-> FALSE]

Init ==
  /\ OpenAssumption
  /\ file = StartFile /\ upstream = StartUp /\ health = "up" /\ changes = 0
  /\ now = 0 /\ tick = FALSE
  /\ local = Blocks(StartFile) /\ snap = StartSnapshot /\ gen = 0
  /\ mu = Free /\ swapMu = Free
  /\ refreshing = FALSE /\ failing = FALSE
  /\ loop = Free
  /\ worker = [k \in Workers |-> Off]
  /\ session \in [Sessions ->
       [at : {"idle"}, req : Requests, id : {Nobody}, moved : {FALSE},
        cfg : {Blocks(StartFile)}, result : {"none"}]]
  /\ client = [c \in Clients |-> [at |-> "idle", since |-> 0]]
  /\ lastRead = 0

SetWorker(k, w) == worker' = [worker EXCEPT ![k] = w]
SetSession(s, t) == session' = [session EXCEPT ![s] = t]

------------------------------------------------------------------------------
(***************************************************************************)
(* Outside the server.                                                     *)
(***************************************************************************)
EditFile ==
  /\ changes < MaxChanges
  /\ file' \in FileEdits \ {file}
  /\ changes' = changes + 1
  /\ UNCHANGED <<upstream, health, clock, served, mu, swapMu, refreshing,
                 failing, loop, worker, session, client, lastRead>>

ChangeUpstream ==
  /\ changes < MaxChanges
  /\ upstream' \in UpStates \ {upstream}
  /\ changes' = changes + 1
  /\ UNCHANGED <<file, health, clock, served, mu, swapMu, refreshing,
                 failing, loop, worker, session, client, lastRead>>

ChangeHealth ==
  /\ changes < MaxChanges
  /\ health' \in Health \ {health}
  /\ changes' = changes + 1
  /\ UNCHANGED <<file, upstream, clock, served, mu, swapMu, refreshing,
                 failing, loop, worker, session, client, lastRead>>

\* A period passes.  The ticker keeps one tick for a loop that is late.  With
\* no max_age nothing looks at the clock, and it is not kept.
Tick ==
  /\ now < MaxTime \/ MaxAge = 0
  /\ now' = IF MaxAge = 0 THEN now ELSE now + 1
  /\ tick' = TRUE
  /\ UNCHANGED <<outside, served, mu, swapMu, refreshing, failing, loop,
                 worker, session, client, lastRead>>

------------------------------------------------------------------------------
(***************************************************************************)
(* The refresh loop: startRefresh and refreshOnce.                         *)
(***************************************************************************)
\* refreshing.CompareAndSwap(false, true)
ClaimAnyway == TRUE                                                  \* mutant
Claim == ~refreshing

\* It succeeds: a worker is started and waited for.
StartRefresh(k) ==
  /\ loop = Free /\ tick /\ Claim
  /\ worker[k].at = "off"
  /\ tick' = FALSE /\ refreshing' = TRUE /\ loop' = k
  /\ SetWorker(k, [Off EXCEPT !.at = "gen", !.tries = 1])
  /\ UNCHANGED <<outside, now, served, mu, swapMu, failing, session, client,
                 lastRead>>

\* It fails: the previous refresh is still running.
SkipRefresh ==
  /\ loop = Free /\ tick /\ refreshing
  /\ mu = Free
  /\ tick' = FALSE /\ failing' = TRUE
  /\ UNCHANGED <<outside, now, served, mu, swapMu, refreshing, loop, worker,
                 session, client, lastRead>>

\* refreshOnce's select: the worker is done, or the period has passed.
FinishRefresh ==
  /\ loop # Free /\ worker[loop].done
  /\ loop' = Free
  /\ UNCHANGED <<outside, clock, served, mu, swapMu, refreshing, failing,
                 worker, session, client, lastRead>>

GiveUpAndRelease ==                                                  \* mutant
  /\ loop # Free /\ tick
  /\ mu = Free
  /\ loop' = Free /\ failing' = TRUE /\ refreshing' = FALSE
  /\ UNCHANGED <<outside, clock, served, mu, swapMu, worker, session, client,
                 lastRead>>
GiveUpRefresh ==
  /\ loop # Free /\ tick
  /\ mu = Free
  /\ loop' = Free /\ failing' = TRUE
  /\ UNCHANGED <<outside, clock, served, mu, swapMu, refreshing, worker,
                 session, client, lastRead>>

------------------------------------------------------------------------------
(***************************************************************************)
(* The worker: refreshTry, read, and the end of refreshOnce's goroutine.   *)
(***************************************************************************)
Fail(k) == SetWorker(k, [worker[k] EXCEPT !.at = "note", !.ok = FALSE])

LoadGen(k) ==
  /\ worker[k].at = "gen"
  /\ SetWorker(k, [worker[k] EXCEPT !.at = "people", !.gen = gen])
  /\ UNCHANGED <<outside, clock, served, mu, swapMu, refreshing, failing,
                 loop, session, client, lastRead>>

\* s.dir.Identities(): blocked while upstream hangs, an error when it is down.
ReadPeople(k) ==
  /\ worker[k].at = "people"
  /\ \/ /\ health = "up"
        /\ SetWorker(k, [worker[k] EXCEPT !.at = "groups",
             !.sn = [worker[k].sn EXCEPT !.people = Merge(local.users, upstream.people)]])
     \/ health = "down" /\ Fail(k)
  /\ UNCHANGED <<outside, clock, served, mu, swapMu, refreshing, failing,
                 loop, session, client, lastRead>>

\* newRoster, with the names the live source holds by now, and readGroups,
\* which asks every source again.
ReadGroups(k) ==
  /\ worker[k].at = "groups"
  /\ \/ /\ Indexes(worker[k].sn.people) /\ health = "up"
        /\ SetWorker(k, [worker[k] EXCEPT !.at = "check",
             !.sn = [worker[k].sn EXCEPT !.local = Held(local.users),
                                         !.groups = [file |-> local.groups,
                                                     upstream |-> upstream.groups]]])
     \/ ~Indexes(worker[k].sn.people) /\ Fail(k)
     \/ Indexes(worker[k].sn.people) /\ health = "down" /\ Fail(k)
  /\ UNCHANGED <<outside, clock, served, mu, swapMu, refreshing, failing,
                 loop, session, client, lastRead>>

\* checkConfigGroups, then newSnapshot with the time it is now.
CheckSnapshot(k) ==
  /\ worker[k].at = "check"
  /\ IF GroupsHold(worker[k].sn.people)
     THEN /\ SetWorker(k, [worker[k] EXCEPT !.at = "swap",
               !.sn = [worker[k].sn EXCEPT !.built = now]])
          /\ lastRead' = now
     ELSE Fail(k) /\ UNCHANGED lastRead
  /\ UNCHANGED <<outside, clock, served, mu, swapMu, refreshing, failing,
                 loop, session, client>>

\* A new snapshot has new identities for these people: the one a change took
\* and has not looked at again is not the one served any more.
Moved(people) ==
  [s \in Sessions |->
     [session[s] EXCEPT !.moved =
        @ \/ (session[s].at \in Taken /\ session[s].req.who \in people)]]

\* No password was written since the sources were read.
CurrentAnyway(k) == TRUE                                             \* mutant
Current(k) == worker[k].gen = gen

\* refreshTry's `for range 3`
MayRetry(k) == worker[k].tries < Attempts

\* Under swapMu: swap, or read again if a password was written meanwhile.
Swap(k) ==
  /\ worker[k].at = "swap"
  /\ swapMu = Free
  /\ IF Current(k)
     THEN /\ snap' = worker[k].sn
          /\ session' = Moved(Names)
          /\ SetWorker(k, [worker[k] EXCEPT !.at = "note"])
     ELSE /\ IF MayRetry(k)
             THEN SetWorker(k, [worker[k] EXCEPT !.at = "gen", !.tries = @ + 1])
             ELSE Fail(k)
          /\ UNCHANGED <<snap, session>>
  /\ UNCHANGED <<outside, clock, local, gen, mu, swapMu, refreshing, failing,
                 loop, client, lastRead>>

\* noteRefresh
NoteRecovery(k) ==                                                   \* mutant
  /\ worker[k].at = "note"
  /\ mu = Free
  /\ failing' = (failing /\ ~worker[k].ok)
  /\ SetWorker(k, [worker[k] EXCEPT !.at = "release"])
  /\ UNCHANGED <<outside, clock, served, mu, swapMu, refreshing, loop,
                 session, client, lastRead>>
Note(k) ==
  /\ worker[k].at = "note"
  /\ mu = Free
  /\ failing' = ~worker[k].ok
  /\ SetWorker(k, [worker[k] EXCEPT !.at = "release"])
  /\ UNCHANGED <<outside, clock, served, mu, swapMu, refreshing, loop,
                 session, client, lastRead>>

\* The two deferred calls, in the order they run; the frame goes with them.
KeepClaim(k) ==                                                      \* mutant
  /\ worker[k].at = "release"
  /\ SetWorker(k, [Off EXCEPT !.at = "close"])
  /\ UNCHANGED <<outside, clock, served, mu, swapMu, refreshing, failing, loop,
                 session, client, lastRead>>
Release(k) ==
  /\ worker[k].at = "release"
  /\ refreshing' = FALSE
  /\ SetWorker(k, [Off EXCEPT !.at = "close"])
  /\ UNCHANGED <<outside, clock, served, mu, swapMu, failing, loop, session,
                 client, lastRead>>

CloseDone(k) ==
  /\ worker[k].at = "close"
  /\ SetWorker(k, [Off EXCEPT !.done = TRUE])
  /\ UNCHANGED <<outside, clock, served, mu, swapMu, refreshing, failing,
                 loop, session, client, lastRead>>

------------------------------------------------------------------------------
(***************************************************************************)
(* A password change: Modify and Extended, each for the person the session *)
(* is bound as.                                                            *)
(***************************************************************************)
\* The answer is sent, the call's variables are gone and s.mu, if held, is
\* given back.
ReplyHolding(s, result) ==                                           \* mutant
  /\ SetSession(s, [session[s] EXCEPT !.at = "replied", !.result = result,
                                      !.id = Nobody, !.moved = FALSE,
                                      !.cfg = Blocks(StartFile)])
  /\ mu' = IF mu = s /\ result # "success" THEN Free ELSE mu
Reply(s, result) ==
  /\ SetSession(s, [session[s] EXCEPT !.at = "replied", !.result = result,
                                      !.id = Nobody, !.moved = FALSE,
                                      !.cfg = Blocks(StartFile)])
  /\ mu' = IF mu = s THEN Free ELSE mu

Goto(s, at) == SetSession(s, [session[s] EXCEPT !.at = at])

\* tooOld, ownPassword (Modify asks it first, Extended second) and the start of
\* provesPassword: somebody served, data young enough, a source that verifies
\* their password, an old password.
Ask(s) ==
  LET id == snap.people[session[s].req.who] IN
  /\ session[s].at = "idle"
  /\ \/ TooOld /\ Reply(s, "unavailable")
     \/ id = Nobody /\ Reply(s, "refused")
     \/ ~TooOld /\ ~Verifies(id, session[s].req.who) /\ Reply(s, "refused")
     \/ ~TooOld /\ session[s].req.sent = None /\ Reply(s, "refused")
     \/ /\ ~TooOld /\ id # Nobody /\ session[s].req.sent # None
        /\ Verifies(id, session[s].req.who)
        /\ SetSession(s, [session[s] EXCEPT !.at = "prove", !.id = id])
        /\ UNCHANGED mu
  /\ UNCHANGED <<outside, clock, served, swapMu, refreshing, failing, loop,
                 worker, client, lastRead>>

\* The rest of provesPassword, without s.mu: whoever holds the password is
\* asked, within the bind budget.
Prove(s) ==
  LET v == Verdict(session[s].id, session[s].req.who, session[s].req.sent) IN
  /\ session[s].at = "prove"
  /\ \/ v = "outage" /\ Reply(s, "unavailable")
     \/ v = "wrong" /\ Reply(s, "refused")
     \/ v = "right" /\ Goto(s, "lock") /\ UNCHANGED mu
  /\ UNCHANGED <<outside, clock, served, swapMu, refreshing, failing, loop,
                 worker, client, lastRead>>

Lock(s) ==
  /\ session[s].at = "lock"
  /\ mu = Free
  /\ mu' = s
  /\ Goto(s, "recheck")
  /\ UNCHANGED <<outside, clock, served, swapMu, refreshing, failing, loop,
                 worker, client, lastRead>>

\* writeProved asks again, this time holding s.mu and with no deadline, when
\* the identity proved is not the one served any more.
Waits(s) == /\ session[s].at = "recheck" /\ session[s].moved
            /\ LET n == session[s].req.who  id == snap.people[n] IN
                 id.src = "upstream" /\ Verifies(id, n) /\ health = "hung"

ProvedOnce(s) == TRUE                                                \* mutant
StillProved(s) ==
  LET n == session[s].req.who  id == snap.people[n] IN
  session[s].moved => id # Nobody /\ Verdict(id, n, session[s].req.sent) = "right"

Recheck(s) ==
  /\ session[s].at = "recheck"
  /\ ~Waits(s)
  /\ IF StillProved(s) THEN Goto(s, "write") /\ UNCHANGED mu
                       ELSE Reply(s, "refused")
  /\ UNCHANGED <<outside, clock, served, swapMu, refreshing, failing, loop,
                 worker, client, lastRead>>

\* hcldir.SetPassword: the person's block in the files as they are now, which
\* an administrator may have broken or taken it out of.
WriteFile(s) ==
  LET n == session[s].req.who IN
  /\ session[s].at = "write"
  /\ \/ /\ file.ok /\ file.users[n] # None
        /\ file' = [file EXCEPT !.users = [@ EXCEPT ![n] = session[s].req.new]]
        /\ Goto(s, "reload") /\ UNCHANGED mu
     \/ file.ok /\ file.users[n] = None /\ Reply(s, "refused") /\ UNCHANGED file
     \/ ~file.ok /\ Reply(s, "other") /\ UNCHANGED file
  /\ UNCHANGED <<upstream, health, changes, clock, served, swapMu, refreshing,
                 failing, loop, worker, client, lastRead>>

\* reloadLocal: loadConfig and localSource, from the files as they are now.
LoadConfig(s) ==
  /\ session[s].at = "reload"
  /\ \/ /\ file.ok
        /\ SetSession(s, [session[s] EXCEPT !.at = "swap", !.cfg = Blocks(file)])
        /\ UNCHANGED mu
     \/ ~file.ok /\ Reply(s, "other")
  /\ UNCHANGED <<outside, clock, served, swapMu, refreshing, failing, loop,
                 worker, client, lastRead>>

\* reloadLocal under swapMu: the new people, refused when two of them are
\* spelled alike, and the live source.
SwapLocal(s) ==
  /\ session[s].at = "swap"
  /\ swapMu = Free
  /\ IF ~Indexes(Rebuilt(session[s].cfg.users, snap))
     THEN Reply(s, "other") /\ UNCHANGED <<local, swapMu>>
     ELSE /\ swapMu' = s
          /\ local' = session[s].cfg
          /\ Goto(s, "store") /\ UNCHANGED mu
  /\ UNCHANGED <<outside, clock, snap, gen, refreshing, failing, loop, worker,
                 client, lastRead>>

StoreSnapshot(s) ==
  /\ session[s].at = "store"
  /\ snap' = Restored(session[s].cfg.users, snap)
  /\ LET moved == Moved(Remade(session[s].cfg.users, snap)) IN
       session' = [moved EXCEPT ![s] = [moved[s] EXCEPT !.at = "bump"]]
  /\ UNCHANGED <<outside, clock, local, gen, mu, swapMu, refreshing, failing,
                 loop, worker, client, lastRead>>

\* gen.Add(1), and both locks are given back with the answer.
BumpGen(s) ==
  /\ session[s].at = "bump"
  /\ gen' = gen + 1
  /\ swapMu' = Free
  /\ Reply(s, "success")
  /\ UNCHANGED <<outside, clock, local, snap, refreshing, failing, loop,
                 worker, client, lastRead>>

------------------------------------------------------------------------------
(***************************************************************************)
(* Whoever reads the snapshot: one load for its age, another for the       *)
(* people.  A bind counts itself under s.mu first; the KDC and a search do *)
(* not.                                                                    *)
(***************************************************************************)
Admit(c) ==
  /\ client[c].at = "idle"
  /\ ~TooOld
  /\ client' = [client EXCEPT ![c] = [at |-> "admitted", since |-> now]]
  /\ UNCHANGED <<outside, clock, served, mu, swapMu, refreshing, failing,
                 loop, worker, session, lastRead>>

Answer(c) ==
  /\ client[c].at = "admitted"
  /\ client' = [client EXCEPT ![c] = [at |-> "idle", since |-> 0]]
  /\ UNCHANGED <<outside, clock, served, mu, swapMu, refreshing, failing,
                 loop, worker, session, lastRead>>

------------------------------------------------------------------------------
Refresh(k) == \/ StartRefresh(k) \/ LoadGen(k) \/ ReadPeople(k) \/ ReadGroups(k)
              \/ CheckSnapshot(k) \/ Swap(k) \/ Note(k) \/ Release(k) \/ CloseDone(k)

Loop == SkipRefresh \/ FinishRefresh \/ GiveUpRefresh

Change(s) == \/ Ask(s) \/ Prove(s) \/ Lock(s) \/ Recheck(s) \/ WriteFile(s)
             \/ LoadConfig(s) \/ SwapLocal(s) \/ StoreSnapshot(s) \/ BumpGen(s)

Outside == EditFile \/ ChangeUpstream \/ ChangeHealth \/ Tick

Next == \/ Outside \/ Loop
        \/ \E k \in Workers : Refresh(k)
        \/ \E s \in Sessions : Change(s)
        \/ \E c \in Clients : Admit(c) \/ Answer(c)

Spec == Init /\ [][Next]_vars

\* What the runtime owes: the ticker ticks, the loop and its worker run, and a
\* request that was accepted is carried on with.  Nothing outside is fair: a
\* source may hang for ever.
Fairness ==
  /\ WF_vars(Tick) /\ WF_vars(Loop)
  /\ \A k \in Workers : WF_vars(Refresh(k))
  /\ \A s \in Sessions : WF_vars(Change(s))

FairSpec == Spec /\ Fairness

------------------------------------------------------------------------------
(***************************************************************************)
(* What must hold.                                                         *)
(***************************************************************************)
\* Every variable holds what the code could put there.
TypeOK ==
  /\ file \in Files /\ upstream \in Upstreams
  /\ health \in {"up", "down", "hung"}
  /\ changes \in Nat /\ now \in Nat /\ tick \in BOOLEAN
  /\ local \in [users : Users, groups : SUBSET Names]
  /\ snap \in Snapshots /\ gen \in Nat
  /\ mu \in Sessions \cup {Free} /\ swapMu \in Sessions \cup {Free}
  /\ refreshing \in BOOLEAN /\ failing \in BOOLEAN
  /\ loop \in Workers \cup {Free}
  /\ worker \in [Workers -> WorkerStates]
  /\ session \in [Sessions -> SessionStates]
  /\ client \in [Clients -> ClientStates]
  /\ lastRead \in Nat

\* The file's people who are served are the ones the live source holds, with
\* the passwords it holds, whenever nobody is in the middle of swapping both:
\* a refresh never brings back a password, or a person, that a password change
\* replaced, and a bind (the snapshot) and a refresh (the source) never
\* disagree for longer than reloadLocal holds swapMu.
LocalServed ==
  swapMu = Free => /\ FilePart(snap.people) = local.users
                   /\ snap.local = Held(local.users)

\* No roster that is served, whether a refresh or a password change built it,
\* holds two names an LDAP client cannot tell apart.
NoTwoSpellings == ~Clash(snap.people)

\* Refreshes never overlap: refreshOnce lets one goroutine at a time read the
\* sources and swap, however late an earlier one is.
Busy(k) == worker[k].at \notin {"off", "close"}
NeverOverlaps ==
  /\ \A k, l \in Workers : Busy(k) /\ Busy(l) => k = l
  /\ \A k \in Workers : Busy(k) => refreshing

\* The served data never becomes older than it was: no late refresh replaces a
\* later one, and a password written to the file does not change its age.
BuiltNeverGoesBack == [][snap'.built >= snap.built]_vars

\* Nobody is admitted (a bind, a search, a ticket) on data when no reading of
\* the sources has ended within max_age, however many passwords were written
\* in between: the file proves nothing about the databases.
RefusedWhenStale ==
  [][\A c \in Clients :
       client[c].at = "idle" /\ client'[c].at = "admitted" /\ MaxAge > 0
         => now - lastRead <= MaxAge]_vars

\* The age is asked of one load of the snapshot and the people of another: a
\* swap in between never hands an admitted request older data.
AnswersAreYoungEnough ==
  \A c \in Clients :
    client[c].at = "admitted" /\ MaxAge > 0 => client[c].since - snap.built <= MaxAge

\* What the sources hold now is something a refresh can publish: nobody is
\* spelled twice, and the group blocks the server started with name nobody who
\* is gone.  Otherwise checkConfigGroups refuses every reading, and the last
\* good snapshot is kept.
SourcesHold ==
  LET people == Merge(local.users, upstream.people) IN
  Indexes(people) /\ GroupsHold(people)

\* A revocation arrives: once upstream answers for ever, and what the sources
\* hold can be published for ever, what upstream holds is in the end what is
\* served.  It takes a loop that is never stuck behind a slow worker, a worker
\* that gives up its turn, and password changes that let it swap.
UpstreamServed ==
  /\ \A n \in Names : (snap.people[n].src = "upstream")
                      <=> (upstream.people[n] # None /\ local.users[n] = None)
  /\ snap.groups.upstream = upstream.groups
RevocationArrives ==
  <>[](health = "up" /\ SourcesHold) => <>[]UpstreamServed

\* A revocation that cannot arrive is not kept silent: while no refresh can
\* succeed, because upstream does not answer or a group block of the start
\* names somebody revoked, the server is in the end failing and stays so,
\* though a late worker may still note that an earlier reading succeeded.  Not
\* while a second check waits for a hung source with s.mu held (Waits), since
\* noteRefresh needs s.mu.
OutageIsNoticed ==
  <>[](/\ health # "up" \/ ~SourcesHold
       /\ \A s \in Sessions : ~Waits(s))
    => <>[]failing

\* Every change asked for is answered while upstream does not hang: the two
\* locks are never held for ever, on any of the ways out.
EveryChangeIsAnswered ==
  \A s \in Sessions : <>[](health # "hung") => <>(session[s].at = "replied")

------------------------------------------------------------------------------
(***************************************************************************)
(* What the repository says of the code and the code does not do.  Each is *)
(* checked by a run that finds it violated.                                *)
(***************************************************************************)
\* "the files are re-read for the user blocks and nothing else, so an
\* unrelated edit waiting on disk does not take effect halfway because
\* somebody changed a password" (reloadLocal): localSource takes the group
\* blocks too, and the next refresh publishes them.
GroupBlocksStayAsTheyWere == snap.groups.file = StartFile.groups

\* "a check may be a bind against another directory, and no other password
\* change should wait on that" (writeProved): the second check is made holding
\* s.mu, with no deadline, and every other change and every bind waits on it.
NoOtherChangeWaits ==
  \A s, t \in Sessions : s # t /\ session[t].at = "lock" => ~Waits(s)
=============================================================================
