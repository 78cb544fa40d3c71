------------------------------ MODULE CertStore ------------------------------
(***************************************************************************)
(* The TLS certificate authnd serves (certs.go): a pair of files somebody  *)
(* else renews, one after the other, and a store that looks at them again  *)
(* on a handshake or on SIGHUP.  The store reads each file twice: once to  *)
(* stamp it (identity), once to load it (tls.LoadX509KeyPair).             *)
(*                                                                         *)
(* The content of a file is a number, and a larger one was written later   *)
(* by a renewer that only moves forward.  A certificate and a key load     *)
(* when they have the same number and it is a good one.  At any moment the *)
(* files may be absent or unreadable, and then a read finds nothing.       *)
(***************************************************************************)
EXTENDS Integers

CONSTANTS
  Good,        \* the contents that parse; 0, what the store started with, does
  MaxContent,  \* bound on the contents written
  Lookers,     \* handshakes and SIGHUP handlers
  Free         \* nobody

Contents == 0..MaxContent
Nowhere == -1         \* what a read that fails finds: the zero fileStamp, an error

ASSUME CertAssumption ==
  /\ MaxContent \in Nat /\ Good \subseteq Contents /\ 0 \in Good
  /\ Free \notin Lookers

VARIABLES
  certFile, keyFile,  \* what is on disk
  readable,           \* the files can be opened and read just now
  cert,               \* s.cert: the number of the pair served
  servedId, failedId, \* s.served and s.failed: [cert, key] stamps
  due,                \* recheck has passed since s.checked, or the clock went back
  mu,                 \* who holds s.mu
  looker              \* [Lookers -> the state of get or Reload]

vars == <<certFile, keyFile, readable, cert, servedId, failedId, due, mu, looker>>

Stamps == Contents \cup {Nowhere}
Identities == [cert : Stamps, key : Stamps]
NoIdentity == [cert |-> Nowhere, key |-> Nowhere]

LookerStates ==
  [at : {"idle", "stamp", "stampKey", "compare", "load", "loadKey", "store",
         "answered"},
   force : BOOLEAN, id : Identities, read : Identities]

Idle == [at |-> "idle", force |-> FALSE, id |-> NoIdentity, read |-> NoIdentity]

\* newCertStore loaded the pair that is there.
Init ==
  /\ certFile = 0 /\ keyFile = 0 /\ readable = TRUE
  /\ cert = 0
  /\ servedId = [cert |-> 0, key |-> 0] /\ failedId = NoIdentity
  /\ due = FALSE
  /\ mu = Free
  /\ looker = [h \in Lookers |-> Idle]

------------------------------------------------------------------------------
(***************************************************************************)
(* The renewer and the clock.                                              *)
(***************************************************************************)
\* What a file that holds `old` may be replaced by: nothing comes back.
Replacements(old) == {c \in Contents : c > old}

WriteCert ==
  /\ certFile' \in Replacements(certFile)
  /\ UNCHANGED <<keyFile, readable, cert, servedId, failedId, due, mu, looker>>

WriteKey ==
  /\ keyFile' \in Replacements(keyFile)
  /\ UNCHANGED <<certFile, readable, cert, servedId, failedId, due, mu, looker>>

\* A file that is taken away for a moment, or a disk that fails.
ReadsChange ==
  /\ readable' = ~readable
  /\ UNCHANGED <<certFile, keyFile, cert, servedId, failedId, due, mu, looker>>

RecheckPasses ==
  /\ ~due
  /\ due' = TRUE
  /\ UNCHANGED <<certFile, keyFile, readable, cert, servedId, failedId, mu, looker>>

------------------------------------------------------------------------------
(***************************************************************************)
(* One look: get (a handshake) or Reload (SIGHUP), and reloadLocked.       *)
(***************************************************************************)
SetLooker(h, l) == looker' = [looker EXCEPT ![h] = l]

\* s.mu.Lock()
LockTaken(h) == TRUE                                                 \* mutant
LockFree(h) == mu = Free

\* get: nothing to look at yet, the certificate is answered.
Handshake(h) ==
  /\ looker[h].at = "idle"
  /\ LockFree(h) /\ ~due
  /\ SetLooker(h, [Idle EXCEPT !.at = "answered"])
  /\ UNCHANGED <<certFile, keyFile, readable, cert, servedId, failedId, due, mu>>

\* get once recheck has passed, or Reload: the time of the look is now.
Look(h, force) ==
  /\ looker[h].at = "idle"
  /\ LockFree(h)
  /\ force \/ due
  /\ SetLooker(h, [Idle EXCEPT !.at = "stamp", !.force = force])
  /\ mu' = h /\ due' = FALSE
  /\ UNCHANGED <<certFile, keyFile, readable, cert, servedId, failedId>>

\* os.ReadFile
Read(content) == IF readable THEN content ELSE Nowhere

\* identity: the two files, one after the other.
StampCert(h) ==
  /\ looker[h].at = "stamp"
  /\ SetLooker(h, [looker[h] EXCEPT !.at = "stampKey",
                                    !.id.cert = Read(certFile)])
  /\ UNCHANGED <<certFile, keyFile, readable, cert, servedId, failedId, due, mu>>

StampCertOnly(h) ==                                                  \* mutant
  /\ looker[h].at = "stampKey"
  /\ SetLooker(h, [looker[h] EXCEPT !.at = "compare"])
  /\ UNCHANGED <<certFile, keyFile, readable, cert, servedId, failedId, due, mu>>

StampKey(h) ==
  /\ looker[h].at = "stampKey"
  /\ SetLooker(h, [looker[h] EXCEPT !.at = "compare",
                                    !.id.key = Read(keyFile)])
  /\ UNCHANGED <<certFile, keyFile, readable, cert, servedId, failedId, due, mu>>

\* The deferred Unlock, with the certificate served by now.
Answer(h) ==
  /\ SetLooker(h, [Idle EXCEPT !.at = "answered"])
  /\ mu' = IF mu = h THEN Free ELSE mu

\* These files are the ones served, or were tried before: only SIGHUP insists.
Compare(h) ==
  /\ looker[h].at = "compare"
  /\ IF looker[h].id \in {servedId, failedId} /\ ~looker[h].force
     THEN Answer(h)
     ELSE SetLooker(h, [looker[h] EXCEPT !.at = "load"]) /\ UNCHANGED mu
  /\ UNCHANGED <<certFile, keyFile, readable, cert, servedId, failedId, due>>

\* tls.LoadX509KeyPair: reads the two files again.
LoadCert(h) ==
  /\ looker[h].at = "load"
  /\ SetLooker(h, [looker[h] EXCEPT !.at = "loadKey", !.read.cert = Read(certFile)])
  /\ UNCHANGED <<certFile, keyFile, readable, cert, servedId, failedId, due, mu>>

LoadKey(h) ==
  /\ looker[h].at = "loadKey"
  /\ SetLooker(h, [looker[h] EXCEPT !.at = "store", !.read.key = Read(keyFile)])
  /\ UNCHANGED <<certFile, keyFile, readable, cert, servedId, failedId, due, mu>>

Loads(pair) == pair.cert = pair.key /\ pair.cert \in Good

ServeRestamped(h) ==                                                 \* mutant
  /\ Loads(looker[h].read)
  /\ cert' = looker[h].read.cert
  /\ servedId' = [cert |-> Read(certFile), key |-> Read(keyFile)]
  /\ failedId' = NoIdentity
Serve(h) ==
  /\ Loads(looker[h].read)
  /\ IF looker[h].id = servedId            \* forced, and nothing changed
     THEN UNCHANGED <<cert, servedId, failedId>>
     ELSE /\ cert' = looker[h].read.cert
          /\ servedId' = looker[h].id
          /\ failedId' = NoIdentity

FailWithNothing(h) ==                                                \* mutant
  /\ ~Loads(looker[h].read)
  /\ failedId' = looker[h].id /\ cert' = Nowhere
  /\ UNCHANGED servedId

FailToLoad(h) ==
  /\ ~Loads(looker[h].read)
  /\ failedId' = looker[h].id
  /\ UNCHANGED <<cert, servedId>>

\* The end of reloadLocked.
Store(h) ==
  /\ looker[h].at = "store"
  /\ Serve(h) \/ FailToLoad(h)
  /\ Answer(h)
  /\ UNCHANGED <<certFile, keyFile, readable, due>>

\* The next client, or the next signal.
Again(h) ==
  /\ looker[h].at = "answered"
  /\ SetLooker(h, Idle)
  /\ UNCHANGED <<certFile, keyFile, readable, cert, servedId, failedId, due, mu>>

------------------------------------------------------------------------------
\* Clients come, and an administrator sends SIGHUP.
Come(h) == Handshake(h) \/ Look(h, FALSE)
Signal(h) == Look(h, TRUE)
\* A look that began, to its end.
LookOn(h) == \/ StampCert(h) \/ StampKey(h) \/ Compare(h)
             \/ LoadCert(h) \/ LoadKey(h) \/ Store(h) \/ Again(h)

Next == \/ WriteCert \/ WriteKey \/ ReadsChange \/ RecheckPasses
        \/ \E h \in Lookers : Come(h) \/ Signal(h) \/ LookOn(h)

Spec == Init /\ [][Next]_vars

\* Clients keep coming, time passes, and a look that began is carried on.
\* Nothing makes the files readable, nor lets the renewer write.
\* Nobody has to send SIGHUP.  A client that needs s.mu gets it in the end
\* (sync.Mutex does not starve): SF, because the mutex is taken and freed.
Fairness == /\ WF_vars(RecheckPasses)
            /\ \A h \in Lookers : SF_vars(Come(h)) /\ WF_vars(LookOn(h))
FairSpec == Spec /\ Fairness

------------------------------------------------------------------------------
\* Every variable holds what the code could put there.
TypeOK ==
  /\ certFile \in Contents /\ keyFile \in Contents /\ readable \in BOOLEAN
  /\ cert \in Contents
  /\ servedId \in Identities /\ failedId \in Identities
  /\ due \in BOOLEAN
  /\ mu \in Lookers \cup {Free}
  /\ looker \in [Lookers -> LookerStates]

\* The stamps tell: a store whose stamps are those of the files on disk, which
\* it therefore never loads again, serves what is on disk.  The pair is loaded
\* after it is stamped, so a renewal between the two is served under older
\* stamps and looked at once more; stamped after the load it would be missed
\* until the next renewal.
StampsTell ==
  servedId = [cert |-> certFile, key |-> keyFile] => cert = certFile

\* The store never goes back to an older certificate while the renewer moves
\* forward: two looks at once do not undo each other.
NeverBackwards == [][cert' >= cert]_vars

\* A renewal arrives with nobody sending SIGHUP: once the files hold a good
\* pair for good, and can be read, it is in the end the one every handshake
\* gets, however the looks fell between the writes and the failed reads.  But
\* for one case: a look that stamped this very pair and could not read it a
\* moment later.  A state of the files that failed is not tried again.
RenewalArrives ==
  \A c \in Good :
    <>[](/\ certFile = c /\ keyFile = c /\ readable
         /\ failedId # [cert |-> c, key |-> c])
      => <>[](cert = c)
=============================================================================
