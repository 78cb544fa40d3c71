--------------------------- MODULE CertStoreProofs ---------------------------
(***************************************************************************)
(* The certificate store, for every set of handshakes and signals, every   *)
(* sequence of contents and every read that fails: what is served is never *)
(* older than before, and never other than the stamps kept beside it say.  *)
(*                                                                         *)
(* Both need an order that the code's types do not give.  A look stamps    *)
(* the files, reads them later and stores what it read still later, while  *)
(* the renewer writes; s.mu is held from the first stamp to the store.  So *)
(* stamp, read and file follow each other in time, and so do the stamps    *)
(* served, the pair served and what any look has read.                     *)
(***************************************************************************)
EXTENDS CertStore, TLAPS

Looking(h) == looker[h].at \notin {"idle", "answered"}

\* s.mu.Lock() in get and in Reload: only its holder looks.
OneLooks == \A h \in Lookers : Looking(h) => mu = h

\* What a look has stamped is not newer than the file; what it has read, if it
\* could, lies between what is served and the file, and is not older than the
\* stamp.
InOrder(l) ==
  /\ l.at \in {"stampKey", "compare", "load", "loadKey", "store"} =>
       l.id.cert <= certFile
  /\ l.at \in {"loadKey", "store"} /\ l.read.cert # Nowhere =>
       /\ cert <= l.read.cert /\ l.read.cert <= certFile
       /\ l.id.cert <= l.read.cert

ReadsAreFresh ==
  /\ servedId.cert <= cert /\ cert <= certFile
  /\ \A h \in Lookers : InOrder(looker[h])

StoreInv == TypeOK /\ OneLooks /\ ReadsAreFresh

------------------------------------------------------------------------------
\* Idle is what a look starts from and ends as.
LEMMA IdleIsALooker == Idle \in LookerStates
BY DEF Idle, LookerStates, NoIdentity, Identities, Stamps

\* A read finds the content or nothing, and both are stamps; a stamp is a
\* number.
LEMMA ReadsAreStamps ==
  /\ \A c \in Contents : Read(c) \in {c, Nowhere} /\ Read(c) \in Stamps
  /\ Contents \subseteq Int /\ Stamps \subseteq Int /\ Good \subseteq Contents
  /\ Nowhere \in Stamps /\ \A c \in Contents : Nowhere < c
BY CertAssumption DEF Read, Stamps, Contents, Nowhere

\* identity's first stamp is of the certificate and leaves the rest of the look.
LEMMA StampedCert ==
  ASSUME NEW l \in LookerStates, NEW stamp \in Stamps
  PROVE  LET m == [l EXCEPT !.at = "stampKey", !.id.cert = stamp] IN
         m \in LookerStates /\ m.at = "stampKey" /\ m.id.cert = stamp
BY DEF LookerStates, Identities

\* Its second is of the key.
LEMMA StampedKey ==
  ASSUME NEW l \in LookerStates, NEW stamp \in Stamps
  PROVE  LET m == [l EXCEPT !.at = "compare", !.id.key = stamp] IN
         m \in LookerStates /\ m.at = "compare" /\ m.id.cert = l.id.cert
BY DEF LookerStates, Identities

\* tls.LoadX509KeyPair reads the certificate, and the stamps stay,
LEMMA ReadCert ==
  ASSUME NEW l \in LookerStates, NEW stamp \in Stamps
  PROVE  LET m == [l EXCEPT !.at = "loadKey", !.read.cert = stamp] IN
         /\ m \in LookerStates /\ m.at = "loadKey"
         /\ m.read.cert = stamp /\ m.id = l.id
BY DEF LookerStates, Identities

\* and then the key.
LEMMA ReadKey ==
  ASSUME NEW l \in LookerStates, NEW stamp \in Stamps
  PROVE  LET m == [l EXCEPT !.at = "store", !.read.key = stamp] IN
         /\ m \in LookerStates /\ m.at = "store"
         /\ m.read.cert = l.read.cert /\ m.id = l.id
BY DEF LookerStates, Identities

\* A look that goes on, whoever else looks: what the invariant asks of the
\* looker that moved is asked of its new state, and of no other.
LEMMA LookGoesOn ==
  ASSUME StoreInv,
         NEW h \in Lookers, NEW l \in LookerStates, SetLooker(h, l),
         UNCHANGED <<certFile, keyFile, readable, cert, servedId, failedId, due, mu>>,
         mu = h \/ l.at \in {"idle", "answered"},
         InOrder(l)
  PROVE  StoreInv'
<1>1. /\ looker' \in [Lookers -> LookerStates]
      /\ looker'[h] = l
      /\ \A g \in Lookers \ {h} : looker'[g] = looker[g]
  BY DEF SetLooker, StoreInv, TypeOK
<1>2. TypeOK'
  BY <1>1 DEF StoreInv, TypeOK
<1>3. OneLooks'
  <2> SUFFICES ASSUME NEW g \in Lookers, Looking(g)' PROVE mu = g
    BY DEF OneLooks
  <2>1. CASE g = h
    BY <1>1, <2>1 DEF Looking
  <2>2. CASE g # h
    BY <1>1, <2>2 DEF Looking, StoreInv, OneLooks
  <2> QED
    BY <2>1, <2>2
<1>4. ReadsAreFresh'
  <2>1. \A g \in Lookers : InOrder(looker'[g])
    BY <1>1 DEF StoreInv, ReadsAreFresh
  <2>2. \A g \in Lookers : InOrder(looker[g])'
    BY <2>1 DEF InOrder
  <2> QED
    BY <2>2 DEF StoreInv, ReadsAreFresh
<1> QED
  BY <1>2, <1>3, <1>4 DEF StoreInv

\* A look that ends gives s.mu back, with what it leaves served.
LEMMA LookEnds ==
  ASSUME StoreInv,
         NEW h \in Lookers, Looking(h), Answer(h),
         UNCHANGED <<certFile, keyFile, readable, due>>,
         servedId' \in Identities, failedId' \in Identities,
         cert' \in Contents, servedId.cert' <= cert', cert' <= certFile
  PROVE  StoreInv'
<1> DEFINE l == [Idle EXCEPT !.at = "answered"]
<1>1. l \in LookerStates /\ l.at = "answered"
  BY DEF Idle, LookerStates, NoIdentity, Identities, Stamps
<1>2. /\ looker' \in [Lookers -> LookerStates]
      /\ looker'[h] = l
      /\ \A g \in Lookers \ {h} : looker'[g] = looker[g]
  BY <1>1 DEF Answer, SetLooker, StoreInv, TypeOK
<1>3. mu = h /\ mu' = Free
  BY DEF Answer, StoreInv, OneLooks
<1>4. \A g \in Lookers \ {h} : ~Looking(g)
  BY <1>3 DEF StoreInv, OneLooks
<1>5. \A g \in Lookers : looker'[g].at \in {"idle", "answered"}
  BY <1>1, <1>2, <1>4 DEF Looking
<1>6. TypeOK'
  BY <1>2, <1>3, CertAssumption DEF StoreInv, TypeOK
<1>7. OneLooks' /\ ReadsAreFresh'
  BY <1>5 DEF OneLooks, Looking, ReadsAreFresh, InOrder
<1> QED
  BY <1>6, <1>7 DEF StoreInv

------------------------------------------------------------------------------
\* Every step keeps the invariant: the renewer only makes the files newer, and
\* a look stores nothing older than what is served.
LEMMA StoreStep == StoreInv /\ [Next]_vars => StoreInv'
<1> SUFFICES ASSUME StoreInv, [Next]_vars PROVE StoreInv'
  OBVIOUS
<1> USE DEF StoreInv
<1>0. /\ certFile \in Int /\ cert \in Int /\ servedId.cert \in Int
      /\ \A h \in Lookers : looker[h].id.cert \in Int /\ looker[h].read.cert \in Int
  BY ReadsAreStamps DEF TypeOK, Identities, LookerStates
<1>1. CASE WriteCert
  <2>1. certFile' \in Contents /\ certFile' \in Int /\ certFile' > certFile
    BY <1>1, ReadsAreStamps DEF WriteCert, Replacements
  <2>2. TypeOK' /\ OneLooks'
    BY <1>1, <2>1 DEF WriteCert, TypeOK, OneLooks, Looking
  <2>3. UNCHANGED <<cert, servedId, looker>>
    BY <1>1 DEF WriteCert
  <2>4. \A h \in Lookers : InOrder(looker[h])'
    BY <1>0, <2>1, <2>3 DEF ReadsAreFresh, InOrder
  <2> QED
    BY <1>0, <2>1, <2>2, <2>3, <2>4 DEF ReadsAreFresh
<1>2. CASE WriteKey \/ ReadsChange
  BY <1>2 DEF WriteKey, ReadsChange, Replacements, TypeOK, OneLooks, Looking,
              ReadsAreFresh, InOrder
<1>3. CASE RecheckPasses
  BY <1>3 DEF RecheckPasses, TypeOK, OneLooks, Looking, ReadsAreFresh, InOrder
<1>4. ASSUME NEW h \in Lookers, Handshake(h) PROVE StoreInv'
  <2>1. [Idle EXCEPT !.at = "answered"] \in LookerStates
    BY DEF Idle, LookerStates, NoIdentity, Identities, Stamps
  <2>2. [Idle EXCEPT !.at = "answered"].at = "answered"
    BY DEF Idle
  <2> QED
    BY <1>4, <2>1, <2>2, LookGoesOn DEF Handshake, InOrder
<1>5. ASSUME NEW h \in Lookers, NEW force \in BOOLEAN, Look(h, force) PROVE StoreInv'
  <2> DEFINE l == [Idle EXCEPT !.at = "stamp", !.force = force]
  <2>1. l \in LookerStates /\ l.at = "stamp"
    BY DEF Idle, LookerStates, NoIdentity, Identities, Stamps
  <2>2. /\ looker' \in [Lookers -> LookerStates]
        /\ looker'[h] = l
        /\ \A g \in Lookers \ {h} : looker'[g] = looker[g]
    BY <1>5, <2>1 DEF Look, SetLooker, TypeOK
  <2>3. mu = Free /\ mu' = h /\ due' = FALSE
        /\ UNCHANGED <<certFile, keyFile, readable, cert, servedId, failedId>>
    BY <1>5 DEF Look, LockFree
  <2>4. \A g \in Lookers : ~Looking(g)
    BY <2>3, CertAssumption DEF OneLooks
  <2>5. TypeOK'
    BY <2>2, <2>3 DEF TypeOK
  <2>6. OneLooks' /\ ReadsAreFresh'
    BY <2>1, <2>2, <2>3, <2>4 DEF OneLooks, Looking, ReadsAreFresh, InOrder
  <2> QED
    BY <2>5, <2>6
<1>6. ASSUME NEW h \in Lookers, StampCert(h) PROVE StoreInv'
  <2> DEFINE l == [looker[h] EXCEPT !.at = "stampKey", !.id.cert = Read(certFile)]
  <2>1. l \in LookerStates /\ l.at = "stampKey" /\ l.id.cert = Read(certFile)
    BY StampedCert, ReadsAreStamps DEF TypeOK
  <2>2. mu = h
    BY <1>6 DEF StampCert, OneLooks, Looking
  <2>3. SetLooker(h, l)
        /\ UNCHANGED <<certFile, keyFile, readable, cert, servedId, failedId, due, mu>>
    BY <1>6 DEF StampCert
  <2>4. Read(certFile) <= certFile
    BY <1>0, ReadsAreStamps DEF TypeOK
  <2>5. InOrder(l)
    BY <2>1, <2>4 DEF InOrder
  <2> QED
    BY <2>1, <2>2, <2>3, <2>5, LookGoesOn
<1>7. ASSUME NEW h \in Lookers, StampKey(h) PROVE StoreInv'
  <2> DEFINE l == [looker[h] EXCEPT !.at = "compare", !.id.key = Read(keyFile)]
  <2>1. l \in LookerStates /\ l.at = "compare" /\ l.id.cert = looker[h].id.cert
    BY StampedKey, ReadsAreStamps DEF TypeOK
  <2>2. mu = h
    BY <1>7 DEF StampKey, OneLooks, Looking
  <2>3. SetLooker(h, l)
        /\ UNCHANGED <<certFile, keyFile, readable, cert, servedId, failedId, due, mu>>
    BY <1>7 DEF StampKey
  <2>4. InOrder(l)
    BY <1>7, <2>1 DEF StampKey, ReadsAreFresh, InOrder
  <2> QED
    BY <2>1, <2>2, <2>3, <2>4, LookGoesOn
<1>8. ASSUME NEW h \in Lookers, Compare(h) PROVE StoreInv'
  <2>1. mu = h /\ Looking(h)
    BY <1>8 DEF Compare, OneLooks, Looking
  <2>2. CASE Answer(h)
    <3>1. UNCHANGED <<certFile, keyFile, readable, cert, servedId, failedId, due>>
      BY <1>8 DEF Compare
    <3> QED
      BY <2>1, <2>2, <3>1, LookEnds DEF TypeOK, ReadsAreFresh
  <2>3. CASE SetLooker(h, [looker[h] EXCEPT !.at = "load"]) /\ UNCHANGED mu
    <3> DEFINE l == [looker[h] EXCEPT !.at = "load"]
    <3>1. l \in LookerStates /\ l.at = "load" /\ l.id = looker[h].id
      BY DEF TypeOK, LookerStates
    <3>2. SetLooker(h, l)
          /\ UNCHANGED <<certFile, keyFile, readable, cert, servedId, failedId, due, mu>>
      BY <1>8, <2>3 DEF Compare
    <3>3. InOrder(l)
      BY <1>8, <3>1 DEF Compare, ReadsAreFresh, InOrder
    <3> QED
      BY <2>1, <3>1, <3>2, <3>3, LookGoesOn
  <2> QED
    BY <1>8, <2>2, <2>3 DEF Compare
<1>9. ASSUME NEW h \in Lookers, LoadCert(h) PROVE StoreInv'
  <2> DEFINE l == [looker[h] EXCEPT !.at = "loadKey", !.read.cert = Read(certFile)]
  <2>1. /\ l \in LookerStates /\ l.at = "loadKey"
        /\ l.read.cert = Read(certFile) /\ l.id = looker[h].id
    BY ReadCert, ReadsAreStamps DEF TypeOK
  <2>2. mu = h
    BY <1>9 DEF LoadCert, OneLooks, Looking
  <2>3. SetLooker(h, l)
        /\ UNCHANGED <<certFile, keyFile, readable, cert, servedId, failedId, due, mu>>
    BY <1>9 DEF LoadCert
  <2>4. Read(certFile) \in {certFile, Nowhere} /\ looker[h].id.cert <= certFile
    BY <1>9, ReadsAreStamps DEF LoadCert, TypeOK, ReadsAreFresh, InOrder
  <2>5. InOrder(l)
    BY <1>0, <2>1, <2>4 DEF InOrder, ReadsAreFresh
  <2> QED
    BY <2>1, <2>2, <2>3, <2>5, LookGoesOn
<1>10. ASSUME NEW h \in Lookers, LoadKey(h) PROVE StoreInv'
  <2> DEFINE l == [looker[h] EXCEPT !.at = "store", !.read.key = Read(keyFile)]
  <2>1. /\ l \in LookerStates /\ l.at = "store"
        /\ l.read.cert = looker[h].read.cert /\ l.id = looker[h].id
    BY ReadKey, ReadsAreStamps DEF TypeOK
  <2>2. mu = h
    BY <1>10 DEF LoadKey, OneLooks, Looking
  <2>3. SetLooker(h, l)
        /\ UNCHANGED <<certFile, keyFile, readable, cert, servedId, failedId, due, mu>>
    BY <1>10 DEF LoadKey
  <2>4. InOrder(l)
    BY <1>10, <2>1 DEF LoadKey, ReadsAreFresh, InOrder
  <2> QED
    BY <2>1, <2>2, <2>3, <2>4, LookGoesOn
<1>11. ASSUME NEW h \in Lookers, Store(h) PROVE StoreInv'
  <2>1. Looking(h) /\ Answer(h) /\ UNCHANGED <<certFile, keyFile, readable, due>>
    BY <1>11 DEF Store, Looking
  <2>2. looker[h].id \in Identities /\ NoIdentity \in Identities
    BY DEF TypeOK, LookerStates, NoIdentity, Identities, Stamps
  <2>3. CASE Serve(h) /\ looker[h].id # servedId
    <3>1. cert' = looker[h].read.cert /\ cert' \in Contents /\ cert' # Nowhere
      BY <1>0, <2>3, ReadsAreStamps DEF Serve, Loads, Contents, Nowhere
    <3>2. looker[h].id.cert <= cert' /\ cert' <= certFile
      BY <1>11, <3>1 DEF Store, ReadsAreFresh, InOrder
    <3>3. servedId' = looker[h].id /\ failedId' = NoIdentity
      BY <2>3 DEF Serve
    <3> QED
      BY <2>1, <2>2, <3>1, <3>2, <3>3, LookEnds
  <2>4. CASE FailToLoad(h) \/ (Serve(h) /\ looker[h].id = servedId)
    <3>1. UNCHANGED <<cert, servedId>> /\ failedId' \in {failedId, looker[h].id}
      BY <2>4 DEF FailToLoad, Serve
    <3> QED
      BY <2>1, <2>2, <3>1, LookEnds DEF TypeOK, ReadsAreFresh
  <2> QED
    BY <1>11, <2>3, <2>4 DEF Store
<1>12. ASSUME NEW h \in Lookers, Again(h) PROVE StoreInv'
  <2>1. Idle.at = "idle"
    BY DEF Idle
  <2> QED
    BY <1>12, <2>1, IdleIsALooker, LookGoesOn DEF Again, InOrder
<1>13. CASE UNCHANGED vars
  BY <1>13 DEF vars, TypeOK, OneLooks, Looking, ReadsAreFresh, InOrder
<1> QED
  BY <1>1, <1>2, <1>3, <1>4, <1>5, <1>6, <1>7, <1>8, <1>9, <1>10, <1>11, <1>12,
     <1>13 DEF Next, Come, Signal, LookOn

\* newCertStore loaded the pair that is there.
LEMMA StoreInit == Init => StoreInv
<1> SUFFICES ASSUME Init PROVE StoreInv
  OBVIOUS
<1>1. 0 \in Contents /\ NoIdentity \in Identities /\ [cert |-> 0, key |-> 0] \in Identities
  BY CertAssumption DEF Contents, Identities, Stamps, NoIdentity
<1>2. /\ \A h \in Lookers : looker[h] = Idle /\ Idle.at = "idle"
      /\ servedId.cert = 0 /\ cert = 0 /\ certFile = 0
  BY DEF Init, Idle
<1>3. TypeOK
  BY <1>1, IdleIsALooker, CertAssumption DEF Init, TypeOK
<1>4. OneLooks /\ ReadsAreFresh
  BY <1>2 DEF OneLooks, Looking, ReadsAreFresh, InOrder
<1> QED
  BY <1>3, <1>4 DEF StoreInv

\* What a load in progress knows holds in every state of the store.
LEMMA StoreInvariant == Spec => []StoreInv
BY StoreInit, StoreStep, PTL DEF Spec

\* The store holds what the code could put there.
THEOREM StoreTypes == Spec => []TypeOK
<1>1. StoreInv => TypeOK
  BY DEF StoreInv
<1> QED
  BY <1>1, StoreInvariant, PTL

\* A store whose stamps are those of the files serves those files: the stamps
\* are taken before the pair is loaded, so the pair is never older than they
\* say, and what is served is never newer than the file.
THEOREM StampsTellTheTruth == Spec => []StampsTell
<1>1. StoreInv => StampsTell
  <2> SUFFICES ASSUME StoreInv, servedId = [cert |-> certFile, key |-> keyFile]
               PROVE  cert = certFile
    BY DEF StampsTell
  <2>1. servedId.cert <= cert /\ cert <= certFile /\ servedId.cert = certFile
    BY DEF StoreInv, ReadsAreFresh
  <2>2. cert \in Int /\ certFile \in Int
    BY ReadsAreStamps DEF StoreInv, TypeOK
  <2> QED
    BY <2>1, <2>2
<1> QED
  BY <1>1, StoreInvariant, PTL

\* While the renewer moves forward the store does too, however many looks are
\* under way: only Store changes what is served, and what it stores was read
\* under s.mu, after what it replaces.
THEOREM StoreNeverGoesBack == Spec => NeverBackwards
<1>1. StoreInv /\ [Next]_vars => [cert' >= cert]_vars
  <2> SUFFICES ASSUME StoreInv, Next PROVE cert' >= cert
    BY DEF vars
  <2>1. cert \in Int
    BY DEF StoreInv, TypeOK, Contents
  <2>2. CASE UNCHANGED cert
    BY <2>1, <2>2
  <2>3. ASSUME NEW h \in Lookers, Store(h) PROVE cert' >= cert
    <3>1. \/ UNCHANGED cert
          \/ /\ cert' = looker[h].read.cert /\ cert' \in Good
      BY <2>3 DEF Store, Serve, FailToLoad, Loads
    <3>2. CASE cert' = looker[h].read.cert /\ cert' \in Good
      <4>1. cert' \in Int /\ cert' # Nowhere
        BY <3>2, ReadsAreStamps DEF Contents, Nowhere
      <4>2. cert <= looker[h].read.cert
        BY <2>3, <3>2, <4>1 DEF Store, StoreInv, ReadsAreFresh, InOrder
      <4> QED
        BY <2>1, <3>2, <4>1, <4>2
    <3> QED
      BY <2>1, <3>1, <3>2
  <2>4. \/ UNCHANGED cert
        \/ \E h \in Lookers : Store(h)
    BY DEF Next, Come, Signal, LookOn, WriteCert, WriteKey, ReadsChange,
           RecheckPasses, Handshake,
           Look, StampCert, StampKey, Compare, LoadCert, LoadKey, Again
  <2> QED
    BY <2>2, <2>3, <2>4
<1> QED
  BY <1>1, StoreInvariant, PTL DEF Spec, NeverBackwards
=============================================================================
