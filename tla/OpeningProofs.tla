---------------------------- MODULE OpeningProofs ----------------------------
(***************************************************************************)
(* What startup refused stays refused, and what it accepted is what the    *)
(* server runs with: the configuration, the schema and the tree.  So every *)
(* entry it publishes later is what Build makes with those, and the lemmas *)
(* of EntriesProofs say the rest.                                          *)
(***************************************************************************)
EXTENDS Opening, EntriesProofs

\* Past config.check, its verdict holds of the configuration in use.
Accepted ==
  /\ cfg \in Configurations
  /\ phase \notin {"check", "refused"} => Check(cfg)

\* max(10 min, 10 * refresh) and the check of max_age against refresh leave no
\* accepted configuration whose data is always too old (maxAge, checkRefresh).
LEMMA AcceptedAges ==
  ASSUME NEW c \in Configurations, CheckRefresh(c), RefreshEvery(c) > 0
  PROVE  IF MaxAge(c) = 0 THEN c.maxAge = 0 ELSE MaxAge(c) >= RefreshEvery(c)
<1>1. /\ c.refresh \in Int \cup {Unset} /\ c.maxAge \in Int \cup {Unset}
      /\ Unset \notin Int /\ DefaultRefresh \in Int /\ DefaultMaxAge \in Nat
  BY ConfigurationsAssumption, ConfigurationAssumption
<1> DEFINE r == RefreshEvery(c)
<1>2. r \in Int /\ r > 0
  BY <1>1 DEF RefreshEvery
<1>3. CASE c.maxAge # Unset
  <2>1. MaxAge(c) = c.maxAge /\ c.maxAge \in Int
    BY <1>1, <1>3 DEF MaxAge
  <2>2. c.maxAge >= 0 /\ ~(c.maxAge > 0 /\ r > 0 /\ c.maxAge < r)
    BY <1>3 DEF CheckRefresh
  <2> QED
    BY <1>2, <2>1, <2>2
<1>4. CASE c.maxAge = Unset
  <2>1. MaxAge(c) = IF 10 * r > DefaultMaxAge THEN 10 * r ELSE DefaultMaxAge
    BY <1>2, <1>4 DEF MaxAge
  <2> QED
    BY <1>1, <1>2, <2>1
<1> QED
  BY <1>3, <1>4

\* config.check is asked once, and open goes on only with its yes: no later
\* step replaces the configuration (server.go: s.cfg "does not change while
\* the server runs").
THEOREM AcceptedForGood == Spec => []Accepted
<1>1. Init => Accepted
  BY DEF Init, Accepted
<1>2. Accepted /\ [Next]_vars => Accepted'
  <2> SUFFICES ASSUME Accepted, [Next]_vars PROVE Accepted'
    OBVIOUS
  <2> USE DEF Accepted
  <2>1. CASE CheckConfiguration
    BY <2>1 DEF CheckConfiguration, Refuse
  <2>2. CASE AddDefinitions
    <3>1. UNCHANGED cfg /\ phase' \in {phase, "refused"}
      BY <2>2 DEF AddDefinitions, Refuse
    <3> QED
      BY <3>1, <2>2 DEF AddDefinitions
  <2>3. CASE CheckDeclared
    BY <2>3 DEF CheckDeclared, Refuse
  <2>4. CASE CheckTree
    BY <2>4 DEF CheckTree, Refuse
  <2>5. CASE ReadReaders
    BY <2>5 DEF ReadReaders, Refuse
  <2>6. CASE OpenOIDC
    BY <2>6 DEF OpenOIDC, Refuse
  <2>7. CASE ReadSources
    BY <2>7 DEF ReadSources, Refuse
  <2>8. CASE Search
    BY <2>8 DEF Search, opening
  <2>9. CASE Refresh
    BY <2>9 DEF Refresh, opening
  <2>10. CASE ReloadLocal
    BY <2>10 DEF ReloadLocal, opening
  <2>11. CASE EditFile
    BY <2>11 DEF EditFile, opening
  <2>12. CASE ChangeDatabase
    BY <2>12 DEF ChangeDatabase, opening
  <2>13. CASE UNCHANGED vars
    BY <2>13 DEF vars, opening
  <2> QED
    BY <2>1, <2>2, <2>3, <2>4, <2>5, <2>6, <2>7, <2>8, <2>9, <2>10, <2>11, <2>12,
       <2>13 DEF Next
<1> QED
  BY <1>1, <1>2, PTL DEF Spec

\* Data never counts as too old before the next refresh could replace it, for
\* every configuration and every value of the defaults (refresh.go, maxAge).
THEOREM AgesOutlastRefreshes == Spec => []AgeOutlastsRefresh
<1>1. Accepted => AgeOutlastsRefresh
  BY AcceptedAges DEF Accepted, AgeOutlastsRefresh, Check
<1> QED
  BY <1>1, AcceptedForGood, PTL

------------------------------------------------------------------------------
\* What a snapshot publishes is what build makes of it with the configuration,
\* the schema and the tree that startup accepted; before startup is over there
\* is nothing to publish.
PublishesItsSnapshot ==
  /\ phase # "serving" => snap = NoSnapshot /\ pub = Unbuilt
  /\ pub = Unbuilt \/ /\ pub.built = TRUE
                      /\ pub.all = Build(Server, snap.user \cup snap.person, snap.group)
  /\ answer \subseteq Valid(pub.all)

\* Every step is one of startup that serves nothing yet, the one that ends it,
\* a new snapshot, a search, or one that leaves the server as it is.
LEMMA ServingSteps ==
  ASSUME [Next]_vars
  PROVE  \/ /\ phase # "serving" /\ phase' # "serving"
            /\ UNCHANGED <<serving, outside>>
         \/ /\ phase # "serving" /\ phase' = "serving"
            /\ UNCHANGED <<pub, answer, outside, cfg, sch, declared, tree, loaded, owner, refusal>>
            /\ snap' = [user |-> {file}, person |-> Handed(db).person,
                        group |-> Handed(db).group]
         \/ /\ phase = "serving" /\ UNCHANGED <<cfg, opening, outside>>
            /\ pub' = Unbuilt /\ answer' = {}
            /\ \/ snap' = [snap EXCEPT !.person = Handed(db).person,
                                       !.group = Handed(db).group]
               \/ snap' = [snap EXCEPT !.user = {file}]
         \/ Search
         \/ UNCHANGED <<cfg, opening, serving>>
<1>1. CASE CheckConfiguration
  BY <1>1 DEF CheckConfiguration, Refuse
<1>2. CASE AddDefinitions
  <2>1. phase = "schema" /\ phase' \in {phase, "refused"} /\ UNCHANGED <<serving, outside>>
    BY <1>2 DEF AddDefinitions, Refuse
  <2> QED
    BY <2>1
<1>3. CASE CheckDeclared
  BY <1>3 DEF CheckDeclared, Refuse
<1>4. CASE CheckTree
  BY <1>4 DEF CheckTree, Refuse
<1>5. CASE ReadReaders
  BY <1>5 DEF ReadReaders, Refuse
<1>6. CASE OpenOIDC
  BY <1>6 DEF OpenOIDC, Refuse
<1>7. CASE ReadSources
  <2>1. CASE phase' = "serving"
    BY <1>7, <2>1 DEF ReadSources, Refuse
  <2>2. CASE phase' # "serving"
    BY <1>7, <2>2 DEF ReadSources, Refuse, serving
  <2> QED
    BY <2>1, <2>2
<1>8. CASE Refresh
  BY <1>8 DEF Refresh
<1>9. CASE ReloadLocal
  BY <1>9 DEF ReloadLocal
<1>10. CASE EditFile
  BY <1>10 DEF EditFile
<1>11. CASE ChangeDatabase
  BY <1>11 DEF ChangeDatabase
<1>12. CASE UNCHANGED vars
  BY <1>12 DEF vars
<1> QED
  BY <1>1, <1>2, <1>3, <1>4, <1>5, <1>6, <1>7, <1>8, <1>9, <1>10, <1>11, <1>12 DEF Next

\* Only startup changes what entries are built with.
LEMMA PublishesInvariant == Spec => []PublishesItsSnapshot
<1>1. Init => PublishesItsSnapshot
  BY DEF Init, PublishesItsSnapshot, Valid, Unbuilt
<1>2. PublishesItsSnapshot /\ [Next]_vars => PublishesItsSnapshot'
  <2> SUFFICES ASSUME PublishesItsSnapshot, [Next]_vars PROVE PublishesItsSnapshot'
    OBVIOUS
  <2>0. Valid({}) = {} /\ Unbuilt.all = {} /\ Unbuilt.built = FALSE
    BY DEF Valid, Unbuilt
  <2>1. CASE phase # "serving" /\ phase' # "serving" /\ UNCHANGED <<serving, outside>>
    BY <2>1 DEF PublishesItsSnapshot, serving
  <2>2. CASE phase # "serving" /\ UNCHANGED <<pub, answer>>
             /\ phase' = "serving"
    BY <2>2 DEF PublishesItsSnapshot
  <2>3. CASE phase' = "serving" /\ pub' = Unbuilt /\ answer' = {}
    BY <2>3 DEF PublishesItsSnapshot
  <2>4. CASE Search
    <3>1. phase' = "serving" /\ Server' = Server /\ snap' = snap
      BY <2>4 DEF Search, opening, Server
    <3>2. /\ pub'.built = TRUE
          /\ pub'.all = Build(Server, snap.user \cup snap.person, snap.group)
          /\ answer' = Valid(pub'.all)
      BY <2>0, <2>4 DEF Search, PublishesItsSnapshot
    <3> QED
      BY <3>1, <3>2 DEF PublishesItsSnapshot
  <2>5. CASE UNCHANGED <<cfg, opening, serving>>
    <3>1. Server' = Server
      BY <2>5 DEF opening, Server
    <3> QED
      BY <2>5, <3>1 DEF PublishesItsSnapshot, serving, opening
  <2> QED
    BY <2>1, <2>2, <2>3, <2>4, <2>5, ServingSteps DEF opening
<1> QED
  BY <1>1, <1>2, PTL DEF Spec

\* What is published says of itself whether it fails.
LEMMA PublishedVerdicts ==
  ASSUME PublishesItsSnapshot, NEW e \in pub.all
  PROVE  e.invalid # {} <=> Fails(e)
<1>1. pub.all = Build(Server, snap.user \cup snap.person, snap.group)
  BY DEF PublishesItsSnapshot, Unbuilt
<1>2. e.invalid # {} <=> Unpublishable(Server, e)
  BY <1>1, BuildPublishes
<1>3. Server.schema = sch /\ Server.tree = tree
  BY DEF Server
<1> QED
  BY <1>2, <1>3 DEF Unpublishable, Fails

\* No entry a search returns fails the schema served, the tree or the size an
\* answer may have, for any schema files, sources and sequence of refreshes
\* and password changes (entries.go, validated, placed, sized).
THEOREM OnlyPassingArePublished == Spec => []PublishedPasses
<1>1. PublishesItsSnapshot => PublishedPasses
  <2> SUFFICES ASSUME PublishesItsSnapshot, NEW e \in answer PROVE ~ Fails(e)
    BY DEF PublishedPasses
  <2>1. e \in pub.all /\ e.invalid = {}
    BY DEF PublishesItsSnapshot, Valid
  <2> QED
    BY <2>1, PublishedVerdicts
<1> QED
  BY <1>1, PublishesInvariant, PTL

\* And nobody is withheld on a verdict that was about an earlier state of
\* their entry: what is kept back fails as it stands.
THEOREM OnlyFailingAreWithheld == Spec => []WithheldFails
<1>1. PublishesItsSnapshot => WithheldFails
  <2> SUFFICES ASSUME PublishesItsSnapshot, NEW e \in pub.all \ Valid(pub.all)
               PROVE  Fails(e)
    BY DEF WithheldFails
  <2>1. e \in pub.all /\ e.invalid # {}
    BY DEF Valid
  <2> QED
    BY <2>1, PublishedVerdicts
<1> QED
  BY <1>1, PublishesInvariant, PTL

------------------------------------------------------------------------------
\* What Joined has: everything of both, and where both say something the first.
LEMMA JoinedKeys ==
  ASSUME NEW a, NEW b
  PROVE  /\ DOMAIN Joined(a, b) = Kinds
         /\ Keys(Joined(a, b)) = Keys(a) \cup Keys(b)
         /\ \A k \in Keys(a) : Joined(a, b)[k[1]][k[2]] = a[k[1]][k[2]]
         /\ \A k \in Keys(b) \ Keys(a) : Joined(a, b)[k[1]][k[2]] = b[k[1]][k[2]]
<1>1. DOMAIN Joined(a, b) = Kinds
  BY DEF Joined
<1>2. \A kind \in Kinds : Joined(a, b)[kind] = Over(a[kind], b[kind])
  BY DEF Joined
<1>3. \A f, g : DOMAIN Over(f, g) = DOMAIN f \cup DOMAIN g
  BY DEF Over
<1>4. \A f, g : \A x \in DOMAIN f \cup DOMAIN g :
        Over(f, g)[x] = IF x \in DOMAIN f THEN f[x] ELSE g[x]
  BY DEF Over
<1>5. \A s, kind, name : <<kind, name>> \in Keys(s) <=> kind \in Kinds /\ name \in DOMAIN s[kind]
  BY DEF Keys
<1>6. \A s : \A k \in Keys(s) : k = <<k[1], k[2]>> /\ k[1] \in Kinds /\ k[2] \in DOMAIN s[k[1]]
  BY DEF Keys
<1>0. \A kind \in Kinds : DOMAIN Joined(a, b)[kind] = DOMAIN a[kind] \cup DOMAIN b[kind]
  BY <1>2, <1>3
<1>7. Keys(Joined(a, b)) = Keys(a) \cup Keys(b)
  <2>1. \A k \in Keys(Joined(a, b)) : k \in Keys(a) \cup Keys(b)
    <3> TAKE k \in Keys(Joined(a, b))
    <3>1. k = <<k[1], k[2]>> /\ k[1] \in Kinds /\ k[2] \in DOMAIN Joined(a, b)[k[1]]
      BY <1>6
    <3>2. k[2] \in DOMAIN a[k[1]] \/ k[2] \in DOMAIN b[k[1]]
      BY <1>0, <3>1
    <3>3. <<k[1], k[2]>> \in Keys(a) \/ <<k[1], k[2]>> \in Keys(b)
      BY <1>5, <3>1, <3>2
    <3> QED
      BY <3>1, <3>3
  <2>2. \A k \in Keys(a) \cup Keys(b) : k \in Keys(Joined(a, b))
    <3> TAKE k \in Keys(a) \cup Keys(b)
    <3>1. k = <<k[1], k[2]>> /\ k[1] \in Kinds
          /\ (k[2] \in DOMAIN a[k[1]] \/ k[2] \in DOMAIN b[k[1]])
      BY <1>6
    <3>2. k[2] \in DOMAIN Joined(a, b)[k[1]]
      BY <1>0, <3>1
    <3>3. <<k[1], k[2]>> \in Keys(Joined(a, b))
      BY <1>5, <3>1, <3>2
    <3> QED
      BY <3>1, <3>3
  <2> QED
    BY <2>1, <2>2
<1>8. \A k \in Keys(a) : Joined(a, b)[k[1]][k[2]] = a[k[1]][k[2]]
  <2> TAKE k \in Keys(a)
  <2>1. k[1] \in Kinds /\ k[2] \in DOMAIN a[k[1]]
    BY <1>6
  <2> QED
    BY <1>2, <1>4, <2>1
<1>9. \A k \in Keys(b) \ Keys(a) : Joined(a, b)[k[1]][k[2]] = b[k[1]][k[2]]
  <2> TAKE k \in Keys(b) \ Keys(a)
  <2>1. k = <<k[1], k[2]>> /\ k[1] \in Kinds /\ k[2] \in DOMAIN b[k[1]]
    BY <1>6
  <2>2. k[2] \notin DOMAIN a[k[1]]
    BY <1>5, <2>1
  <2> QED
    BY <1>2, <1>4, <2>1, <2>2
<1> QED
  BY <1>1, <1>7, <1>8, <1>9

\* A file owns what it defines, and every other definition its owner so far.
LEMMA OwningKeys ==
  ASSUME NEW o, NEW f
  PROVE  /\ DOMAIN Owning(o, f) = Keys(f.defs) \cup DOMAIN o
         /\ \A k \in Keys(f.defs) : Owning(o, f)[k] = f.where
         /\ \A k \in DOMAIN o \ Keys(f.defs) : Owning(o, f)[k] = o[k]
BY DEF Owning, Over

\* Schema files, then blocks, are a list.
LEMMA AdditionsAreAList ==
  ASSUME NEW c \in Configurations
  PROVE  /\ Len(Additions(c)) \in Nat
         /\ \A i \in 1..Len(Additions(c)) :
              /\ DOMAIN Additions(c)[i].defs = Kinds
              /\ IsFiniteSet(DOMAIN Additions(c)[i].defs.class)
<1>1. IsListOfSources(c.files) /\ IsListOfSources(c.blocks)
  BY ConfigurationsAssumption
<1> DEFINE A == {c.files[i] : i \in DOMAIN c.files}
           B == {c.blocks[i] : i \in DOMAIN c.blocks}
<1>2. \A x \in A \cup B : DOMAIN x.defs = Kinds /\ IsFiniteSet(DOMAIN x.defs.class)
  BY <1>1 DEF IsListOfSources
<1>3. c.files \in Seq(A \cup B) /\ c.blocks \in Seq(A \cup B)
  <2>1. c.files \in Seq(A) /\ c.blocks \in Seq(B)
    BY <1>1 DEF IsListOfSources
  <2> HIDE DEF A, B
  <2> QED
    BY <2>1
<1> HIDE DEF A, B
<1>4. Additions(c) \in Seq(A \cup B)
  BY <1>3 DEF Additions
<1>5. \A i \in 1..Len(Additions(c)) : Additions(c)[i] \in A \cup B
  BY <1>4
<1> QED
  BY <1>2, <1>4, <1>5

\* What is read first, Samba's definitions among it, is of every kind too.
LEMMA BaseKinds ==
  ASSUME NEW c
  PROVE  DOMAIN Base(c).defs = Kinds /\ Base(c).where = "standard"
<1>1. DOMAIN Nothing = Kinds
  BY DEF Nothing
<1>2. DOMAIN Standard = Kinds
  BY <1>1 DEF Standard
<1>3. DOMAIN Joined(Standard, SambaDefinitions) = Kinds
  BY JoinedKeys
<1> QED
  BY <1>2, <1>3 DEF Base

\* The first source owns all that it defines.
LEMMA BaseOwnsItself ==
  ASSUME NEW c
  PROVE  /\ DOMAIN Owning(<<>>, Base(c)) = Keys(Base(c).defs)
         /\ \A k \in Keys(Base(c).defs) : Owning(<<>>, Base(c))[k] = Base(c).where
<1>1. DOMAIN <<>> = {}
  OBVIOUS
<1> DEFINE o == <<>>
           f == Base(c)
<1> HIDE DEF o, f
<1>2. /\ DOMAIN Owning(o, f) = Keys(f.defs) \cup DOMAIN o
      /\ \A k \in Keys(f.defs) : Owning(o, f)[k] = f.where
  BY OwningKeys
<1> QED
  BY <1>1, <1>2 DEF o, f

\* A tree that startup accepts has structure rules or has none.
LEMMA TreesSayIfTheyRule ==
  ASSUME NEW s, NEW c, NEW t \in CheckStructure(s, c)
  PROVE  t.rules \in BOOLEAN
<1>1. CASE DOMAIN s.structure = {}
  <2>1. t = NoTree
    BY Zenon, <1>1 DEF CheckStructure
  <2>2. NoTree.rules = FALSE
    BY DEF NoTree
  <2> QED
    BY Zenon, <2>1, <2>2
<1>2. CASE DOMAIN s.structure # {}
  <2>1. \E u : t = [rules |-> TRUE, people |-> u, groups |-> u]
    BY Zenon, <1>2 DEF CheckStructure
  <2> QED
    BY <2>1
<1> QED
  BY <1>1, <1>2

\* Before anything is read there is nothing.
LEMMA NothingHasNoKeys == Keys(Nothing) = {} /\ DOMAIN Nothing = Kinds
BY DEF Keys, Nothing

\* The types of what startup changes and of what is edited outside.
OpensInPlace ==
  /\ cfg \in Configurations /\ db \in Databases
  /\ file \in {[cfg.user EXCEPT !.classes = c] : c \in Rewrites \cup {cfg.user.classes}}
  /\ phase \in Phases /\ loaded \in 0..Len(Additions(cfg)) /\ changes \in 0..MaxChanges
  /\ DOMAIN sch = Kinds /\ DOMAIN owner = Keys(sch)
  /\ declared \subseteq Declarations(cfg) /\ tree.rules \in BOOLEAN

\* A step of open reads one file more, or none.
LEMMA OpensInPlaceInvariant == Spec => []OpensInPlace
<1>1. Init => OpensInPlace
  <2> SUFFICES ASSUME Init PROVE OpensInPlace
    OBVIOUS
  <2>1. cfg.user \in Persons /\ MaxChanges \in Nat /\ Len(Additions(cfg)) \in Nat
    BY ConfigurationsAssumption, AdditionsAreAList DEF Init
  <2>2. cfg.user = [cfg.user EXCEPT !.classes = cfg.user.classes]
    BY <2>1 DEF Persons
  <2>3. file \in {[cfg.user EXCEPT !.classes = c] : c \in Rewrites \cup {cfg.user.classes}}
    BY <2>2 DEF Init
  <2>4. DOMAIN sch = Kinds /\ DOMAIN owner = Keys(sch)
    BY NothingHasNoKeys DEF Init
  <2>5. tree.rules = FALSE
    BY DEF Init, NoTree
  <2>6. loaded \in 0..Len(Additions(cfg)) /\ changes \in 0..MaxChanges
    BY <2>1 DEF Init
  <2>7. /\ cfg \in Configurations /\ db \in Databases /\ phase \in Phases
        /\ declared \subseteq Declarations(cfg)
    BY DEF Init, Phases
  <2> QED
    BY Zenon, <2>3, <2>4, <2>5, <2>6, <2>7 DEF OpensInPlace
<1>2. OpensInPlace /\ [Next]_vars => OpensInPlace'
  <2> SUFFICES ASSUME OpensInPlace, [Next]_vars PROVE OpensInPlace'
    OBVIOUS
  <2> USE DEF OpensInPlace
  <2>0. Len(Additions(cfg)) \in Nat /\ MaxChanges \in Nat
    BY AdditionsAreAList, ConfigurationsAssumption
  <2>1. CASE CheckConfiguration
    <3> QED
      BY <2>1, BaseOwnsItself, BaseKinds DEF CheckConfiguration, Refuse, outside, Phases
  <2>2. CASE AddDefinitions
    <3> DEFINE f == Additions(cfg)[loaded + 1]
    <3>1. CASE UNCHANGED <<loaded, sch, owner, declared, tree>> /\ phase' = "refused"
      BY <2>2, <3>1 DEF AddDefinitions, outside, Phases
    <3>2. CASE /\ sch' = Joined(sch, f.defs) /\ owner' = Owning(owner, f)
               /\ loaded' = loaded + 1 /\ UNCHANGED <<phase, declared, tree>>
      <4>1. DOMAIN sch' = Kinds /\ Keys(sch') = Keys(sch) \cup Keys(f.defs)
        BY <3>2, JoinedKeys
      <4>2. DOMAIN owner' = Keys(f.defs) \cup DOMAIN owner
        BY <3>2, OwningKeys
      <4>3. loaded' \in 0..Len(Additions(cfg)')
        <5>1. loaded < Len(Additions(cfg)) /\ cfg' = cfg
          BY Zenon, <2>2 DEF AddDefinitions
        <5>2. loaded \in 0..Len(Additions(cfg))
          OBVIOUS
        <5>3. loaded + 1 \in 0..Len(Additions(cfg))
          <6> HIDE DEF OpensInPlace
          <6> QED
            BY <2>0, <5>1, <5>2
        <5> QED
          BY Zenon, <3>2, <5>1, <5>3
      <4> HIDE DEF f
      <4> QED
        BY <2>2, <3>2, <4>1, <4>2, <4>3 DEF AddDefinitions, outside
    <3> QED
      BY <2>2, <3>1, <3>2 DEF AddDefinitions, Refuse
  <2>3. CASE CheckDeclared
    BY <2>3 DEF CheckDeclared, Refuse, outside, Phases
  <2>4. CASE CheckTree
    <3> QED
      BY <2>4, TreesSayIfTheyRule DEF CheckTree, Refuse, outside, Phases
  <2>5. CASE ReadReaders
    BY <2>5 DEF ReadReaders, Refuse, outside, Phases
  <2>6. CASE OpenOIDC
    BY <2>6 DEF OpenOIDC, Refuse, outside, Phases
  <2>7. CASE ReadSources
    BY <2>7 DEF ReadSources, Refuse, outside, Phases
  <2>8. CASE Search \/ Refresh \/ ReloadLocal \/ UNCHANGED vars
    BY <2>8 DEF Search, Refresh, ReloadLocal, vars, opening, outside
  <2>9. CASE EditFile
    <3>1. PICK classes \in Rewrites : file' = [file EXCEPT !.classes = classes]
      BY <2>9 DEF EditFile
    <3>2. PICK c : file = [cfg.user EXCEPT !.classes = c]
      OBVIOUS
    <3>3. file' = [cfg.user EXCEPT !.classes = classes]
      BY <3>1, <3>2
    <3>4. changes' \in 0..MaxChanges
      BY <2>0, <2>9 DEF EditFile
    <3> QED
      BY <2>9, <3>3, <3>4 DEF EditFile, opening
  <2>10. CASE ChangeDatabase
    BY <2>0, <2>10 DEF ChangeDatabase, opening
  <2> QED
    BY <2>1, <2>2, <2>3, <2>4, <2>5, <2>6, <2>7, <2>8, <2>9, <2>10 DEF Next
<1> QED
  BY <1>1, <1>2, PTL DEF Spec

\* Every variable keeps its type, every definition read has an owner, and
\* nothing is declared or answered but what was asked for (server.go, open).
THEOREM OpeningTypes == Spec => []TypeOK
<1>1. OpensInPlace /\ PublishesItsSnapshot => TypeOK
  <2> SUFFICES ASSUME OpensInPlace, PublishesItsSnapshot PROVE TypeOK
    OBVIOUS
  <2>1. pub = Unbuilt \/ pub.built = TRUE
    BY Zenon DEF PublishesItsSnapshot
  <2>0. Unbuilt.built = FALSE
    BY DEF Unbuilt
  <2>2. pub.built \in BOOLEAN
    BY Zenon, <2>0, <2>1
  <2>3. answer \subseteq pub.all
    BY DEF PublishesItsSnapshot, Valid
  <2>4. phase # "serving" => snap = NoSnapshot
    BY DEF PublishesItsSnapshot
  <2> QED
    BY Zenon, <2>2, <2>3, <2>4 DEF OpensInPlace, TypeOK
<1> QED
  BY <1>1, OpensInPlaceInvariant, PublishesInvariant, PTL

------------------------------------------------------------------------------
\* The i-th of some places is the first that defines k.
DefinedFirst(places, k, i) ==
  /\ i \in 1..Len(places) /\ k \in Keys(places[i].defs)
  /\ \A j \in 1..Len(places) : k \in Keys(places[j].defs) => i <= j

\* The standard schema comes before the files and the blocks.
LEMMA PlacesInOrder ==
  ASSUME cfg \in Configurations
  PROVE  /\ Len(Places) = Len(Additions(cfg)) + 1 /\ Len(Places) \in Nat
         /\ Places[1] = Base(cfg)
         /\ \A i \in 1..Len(Additions(cfg)) : Places[i + 1] = Additions(cfg)[i]
<1> DEFINE A == Additions(cfg)
           S == {A[i] : i \in DOMAIN A} \cup {Base(cfg)}
<1>1. A \in Seq({A[i] : i \in DOMAIN A})
  <2>1. cfg.files \in Seq({cfg.files[i] : i \in DOMAIN cfg.files})
        /\ cfg.blocks \in Seq({cfg.blocks[i] : i \in DOMAIN cfg.blocks})
    BY ConfigurationsAssumption DEF IsListOfSources
  <2> DEFINE F == {cfg.files[i] : i \in DOMAIN cfg.files}
             B == {cfg.blocks[i] : i \in DOMAIN cfg.blocks}
  <2>2. A \in Seq(F \cup B)
    <3>1. cfg.files \in Seq(F) /\ cfg.blocks \in Seq(B)
      BY <2>1
    <3> HIDE DEF F, B
    <3>2. cfg.files \in Seq(F \cup B) /\ cfg.blocks \in Seq(F \cup B)
      BY <3>1
    <3> QED
      BY <3>2 DEF Additions
  <2> HIDE DEF F, B, A
  <2>3. Len(A) \in Nat /\ DOMAIN A = 1..Len(A) /\ A = [i \in 1..Len(A) |-> A[i]]
    BY <2>2
  <2> QED
    BY <2>3
<1> HIDE DEF A
<1>2. A \in Seq(S) /\ Base(cfg) \in S
  BY <1>1
<1>3. Places = <<Base(cfg)>> \o A
  BY DEF Places, A
<1> HIDE DEF S
<1>4. Len(Places) = Len(A) + 1 /\ Len(A) \in Nat
  BY <1>2, <1>3
<1>5. Places[1] = Base(cfg)
  BY <1>2, <1>3
<1>6. \A i \in 1..Len(A) : Places[i + 1] = A[i]
  BY <1>2, <1>3
<1> QED
  BY <1>4, <1>5, <1>6 DEF A

\* There is one first place.
LEMMA FirstPlaceIsOne ==
  ASSUME NEW k, NEW i, DefinedFirst(Places, k, i)
  PROVE  FirstPlace(k) = Places[i]
<1> DEFINE defines == {j \in 1..Len(Places) : k \in Keys(Places[j].defs)}
<1>1. i \in defines /\ \A j \in defines : i <= j
  BY DEF DefinedFirst
<1>2. \A j \in defines : (\A l \in defines : j <= l) => j = i
  BY <1>1
<1>3. (CHOOSE j \in defines : \A l \in defines : j <= l) = i
  <2> HIDE DEF defines
  <2> QED
    BY <1>1, <1>2
<1> QED
  BY <1>3 DEF FirstPlace

\* What was read so far is served as its first place has it, nothing that was
\* read is missing, and who is refused for defining something again is told of
\* what is served.
ServesFirst ==
  /\ \A k \in Keys(sch) : \E i :
       /\ DefinedFirst(Places, k, i)
       /\ owner[k] = Places[i].where /\ sch[k[1]][k[2]] = Places[i].defs[k[1]][k[2]]
  /\ phase = "check" => sch = Nothing /\ loaded = 0
  /\ phase = "schema" => \A i \in 1..(loaded + 1) : Keys(Places[i].defs) \subseteq Keys(sch)
  /\ refusal.why = "redefined" =>
       LET k == refusal.key
           again == Additions(cfg)[loaded + 1]
       IN /\ phase = "refused" /\ k \in Keys(sch) /\ refusal.first = owner[k]
          /\ refusal.same <=> again.defs[k[1]][k[2]] = sch[k[1]][k[2]]

\* A refusal is for a redefinition only where it says so.
LEMMA RefusalsSayWhy ==
  /\ NoRefusal.why = "none" /\ \A why : Refused(why).why = why
  /\ \A o, f, k : /\ Redefined(o, f, k).why = "redefined" /\ Redefined(o, f, k).key = k
                  /\ Redefined(o, f, k).first = o[k]
                  /\ Redefined(o, f, k).same = (sch[k[1]][k[2]] = f.defs[k[1]][k[2]])
BY DEF NoRefusal, Refused, Redefined

\* One file or block more is the next place, and defines nothing that was read.
LEMMA NextPlace ==
  ASSUME OpensInPlace, ServesFirst, phase = "schema", loaded < Len(Additions(cfg)),
         NEW f, f = Additions(cfg)[loaded + 1], Keys(sch) \cap Keys(f.defs) = {}
  PROVE  /\ \A k \in Keys(f.defs) : DefinedFirst(Places, k, loaded + 2)
         /\ Places[loaded + 2] = f
<1>1. /\ Len(Places) = Len(Additions(cfg)) + 1 /\ Len(Additions(cfg)) \in Nat
      /\ \A i \in 1..Len(Additions(cfg)) : Places[i + 1] = Additions(cfg)[i]
  <2>1. cfg \in Configurations
    BY Zenon DEF OpensInPlace
  <2> QED
    BY <2>1, PlacesInOrder, AdditionsAreAList
<1>2. loaded \in 0..Len(Additions(cfg))
  BY Zenon DEF OpensInPlace
<1>3. loaded + 1 \in 1..Len(Additions(cfg)) /\ (loaded + 1) + 1 = loaded + 2
  BY <1>1, <1>2
<1>4. Places[loaded + 2] = f
  BY <1>1, <1>3
<1>5. \A i \in 1..(loaded + 1) : Keys(Places[i].defs) \subseteq Keys(sch)
  BY DEF ServesFirst
<1>6. ASSUME NEW k \in Keys(f.defs) PROVE DefinedFirst(Places, k, loaded + 2)
  <2>1. loaded + 2 \in 1..Len(Places)
    BY <1>1, <1>2, <1>3
  <2>2. \A j \in 1..Len(Places) : k \in Keys(Places[j].defs) => loaded + 2 <= j
    <3> TAKE j \in 1..Len(Places)
    <3> HAVE k \in Keys(Places[j].defs)
    <3>1. j \notin 1..(loaded + 1)
      BY <1>5, <1>6
    <3> QED
      BY <1>1, <1>2, <3>1
  <2> QED
    BY <1>4, <1>6, <2>1, <2>2 DEF DefinedFirst
<1> QED
  BY <1>4, <1>6

\* Startup reads the places in their order and keeps the first of each.
LEMMA ServesFirstInvariant == Spec => []ServesFirst
<1>1. Init => ServesFirst
  <2>1. Init => refusal.why = "none" /\ Keys(sch) = {} /\ phase = "check"
                /\ sch = Nothing /\ loaded = 0
    BY NothingHasNoKeys, RefusalsSayWhy DEF Init
  <2> QED
    BY <2>1 DEF ServesFirst
<1>2. OpensInPlace /\ ServesFirst /\ [Next]_vars => ServesFirst'
  <2> SUFFICES ASSUME OpensInPlace, ServesFirst, [Next]_vars PROVE ServesFirst'
    OBVIOUS
  <2>0. cfg' = cfg /\ Places' = Places
    <3>1. cfg' = cfg
      BY DEF Next, vars, CheckConfiguration, AddDefinitions, CheckDeclared, CheckTree,
             ReadReaders, OpenOIDC, ReadSources, Search, Refresh, ReloadLocal, EditFile,
             ChangeDatabase
    <3> QED
      BY <3>1 DEF Places
  <2>00. cfg \in Configurations /\ loaded \in 0..Len(Additions(cfg)) /\ DOMAIN owner = Keys(sch)
    BY Zenon DEF OpensInPlace
  <2>1. CASE UNCHANGED <<loaded, sch, owner, refusal>> /\ phase \notin {"check", "refused"}
             /\ (phase' = "schema" => phase = "schema")
             /\ phase' # "check"
    BY <2>0, <2>1 DEF ServesFirst
  <2>2. CASE /\ UNCHANGED <<loaded, sch, owner>> /\ phase' = "refused"
             /\ refusal'.why # "redefined"
    BY <2>0, <2>2 DEF ServesFirst
  <2>3. CASE CheckConfiguration /\ phase' = "schema"
    <3> DEFINE base == Base(cfg)
    <3>1. sch' = base.defs /\ owner' = Owning(<<>>, base) /\ loaded' = 0
          /\ phase = "check" /\ refusal' = refusal
      BY <2>3 DEF CheckConfiguration, Refuse, ServesFirst
    <3>2. Places[1] = base /\ 1 \in 1..Len(Places)
      BY <2>00, PlacesInOrder, AdditionsAreAList
    <3>3. \A k \in Keys(base.defs) : DefinedFirst(Places, k, 1)
      BY <3>2 DEF DefinedFirst
    <3>4. \A k \in Keys(base.defs) : Owning(<<>>, base)[k] = base.where
      BY BaseOwnsItself
    <3>5. \A i \in 1..(loaded' + 1) : Keys(Places[i].defs) \subseteq Keys(sch')
      BY <3>1, <3>2
    <3>6. refusal'.why # "redefined"
      BY <3>1 DEF ServesFirst
    <3> HIDE DEF base
    <3>7. \A k \in Keys(sch') :
            /\ DefinedFirst(Places, k, 1) /\ owner'[k] = Places[1].where
            /\ sch'[k[1]][k[2]] = Places[1].defs[k[1]][k[2]]
      BY <3>1, <3>2, <3>3, <3>4
    <3> QED
      BY <2>0, <2>3, <3>5, <3>6, <3>7 DEF ServesFirst
  <2>4. CASE AddDefinitions
    <3> DEFINE f == Additions(cfg)[loaded + 1]
    <3>1. CASE \E k \in Keys(sch) \cap Keys(f.defs) : Refuse(Redefined(owner, f, k))
      <4>1. PICK k \in Keys(sch) : Refuse(Redefined(owner, f, k))
        BY <3>1
      <4>2. /\ UNCHANGED <<loaded, sch, owner>> /\ phase' = "refused"
            /\ refusal' = Redefined(owner, f, k)
        BY <4>1 DEF Refuse
      <4> HIDE DEF f
      <4>3. /\ refusal'.key = k /\ refusal'.first = owner[k]
            /\ refusal'.same = (sch[k[1]][k[2]] = f.defs[k[1]][k[2]])
        BY <4>2, RefusalsSayWhy
      <4> QED
        BY <2>0, <4>2, <4>3 DEF ServesFirst, f
    <3>2. CASE /\ sch' = Joined(sch, f.defs) /\ owner' = Owning(owner, f)
               /\ loaded' = loaded + 1 /\ UNCHANGED <<phase, refusal>>
               /\ Keys(sch) \cap Keys(f.defs) = {}
      <4>1. phase = "schema" /\ loaded < Len(Additions(cfg))
        BY <2>4 DEF AddDefinitions
      <4>2. /\ \A k \in Keys(f.defs) : DefinedFirst(Places, k, loaded + 2)
            /\ Places[loaded + 2] = f
        BY <3>2, <4>1, NextPlace
      <4> HIDE DEF f
      <4>3. Keys(sch') = Keys(sch) \cup Keys(f.defs)
        BY <3>2, JoinedKeys
      <4>4. \A k \in Keys(sch) : sch'[k[1]][k[2]] = sch[k[1]][k[2]] /\ owner'[k] = owner[k]
        <5>1. \A k \in Keys(sch) : Joined(sch, f.defs)[k[1]][k[2]] = sch[k[1]][k[2]]
          BY JoinedKeys
        <5>2. \A k \in DOMAIN owner \ Keys(f.defs) : Owning(owner, f)[k] = owner[k]
          BY OwningKeys
        <5> QED
          BY <2>00, <3>2, <5>1, <5>2
      <4>5. \A k \in Keys(f.defs) :
              /\ k \notin Keys(sch)
              /\ sch'[k[1]][k[2]] = f.defs[k[1]][k[2]] /\ owner'[k] = f.where
        <5>1. \A k \in Keys(f.defs) \ Keys(sch) :
                Joined(sch, f.defs)[k[1]][k[2]] = f.defs[k[1]][k[2]]
          BY JoinedKeys
        <5>2. \A k \in Keys(f.defs) : Owning(owner, f)[k] = f.where
          BY OwningKeys
        <5> QED
          BY <3>2, <5>1, <5>2
      <4>6. ASSUME NEW k \in Keys(sch')
            PROVE  \E i : /\ DefinedFirst(Places, k, i) /\ owner'[k] = Places[i].where
                          /\ sch'[k[1]][k[2]] = Places[i].defs[k[1]][k[2]]
        <5>1. CASE k \in Keys(sch)
          BY <4>4, <5>1 DEF ServesFirst
        <5>2. CASE k \in Keys(f.defs)
          BY <4>2, <4>5, <5>2
        <5> QED
          BY <4>3, <4>6, <5>1, <5>2
      <4>7. \A i \in 1..(loaded' + 1) : Keys(Places[i].defs) \subseteq Keys(sch')
        <5> TAKE i \in 1..(loaded' + 1)
        <5>1. i \in 1..(loaded + 1) \/ i = loaded + 2
          BY <2>00, <3>2
        <5>2. \A j \in 1..(loaded + 1) : Keys(Places[j].defs) \subseteq Keys(sch)
          BY <4>1 DEF ServesFirst
        <5> QED
          BY <4>2, <4>3, <5>1, <5>2
      <4>8. refusal'.why # "redefined" /\ phase' = "schema"
        BY <3>2, <4>1 DEF ServesFirst
      <4> QED
        BY <2>0, <4>6, <4>7, <4>8 DEF ServesFirst
    <3>3. CASE Refuse(Refused("unreadable")) \/ Refuse(Refused("does not build"))
      <4>1. UNCHANGED <<loaded, sch, owner>> /\ phase' = "refused"
            /\ refusal'.why # "redefined"
        BY <3>3, RefusalsSayWhy DEF Refuse
      <4> QED
        BY <2>2, <4>1
    <3> QED
      BY <2>4, <3>1, <3>2, <3>3 DEF AddDefinitions
  <2>5. CASE UNCHANGED opening
    BY <2>0, <2>5 DEF ServesFirst, opening
  <2>6. CASE CheckConfiguration \/ CheckDeclared \/ CheckTree \/ ReadReaders \/ OpenOIDC \/ ReadSources
    <3>1. \/ \E why \in {"configuration", "declared", "structure", "readers", "oidc", "sources"} :
               Refuse(Refused(why))
          \/ CheckConfiguration /\ phase' = "schema"
          \/ /\ UNCHANGED <<loaded, sch, owner, refusal>> /\ phase \notin {"check", "refused"}
             /\ phase' \notin {"schema", "check"}
      BY <2>6 DEF CheckConfiguration, CheckDeclared, CheckTree, ReadReaders, OpenOIDC, ReadSources
    <3>2. CASE \E why \in {"configuration", "declared", "structure", "readers", "oidc", "sources"} :
               Refuse(Refused(why))
      <4>1. UNCHANGED <<loaded, sch, owner>> /\ phase' = "refused"
            /\ refusal'.why # "redefined"
        BY <3>2, RefusalsSayWhy DEF Refuse
      <4> QED
        BY <2>2, <4>1
    <3> QED
      BY <2>1, <2>3, <3>1, <3>2
  <2> QED
    BY <2>4, <2>5, <2>6 DEF Next, vars, Search, Refresh, ReloadLocal, EditFile, ChangeDatabase
<1> QED
  BY <1>1, <1>2, OpensInPlaceInvariant, PTL DEF Spec

\* Whatever the files define and in whatever number, what is served is the
\* first definition of each name, owned by the file that gave it, and a
\* redefinition is refused with that file's name (siteschema.go, refusal).
THEOREM FirstDefinitionIsServed == Spec => []ServedAsFirstDefined
<1>1. ServesFirst => ServedAsFirstDefined
  <2> SUFFICES ASSUME ServesFirst PROVE ServedAsFirstDefined
    OBVIOUS
  <2>1. \A k \in Keys(sch) : /\ owner[k] = FirstPlace(k).where
                             /\ sch[k[1]][k[2]] = FirstPlace(k).defs[k[1]][k[2]]
    <3> TAKE k \in Keys(sch)
    <3>1. PICK i : /\ DefinedFirst(Places, k, i) /\ owner[k] = Places[i].where
                   /\ sch[k[1]][k[2]] = Places[i].defs[k[1]][k[2]]
      BY DEF ServesFirst
    <3> QED
      BY <3>1, FirstPlaceIsOne
  <2> QED
    BY Zenon, <2>1 DEF ServesFirst, ServedAsFirstDefined
<1> QED
  BY <1>1, ServesFirstInvariant, PTL

------------------------------------------------------------------------------
\* The structural classes that authnd derives.
Structures ==
  {"account", "person", "organizationalPerson", "inetOrgPerson", "posixGroup",
   "groupOfNames", "organizationalRole"}

\* The standard classes are finitely many, with their superclasses among them.
LEMMA StandardIsAGraph ==
  /\ IsFiniteSet(DOMAIN StandardClasses)
  /\ \A c \in DOMAIN StandardClasses : StandardClasses[c].sup \subseteq DOMAIN StandardClasses
  /\ \A c \in Structures : c \in DOMAIN StandardClasses
                           /\ StandardClasses[c].kind = "STRUCTURAL"
<1> DEFINE some == {"account", "person", "organizationalPerson"}
           more == {"inetOrgPerson", "posixAccount", "ldapPublicKey"}
           groups == {"uidObject", "posixGroup", "groupOfNames"}
           rest == {"organizationalRole", "domain", "organizationalUnit"}
<1>1. DOMAIN StandardClasses = some \cup more \cup groups \cup rest
  BY DEF StandardClasses
<1>2. \A x, y, z : IsFiniteSet({x, y, z})
  <2> TAKE x, y, z
  <2>1. IsFiniteSet({x}) /\ IsFiniteSet({y}) /\ IsFiniteSet({z})
    BY FS_Singleton
  <2>2. IsFiniteSet({x} \cup {y})
    BY <2>1, FS_Union
  <2>3. IsFiniteSet(({x} \cup {y}) \cup {z})
    BY <2>1, <2>2, FS_Union
  <2>4. ({x} \cup {y}) \cup {z} = {x, y, z}
    OBVIOUS
  <2> QED
    BY <2>3, <2>4
<1>3. IsFiniteSet(some) /\ IsFiniteSet(more) /\ IsFiniteSet(groups) /\ IsFiniteSet(rest)
  BY <1>2
<1>4. IsFiniteSet(DOMAIN StandardClasses)
  <2> HIDE DEF some, more, groups, rest
  <2>1. IsFiniteSet(some \cup more)
    BY <1>3, FS_Union
  <2>2. IsFiniteSet(some \cup more \cup groups)
    BY <1>3, <2>1, FS_Union
  <2>3. IsFiniteSet(some \cup more \cup groups \cup rest)
    BY <1>3, <2>2, FS_Union
  <2> QED
    BY <1>1, <2>3
<1>5. \A c \in DOMAIN StandardClasses :
        StandardClasses[c].sup \subseteq {"person", "organizationalPerson"}
  BY DEF StandardClasses, Class
<1>6. \A c \in Structures : StandardClasses[c].kind = "STRUCTURAL"
  BY DEF StandardClasses, Class, Structures
<1> QED
  BY <1>1, <1>4, <1>5, <1>6 DEF Structures

\* The classes authnd starts from, Samba's among them.
LEMMA BaseClasses ==
  ASSUME NEW c
  PROVE  LET class == Base(c).defs.class IN
         /\ Graph(Base(c).defs)
         /\ \A n \in Structures : n \in DOMAIN class /\ class[n].kind = "STRUCTURAL"
         /\ c.samba # Unset => /\ "sambaSamAccount" \in DOMAIN class
                               /\ "sambaSID" \in class["sambaSamAccount"].must
<1> DEFINE samba == [sambaSamAccount |-> Class("AUXILIARY", {}, {"uid", "sambaSID"},
                                               {"cn", "sambaNTPassword", "description"})]
           class == Base(c).defs.class
<1>1. Standard.class = StandardClasses /\ SambaDefinitions.class = samba
  BY DEF Standard, SambaDefinitions, Nothing, Kinds
<1>2. class = IF c.samba = Unset THEN StandardClasses ELSE Over(StandardClasses, samba)
  BY <1>1 DEF Base, Joined, Kinds
<1>3. /\ DOMAIN samba = {"sambaSamAccount"} /\ samba["sambaSamAccount"].sup = {}
      /\ "sambaSID" \in samba["sambaSamAccount"].must
  BY DEF Class
<1>4. "sambaSamAccount" \notin DOMAIN StandardClasses
  BY DEF StandardClasses
<1> HIDE DEF samba
<1>5. CASE c.samba = Unset
  BY <1>2, <1>5, StandardIsAGraph DEF Graph, ClosedUnder
<1>6. CASE c.samba # Unset
  <2>1. /\ DOMAIN class = DOMAIN StandardClasses \cup {"sambaSamAccount"}
        /\ \A n \in DOMAIN StandardClasses : class[n] = StandardClasses[n]
        /\ class["sambaSamAccount"] = samba["sambaSamAccount"]
    BY <1>2, <1>3, <1>4, <1>6 DEF Over
  <2>2. IsFiniteSet(DOMAIN class)
    BY <2>1, StandardIsAGraph, FS_AddElement
  <2> HIDE DEF class
  <2>3. ClosedUnder(Base(c).defs, DOMAIN class)
    BY <1>3, <2>1, StandardIsAGraph DEF ClosedUnder, class
  <2>4. \A n \in Structures : n \in DOMAIN class /\ class[n].kind = "STRUCTURAL"
    BY <2>1, StandardIsAGraph
  <2>5. "sambaSamAccount" \in DOMAIN class /\ "sambaSID" \in class["sambaSamAccount"].must
    BY <1>3, <2>1
  <2> QED
    BY <2>2, <2>3, <2>4, <2>5 DEF Graph, class
<1> QED
  BY <1>5, <1>6

\* More definitions that build leave the classes a graph.
LEMMA JoinedIsAGraph ==
  ASSUME NEW a, NEW b, Graph(a), IsFiniteSet(DOMAIN b.class), Builds(Joined(a, b))
  PROVE  Graph(Joined(a, b))
<1> DEFINE j == Joined(a, b)
<1>1. DOMAIN j.class = DOMAIN a.class \cup DOMAIN b.class
  BY DEF Joined, Over, Kinds
<1>2. IsFiniteSet(DOMAIN j.class)
  BY <1>1, FS_Union DEF Graph
<1> HIDE DEF j
<1>3. ClosedUnder(j, DOMAIN j.class)
  BY DEF Builds, ClassBuilds, ClosedUnder, j
<1> QED
  BY <1>2, <1>3 DEF Graph, j

\* The classes read so far are a graph, and nothing is declared that is not an
\* auxiliary class of the site.
SchemaHolds ==
  /\ Graph(sch)
  /\ declared \subseteq {c \in Declarations(cfg) : Declarable(sch, c)}
  /\ phase \in {"check", "schema"} => declared = {}

\* Once something is declared no definition changes.
LEMMA SchemaHoldsInvariant == Spec => []SchemaHolds
<1>1. Init => SchemaHolds
  <2> SUFFICES ASSUME Init PROVE SchemaHolds
    OBVIOUS
  <2>1. sch.class = <<>> /\ DOMAIN <<>> = {}
    BY DEF Init, Nothing, Kinds
  <2>2. Graph(sch)
    BY <2>1, FS_EmptySet DEF Graph, ClosedUnder
  <2> QED
    BY <2>2 DEF Init, SchemaHolds
<1>2. OpensInPlace /\ SchemaHolds /\ [Next]_vars => SchemaHolds'
  <2> SUFFICES ASSUME OpensInPlace, SchemaHolds, [Next]_vars PROVE SchemaHolds'
    OBVIOUS
  <2>0. cfg' = cfg /\ Declarations(cfg)' = Declarations(cfg)
    BY DEF Next, vars, CheckConfiguration, AddDefinitions, CheckDeclared, CheckTree,
           ReadReaders, OpenOIDC, ReadSources, Search, Refresh, ReloadLocal, EditFile,
           ChangeDatabase
  <2>1. CASE UNCHANGED <<sch, declared>>
             /\ (phase' \in {"check", "schema"} => phase \in {"check", "schema"})
    BY <2>0, <2>1 DEF SchemaHolds
  <2>2. CASE phase = "check" /\ sch' = Base(cfg).defs /\ UNCHANGED declared
    <3>1. declared = {}
      BY <2>2 DEF SchemaHolds
    <3>2. Graph(Base(cfg).defs)
      BY BaseClasses
    <3> QED
      BY <2>0, <2>2, <3>1, <3>2 DEF SchemaHolds
  <2>3. CASE /\ phase = "schema" /\ loaded < Len(Additions(cfg)) /\ UNCHANGED declared
             /\ Builds(Joined(sch, Additions(cfg)[loaded + 1].defs))
             /\ sch' = Joined(sch, Additions(cfg)[loaded + 1].defs)
    <3> DEFINE f == Additions(cfg)[loaded + 1]
    <3>1. declared = {} /\ Graph(sch)
      BY <2>3 DEF SchemaHolds
    <3>2. cfg \in Configurations /\ loaded \in 0..Len(Additions(cfg))
      BY Zenon DEF OpensInPlace
    <3>3. IsFiniteSet(DOMAIN f.defs.class)
      <4>1. loaded + 1 \in 1..Len(Additions(cfg))
        BY <2>3, <3>2, AdditionsAreAList
      <4> QED
        BY <3>2, <4>1, AdditionsAreAList
    <3> HIDE DEF f
    <3>4. Graph(Joined(sch, f.defs))
      BY <2>3, <3>1, <3>3, JoinedIsAGraph DEF f
    <3> QED
      BY <2>0, <2>3, <3>1, <3>4 DEF SchemaHolds, f
  <2>4. CASE CheckDeclared
    <3>1. UNCHANGED sch
      BY <2>4 DEF CheckDeclared, Refuse
    <3>2. \/ UNCHANGED declared /\ phase' = "refused"
          \/ /\ declared' = Declarations(cfg) /\ phase' = "structure"
             /\ \A c \in Declarations(cfg) : Declarable(sch, c)
      BY <2>4 DEF CheckDeclared, Refuse
    <3> QED
      BY <2>0, <3>1, <3>2 DEF SchemaHolds
  <2>5. CASE CheckConfiguration
    BY <2>1, <2>2, <2>5 DEF CheckConfiguration, Refuse
  <2>6. CASE AddDefinitions
    BY <2>1, <2>3, <2>6 DEF AddDefinitions, Refuse
  <2>7. CASE CheckTree \/ ReadReaders \/ OpenOIDC \/ ReadSources
    BY <2>1, <2>7 DEF CheckTree, ReadReaders, OpenOIDC, ReadSources, Refuse
  <2>8. CASE Search \/ Refresh \/ ReloadLocal \/ EditFile \/ ChangeDatabase \/ UNCHANGED vars
    BY <2>1, <2>8 DEF Search, Refresh, ReloadLocal, EditFile, ChangeDatabase, vars, opening
  <2> QED
    BY <2>4, <2>5, <2>6, <2>7, <2>8 DEF Next
<1> QED
  BY <1>1, <1>2, OpensInPlaceInvariant, PTL DEF Spec

\* What authnd starts from is what it serves: nothing redefines it.
LEMMA BaseIsServed ==
  ASSUME OpensInPlace, ServesFirst, NEW n \in DOMAIN sch.class,
         n \in DOMAIN Base(cfg).defs.class
  PROVE  sch.class[n] = Base(cfg).defs.class[n]
<1> DEFINE k == <<"class", n>>
<1>1. k \in Keys(sch) /\ k \in Keys(Base(cfg).defs) /\ k[1] = "class" /\ k[2] = n
  BY DEF Keys, Kinds
<1> HIDE DEF k
<1>2. PICK i : /\ DefinedFirst(Places, k, i)
               /\ sch[k[1]][k[2]] = Places[i].defs[k[1]][k[2]]
  BY <1>1 DEF ServesFirst
<1>3. Places[1] = Base(cfg) /\ 1 \in 1..Len(Places)
  <2>1. cfg \in Configurations
    BY Zenon DEF OpensInPlace
  <2> QED
    BY <2>1, PlacesInOrder, AdditionsAreAList
<1>4. i = 1
  BY <1>1, <1>2, <1>3 DEF DefinedFirst
<1>5. sch["class"][n] = Base(cfg).defs["class"][n]
  BY <1>1, <1>2, <1>3, <1>4
<1> QED
  BY <1>5

------------------------------------------------------------------------------
\* Whom a snapshot speaks of: one person of the file, one of the database, who
\* has another name, and one group.
SnapshotSubjects ==
  /\ snap = [user |-> snap.user, person |-> snap.person, group |-> snap.group]
  /\ \A p \in snap.user : p.name = cfg.user.name /\ p.uid \in Nat
  /\ \A p \in snap.person : p.uid \in Nat /\ \E d \in Databases : p.name = d.person.name
  /\ \A p, q \in snap.user : p = q
  /\ \A p, q \in snap.person : p = q
  /\ \A g, h \in snap.group : g = h

\* Another list of classes leaves a person's name and number alone.
LEMMA ClassesChanged ==
  ASSUME NEW p \in Persons, NEW classes, NEW q, q = [p EXCEPT !.classes = classes]
  PROVE  q.name = p.name /\ q.uid = p.uid /\ q.uid \in Nat
BY DEF Persons

\* Every source hands out the people it has, and nobody else.
LEMMA SnapshotSubjectsInvariant == Spec => []SnapshotSubjects
<1>1. Init => SnapshotSubjects
  BY DEF Init, NoSnapshot, SnapshotSubjects
<1>2. OpensInPlace /\ PublishesItsSnapshot /\ SnapshotSubjects /\ [Next]_vars => SnapshotSubjects'
  <2> SUFFICES ASSUME OpensInPlace, PublishesItsSnapshot, SnapshotSubjects, [Next]_vars
               PROVE  SnapshotSubjects'
    OBVIOUS
  <2>0. cfg' = cfg
    BY DEF Next, vars, CheckConfiguration, AddDefinitions, CheckDeclared, CheckTree,
           ReadReaders, OpenOIDC, ReadSources, Search, Refresh, ReloadLocal, EditFile,
           ChangeDatabase
  <2>1. file.name = cfg.user.name /\ file.uid \in Nat
    <3>1. cfg.user \in Persons
      BY ConfigurationsAssumption DEF OpensInPlace
    <3>2. \E c : file = [cfg.user EXCEPT !.classes = c]
      BY Zenon DEF OpensInPlace
    <3> QED
      BY <3>1, <3>2, ClassesChanged
  <2>2. \A p \in Handed(db).person :
          p.uid \in Nat /\ p.name = db.person.name /\ db \in Databases
    <3>1. db \in Databases /\ db.person \in Persons
      BY ConfigurationsAssumption DEF OpensInPlace
    <3>2. \A p \in Handed(db).person : p = [db.person EXCEPT !.classes = cfg.declares]
      BY DEF Handed
    <3> QED
      BY <3>1, <3>2, ClassesChanged
  <2>3. /\ \A p, q \in Handed(db).person : p = q
        /\ \A g, h \in Handed(db).group : g = h
    BY DEF Handed
  <2>4. CASE UNCHANGED snap
    BY <2>0, <2>4 DEF SnapshotSubjects
  <2>5. CASE snap' = [user |-> {file}, person |-> Handed(db).person,
                      group |-> Handed(db).group]
    BY <2>0, <2>1, <2>2, <2>3, <2>5 DEF SnapshotSubjects
  <2>6. CASE snap' = [snap EXCEPT !.person = Handed(db).person,
                                  !.group = Handed(db).group]
    <3>1. snap' = [user |-> snap.user, person |-> Handed(db).person,
                   group |-> Handed(db).group]
      BY <2>6 DEF SnapshotSubjects
    <3> QED
      BY <2>0, <2>2, <2>3, <3>1 DEF SnapshotSubjects
  <2>7. CASE snap' = [snap EXCEPT !.user = {file}]
    <3>1. snap' = [user |-> {file}, person |-> snap.person, group |-> snap.group]
      BY <2>7 DEF SnapshotSubjects
    <3> QED
      BY <2>0, <2>1, <3>1 DEF SnapshotSubjects
  <2> QED
    BY <2>4, <2>5, <2>6, <2>7, ServingSteps DEF serving, Search
<1> QED
  BY <1>1, <1>2, OpensInPlaceInvariant, PublishesInvariant, PTL DEF Spec

\* Nothing is published but by a server that was accepted and is serving.
LEMMA PublishedIsServed ==
  ASSUME PublishesItsSnapshot, Accepted, pub.all # {}
  PROVE  phase = "serving" /\ Check(cfg)
<1>1. Unbuilt.all = {}
  BY DEF Unbuilt
<1>2. phase = "serving"
  BY <1>1 DEF PublishesItsSnapshot
<1> QED
  BY <1>2 DEF Accepted

\* An entry is the one of the person, or of the group, that its name leads to.
LEMMA PublishedSubject ==
  ASSUME OpensInPlace, SnapshotSubjects, PublishesItsSnapshot, NEW e \in pub.all
  PROVE  \/ /\ e.group = FALSE /\ Subject(e) \in snap.user \cup snap.person
            /\ PublishedPerson(Server, Subject(e), e)
         \/ /\ e.group = TRUE /\ Subject(e) \in snap.group
            /\ PublishedGroup(Server, Subject(e), e)
<1> DEFINE people == snap.user \cup snap.person
<1>1. \A p, q \in people : p.name = q.name => p = q
  <2>1. \A d \in Databases : cfg.user.name # d.person.name
    BY ConfigurationsAssumption DEF OpensInPlace
  <2> QED
    BY <2>1 DEF SnapshotSubjects
<1>2. pub.all = Build(Server, people, snap.group)
  BY DEF PublishesItsSnapshot, Unbuilt
<1>3. Subject(e) = CHOOSE p \in IF e.group THEN snap.group ELSE people : p.name = e.name
  BY DEF Subject
<1> HIDE DEF people
<1>4. CASE \E p \in people : PublishedPerson(Server, p, e)
  <2>1. PICK p \in people : PublishedPerson(Server, p, e)
    BY <1>4
  <2>2. p.name = e.name /\ e.group = FALSE
    BY Zenon, <2>1 DEF PublishedPerson, OfPerson
  <2>3. Subject(e) = CHOOSE q \in people : q.name = e.name
    BY Zenon, <1>3, <2>2
  <2>4. Subject(e) = p
    BY <1>1, <2>1, <2>2, <2>3
  <2> QED
    BY Zenon, <2>1, <2>2, <2>4 DEF people
<1>5. CASE \E g \in snap.group : PublishedGroup(Server, g, e)
  <2>1. PICK g \in snap.group : PublishedGroup(Server, g, e)
    BY <1>5
  <2>2. g.name = e.name /\ e.group = TRUE
    BY Zenon, <2>1 DEF PublishedGroup, OfGroup
  <2>3. Subject(e) = CHOOSE h \in snap.group : h.name = e.name
    BY Zenon, <1>3, <2>2
  <2>4. \A h \in snap.group : h = g
    BY Zenon, <2>1 DEF SnapshotSubjects
  <2>5. Subject(e) = g
    BY <2>1, <2>2, <2>3, <2>4
  <2> QED
    BY Zenon, <2>1, <2>2, <2>5
<1> QED
  BY <1>2, <1>4, <1>5, BuildPublishes

------------------------------------------------------------------------------
\* What is below a modulus is its own remainder.
LEMMA SmallRemainder == ASSUME NEW x \in Nat, NEW n \in Nat, x < n PROVE x % n = x
OBVIOUS

\* The RID of a uidNumber never wraps around, for every base that checkSamba
\* lets through: of a uid and of a base below half of a uint64 the sum is one.
LEMMA RidIsExact ==
  ASSUME NEW c, NEW uid \in Nat, c.samba.base \in Int, 2 * c.samba.base <= Max64,
         c.samba.base = 0 \/ (c.samba.base >= DefaultRidBase /\ c.samba.base % 2 = 0),
         Rid(c, uid) # NoRid
  PROVE  /\ RidBase(c) \in Nat /\ RidBase(c) % 2 = 0
         /\ Rid(c, uid) = uid * 2 + RidBase(c) /\ Rid(c, uid) <= Max32 - 1
<1> DEFINE base == RidBase(c)
           rid == (uid * 2 + base) % (Max64 + 1)
<1>1. Max32 \in Nat /\ Max64 \in Nat /\ DefaultRidBase \in Nat /\ DefaultRidBase % 2 = 0
      /\ 2 * Max32 + DefaultRidBase < Max64 /\ 4 * Max32 <= Max64
  BY ConfigurationAssumption
<1>2. base \in Nat /\ base % 2 = 0 /\ 2 * Max32 + base <= Max64
  BY <1>1 DEF RidBase
<1>3. Rid(c, uid) = IF uid > Max32 \/ rid > Max32 - 1 THEN NoRid ELSE rid
  BY DEF Rid
<1> HIDE DEF base, rid
<1>4. uid <= Max32 /\ rid <= Max32 - 1 /\ Rid(c, uid) = rid
  <2>1. ~ (uid > Max32 \/ rid > Max32 - 1)
    BY <1>3
  <2>2. rid \in Int
    BY <1>1, <1>2 DEF rid
  <2> QED
    BY <1>1, <1>3, <2>1, <2>2
<1>5. uid * 2 + base \in Nat /\ uid * 2 + base < Max64 + 1 /\ Max64 + 1 \in Nat
  BY <1>1, <1>2, <1>4
<1>6. rid = uid * 2 + base
  BY <1>5, SmallRemainder DEF rid
<1> QED
  BY <1>2, <1>4, <1>6 DEF base

\* A published RID is the one of its person's uidNumber.
LEMMA PublishedRid ==
  ASSUME OpensInPlace, SnapshotSubjects, PublishesItsSnapshot, Accepted,
         NEW e \in pub.all, e.rid # NoRid
  PROVE  /\ Subject(e).uid \in Nat /\ RidBase(cfg) \in Nat /\ RidBase(cfg) % 2 = 0
         /\ e.rid = Subject(e).uid * 2 + RidBase(cfg) /\ e.rid <= Max32 - 1
<1> DEFINE p == Subject(e)
<1>1. ~ PublishedGroup(Server, p, e)
  BY Zenon DEF PublishedGroup, OfGroup
<1>2. p \in snap.user \cup snap.person /\ PublishedPerson(Server, p, e)
  BY <1>1, PublishedSubject
<1>3. Server.cfg = cfg
  BY DEF Server
<1> HIDE DEF p
<1>4. PICK skip : e.rid = IF WithSamba(Server, p, skip) /\ "sambaSID" \notin p.attrs
                          THEN Rid(Server.cfg, p.uid) ELSE NoRid
  BY Zenon, <1>2 DEF PublishedPerson, OfPerson
<1>5. e.rid = Rid(cfg, p.uid) /\ WithSamba(Server, p, skip)
  BY Zenon, <1>3, <1>4
<1>6. cfg.ntHash
  BY Zenon, <1>3, <1>5 DEF WithSamba, Hashed
<1>7. CheckSamba(cfg)
  BY PublishedIsServed DEF Check
<1>8. /\ cfg.samba # Unset
      /\ cfg.samba.base = 0 \/ (cfg.samba.base >= DefaultRidBase /\ cfg.samba.base % 2 = 0)
  BY <1>6, <1>7 DEF CheckSamba
<1>9. cfg.samba.base \in Int /\ 2 * cfg.samba.base <= Max64
  <2>1. cfg \in Configurations
    BY Zenon DEF OpensInPlace
  <2> QED
    BY <1>8, <2>1, ConfigurationsAssumption
<1>10. p.uid \in Nat
  BY <1>2 DEF SnapshotSubjects
<1> QED
  BY <1>5, <1>8, <1>9, <1>10, RidIsExact DEF p

\* Two people never share a derived SID unless they share a uidNumber, and the
\* RID is a user's: for every base, uidNumber and limit of the two integer
\* types, and whatever is edited while the server runs (samba.go, sambaSID).
THEOREM SidsStayDistinct == Spec => []SidsAreDistinct
<1>1. OpensInPlace /\ SnapshotSubjects /\ PublishesItsSnapshot /\ Accepted => SidsAreDistinct
  <2> SUFFICES ASSUME OpensInPlace, SnapshotSubjects, PublishesItsSnapshot, Accepted,
                      NEW e \in {d \in pub.all : d.rid # NoRid},
                      NEW f \in {d \in pub.all : d.rid # NoRid}
               PROVE  /\ e.rid = f.rid => Subject(e).uid = Subject(f).uid
                      /\ e.rid \in RidBase(cfg)..(Max32 - 1) /\ e.rid % 2 = 0
    BY DEF SidsAreDistinct
  <2>1. /\ Subject(e).uid \in Nat /\ RidBase(cfg) \in Nat /\ RidBase(cfg) % 2 = 0
        /\ e.rid = Subject(e).uid * 2 + RidBase(cfg) /\ e.rid <= Max32 - 1
    BY PublishedRid
  <2>2. /\ Subject(f).uid \in Nat /\ f.rid = Subject(f).uid * 2 + RidBase(cfg)
    BY PublishedRid
  <2>3. Max32 \in Nat
    BY ConfigurationAssumption
  <2> QED
    BY <2>1, <2>2, <2>3
<1> QED
  BY <1>1, OpensInPlaceInvariant, SnapshotSubjectsInvariant, PublishesInvariant,
     AcceptedForGood, PTL

------------------------------------------------------------------------------
\* Every class of an entry is one authnd derives, or comes with a declared one
\* that startup checked, for any schema and whatever object_classes are
\* written in the file afterwards (declared.go, undeclared).
THEOREM OnlyCheckedAreCarried == Spec => []OnlyCheckedClasses
<1>1. OpensInPlace /\ SchemaHolds /\ SnapshotSubjects /\ PublishesItsSnapshot => OnlyCheckedClasses
  <2> DEFINE checked == {c \in Declarations(cfg) : Declarable(sch, c)}
  <2> SUFFICES ASSUME OpensInPlace, SchemaHolds, SnapshotSubjects, PublishesItsSnapshot,
                      NEW e \in answer
               PROVE  e.classes \subseteq DerivedClasses \cup Chain(sch, checked)
    BY DEF OnlyCheckedClasses
  <2>1. e \in pub.all
    BY DEF PublishesItsSnapshot, Valid
  <2>2. Graph(sch) /\ declared \subseteq checked
    BY DEF SchemaHolds
  <2>3. Server.schema = sch /\ Server.declared = declared
    BY DEF Server
  <2> HIDE DEF checked
  <2>4. ASSUME NEW carried, carried \subseteq declared
        PROVE  Chain(sch, carried) \subseteq Chain(sch, checked)
    <3>1. checked \cap DOMAIN sch.class \subseteq Chain(sch, checked)
      BY <2>2, ChainIsClosure
    <3>2. carried \cap DOMAIN sch.class \subseteq Chain(sch, checked)
      BY <2>2, <2>4, <3>1
    <3> QED
      BY <2>2, <3>2, ChainIsMonotone
  <2>5. \A classes, skip : Carried(Server, classes, skip) \subseteq declared
    BY <2>3 DEF Carried
  <2> DEFINE p == Subject(e)
  <2> HIDE DEF p
  <2>6. CASE PublishedPerson(Server, p, e)
    <3>1. PICK skip : OfPerson(Server, p, skip, e)
      BY Zenon, <2>6 DEF PublishedPerson
    <3>2. /\ e.declared = Carried(Server, p.classes, skip)
          /\ e.classes \subseteq StructureOf(p) \cup (Derivable \ skip) \cup Chain(sch, e.declared)
      BY Zenon, <2>3, <3>1 DEF OfPerson
    <3>3. e.declared \subseteq declared
      BY <2>5, <3>2
    <3>4. Chain(sch, e.declared) \subseteq Chain(sch, checked)
      BY <2>4, <3>3
    <3>5. StructureOf(p) \cup Derivable \subseteq DerivedClasses
      BY DEF StructureOf, Derivable, DerivedClasses
    <3> QED
      BY <3>2, <3>4, <3>5
  <2>7. CASE PublishedGroup(Server, p, e)
    <3>1. PICK skip : OfGroup(Server, p, skip, e)
      BY Zenon, <2>7 DEF PublishedGroup
    <3>2. /\ e.declared = Carried(Server, p.classes, skip)
          /\ e.classes = GroupStructureOf(p) \cup Chain(sch, e.declared)
      BY Zenon, <2>3, <3>1 DEF OfGroup
    <3>3. e.declared \subseteq declared
      BY <2>5, <3>2
    <3>4. Chain(sch, e.declared) \subseteq Chain(sch, checked)
      BY <2>4, <3>3
    <3>5. GroupStructureOf(p) \subseteq DerivedClasses
      BY DEF GroupStructureOf, DerivedClasses
    <3> QED
      BY <3>2, <3>4, <3>5
  <2> QED
    BY <2>1, <2>6, <2>7, PublishedSubject DEF p
<1> QED
  BY <1>1, OpensInPlaceInvariant, SchemaHoldsInvariant, SnapshotSubjectsInvariant,
     PublishesInvariant, PTL

\* An NT hash is published only where it was asked for and cannot be read off
\* the network, with the class and the SID it is of use with: for every
\* configuration, schema and source (config.go, check; samba.go).
THEOREM HashesAreKeptPrivate == Spec => []HashesStayPrivate
<1>1. OpensInPlace /\ ServesFirst /\ SchemaHolds /\ SnapshotSubjects /\ PublishesItsSnapshot
        /\ Accepted => HashesStayPrivate
  <2> SUFFICES ASSUME OpensInPlace, ServesFirst, SchemaHolds, SnapshotSubjects,
                      PublishesItsSnapshot, Accepted, NEW e \in answer,
                      "sambaNTPassword" \in e.attrs \ Subject(e).attrs
               PROVE  /\ cfg.ntHash /\ (TLS(cfg) \/ cfg.loopback)
                      /\ "sambaSamAccount" \in e.classes /\ "sambaSID" \in e.attrs
    BY DEF HashesStayPrivate
  <2> DEFINE p == Subject(e)
  <2>1. e \in pub.all /\ e.invalid = {}
    BY DEF PublishesItsSnapshot, Valid
  <2>2. ~ PublishedGroup(Server, p, e)
    BY DEF PublishedGroup, GroupAttrs
  <2>3. PublishedPerson(Server, p, e)
    BY <2>1, <2>2, PublishedSubject
  <2>4. Server.cfg = cfg /\ Server.schema = sch
    BY DEF Server
  <2>5. "sambaNTPassword" \in e.attrs \ p.attrs
    OBVIOUS
  <2> HIDE DEF p
  <2>6. PICK skip, attrs : /\ OfPerson(Server, p, skip, e) /\ PersonAttrs(Server, p, skip, attrs)
                           /\ e.attrs \subseteq attrs
    BY Zenon, <2>3 DEF PublishedPerson
  <2>7. WithSamba(Server, p, skip)
    <3>1. "sambaNTPassword" \in attrs \ p.attrs
      BY <2>5, <2>6
    <3> QED
      BY Zenon, <2>6, <3>1 DEF PersonAttrs
  <2>8. cfg.ntHash
    BY Zenon, <2>4, <2>7 DEF WithSamba, Hashed
  <2>9. "sambaSamAccount" \in e.classes
    BY Zenon, <2>6, <2>7 DEF OfPerson
  <2>10. CheckTransport(cfg) /\ CheckSamba(cfg)
    <3>1. pub.all # {}
      BY <2>1
    <3> QED
      BY Zenon, <3>1, PublishedIsServed DEF Check
  <2>11. TLS(cfg) \/ cfg.loopback
    BY Zenon, <2>8, <2>10 DEF CheckTransport
  <2>12. cfg.samba # Unset
    BY Zenon, <2>8, <2>10 DEF CheckSamba
  <2>13. e.classes \subseteq DOMAIN sch.class /\ MustTypes(sch, e.classes) \subseteq e.attrs
    <3>1. Problems(sch, e) = {}
      BY <2>1, PublishedVerdicts DEF Fails
    <3> QED
      BY <3>1, NoProblemLeft
  <2>14. "sambaSID" \in sch.class["sambaSamAccount"].must
    <3>1. /\ "sambaSamAccount" \in DOMAIN Base(cfg).defs.class
          /\ "sambaSID" \in Base(cfg).defs.class["sambaSamAccount"].must
      BY <2>12, BaseClasses
    <3>2. sch.class["sambaSamAccount"] = Base(cfg).defs.class["sambaSamAccount"]
      BY <2>9, <2>13, <3>1, BaseIsServed
    <3> QED
      BY <3>1, <3>2
  <2>15. "sambaSamAccount" \in Chain(sch, e.classes)
    <3>1. e.classes \cap DOMAIN sch.class \subseteq Chain(sch, e.classes)
      BY ChainIsClosure DEF SchemaHolds
    <3> QED
      BY <2>9, <2>13, <3>1
  <2>16. "sambaSID" \in e.attrs
    BY <2>13, <2>14, <2>15 DEF MustTypes
  <2> QED
    BY <2>8, <2>9, <2>11, <2>16
<1> QED
  BY <1>1, OpensInPlaceInvariant, ServesFirstInvariant, SchemaHoldsInvariant,
     SnapshotSubjectsInvariant, PublishesInvariant, AcceptedForGood, PTL

\* The classes authnd derives stay structural, whatever a site defines.
LEMMA StructuresStay ==
  ASSUME OpensInPlace, ServesFirst, NEW few, few \subseteq Structures
  PROVE  OfKind(sch, few, "AUXILIARY") = {}
<1> SUFFICES ASSUME NEW c \in few, c \in DOMAIN sch.class, sch.class[c].kind = "AUXILIARY"
             PROVE  FALSE
  BY DEF OfKind
<1>1. c \in DOMAIN Base(cfg).defs.class /\ Base(cfg).defs.class[c].kind = "STRUCTURAL"
  BY BaseClasses
<1>2. sch.class[c] = Base(cfg).defs.class[c]
  BY <1>1, BaseIsServed
<1> QED
  BY <1>1, <1>2

\* Whatever a source gave and an entry does not carry is said, for any schema
\* and any source: a class is left off with the ones below it, and what is
\* dropped is kept note of (entries.go, declared.go).
THEOREM EveryLossIsSaid == Spec => []LossesAreSaid
<1>1. OpensInPlace /\ ServesFirst /\ SchemaHolds /\ SnapshotSubjects /\ PublishesItsSnapshot
        => LossesAreSaid
  <2> SUFFICES ASSUME OpensInPlace, ServesFirst, SchemaHolds, SnapshotSubjects,
                      PublishesItsSnapshot
               PROVE  LossesAreSaid
    OBVIOUS
  <2>1. Server.cfg = cfg /\ Server.schema = sch /\ Server.declared = declared
    BY DEF Server
  <2>2. Graph(Server.schema) /\ \A c \in Server.declared : Declarable(Server.schema, c)
    BY <2>1 DEF SchemaHolds
  <2> DEFINE Said(e, p, off) ==
        /\ p.classes \subseteq e.declared \cup off /\ e.declared \subseteq e.classes
        /\ p.attrs \subseteq e.attrs \cup e.dropped
        /\ \A l \in e.leftOff : l.why # "unchecked" => l.class \notin e.classes
      SaidOfPerson(e, p, off) ==
        /\ p.keys => "sshPublicKey" \in e.attrs \cup e.dropped \/ "ldapPublicKey" \in off
        /\ cfg.ntHash /\ p.nt =>
             \/ "sambaNTPassword" \in e.attrs \cup e.dropped
             \/ e.noSID \/ "sambaSamAccount" \in off
        /\ "posixAccount" \in e.classes \cup off \/ e.missingPosix # {}
  <2>3. ASSUME NEW e, NEW p, PublishedPerson(Server, p, e)
        PROVE  Said(e, p, ClassesOf(e.leftOff)) /\ SaidOfPerson(e, p, ClassesOf(e.leftOff))
    <3>1. OfKind(Server.schema, StructureOf(p), "AUXILIARY") = {}
      <4>1. StructureOf(p) \subseteq Structures
        BY DEF StructureOf, Structures
      <4> QED
        BY <2>1, <4>1, StructuresStay
    <3> QED
      BY Zenon, <2>1, <2>2, <2>3, <3>1, PersonLosesNothingUnsaid
  <2>4. ASSUME NEW e, NEW g, PublishedGroup(Server, g, e)
        PROVE  Said(e, g, ClassesOf(e.leftOff))
    <3>1. OfKind(Server.schema, GroupStructureOf(g), "AUXILIARY") = {}
      <4>1. GroupStructureOf(g) \subseteq Structures
        BY DEF GroupStructureOf, Structures
      <4> QED
        BY <2>1, <4>1, StructuresStay
    <3> QED
      BY Zenon, <2>1, <2>2, <2>4, <3>1, GroupLosesNothingUnsaid
  <2>5. ASSUME NEW e \in pub.all
        PROVE  /\ Said(e, Subject(e), ClassesOf(e.leftOff))
               /\ e.group = FALSE => SaidOfPerson(e, Subject(e), ClassesOf(e.leftOff))
               /\ e.group \in BOOLEAN
    <3> DEFINE p == Subject(e)
    <3>1. \/ e.group = FALSE /\ PublishedPerson(Server, p, e)
          \/ e.group = TRUE /\ PublishedGroup(Server, p, e)
      BY PublishedSubject
    <3> HIDE DEF Said, SaidOfPerson, p
    <3>2. CASE e.group = FALSE /\ PublishedPerson(Server, p, e)
      BY Zenon, <2>3, <3>2 DEF p
    <3>3. CASE e.group = TRUE /\ PublishedGroup(Server, p, e)
      BY Zenon, <2>4, <3>3 DEF p
    <3> QED
      BY <3>1, <3>2, <3>3
  <2> QED
    BY Zenon, <2>5 DEF LossesAreSaid
<1> QED
  BY <1>1, OpensInPlaceInvariant, ServesFirstInvariant, SchemaHoldsInvariant,
     SnapshotSubjectsInvariant, PublishesInvariant, PTL

------------------------------------------------------------------------------
\* The classes that authnd derives for a person beside their structural ones
\* start out auxiliary.
LEMMA BaseDerives ==
  ASSUME NEW c, NEW n \in Derivable, n = "sambaSamAccount" => c.samba # Unset
  PROVE  n \in DOMAIN Base(c).defs.class /\ Base(c).defs.class[n].kind = "AUXILIARY"
<1> DEFINE samba == [sambaSamAccount |-> Class("AUXILIARY", {}, {"uid", "sambaSID"},
                                               {"cn", "sambaNTPassword", "description"})]
           class == Base(c).defs.class
<1>1. Standard.class = StandardClasses /\ SambaDefinitions.class = samba
  BY DEF Standard, SambaDefinitions, Nothing, Kinds
<1>2. class = IF c.samba = Unset THEN StandardClasses ELSE Over(StandardClasses, samba)
  BY <1>1 DEF Base, Joined, Kinds
<1>3. /\ DOMAIN samba = {"sambaSamAccount"} /\ samba["sambaSamAccount"].kind = "AUXILIARY"
      /\ "sambaSamAccount" \notin DOMAIN StandardClasses
  BY DEF Class, StandardClasses
<1>4. \A m \in {"posixAccount", "ldapPublicKey", "uidObject"} :
        m \in DOMAIN StandardClasses /\ StandardClasses[m].kind = "AUXILIARY"
  BY DEF StandardClasses, Class
<1> HIDE DEF samba
<1>5. CASE n = "sambaSamAccount"
  BY <1>2, <1>3, <1>5 DEF Over
<1>6. CASE n # "sambaSamAccount"
  BY <1>2, <1>4, <1>6 DEF Over, Derivable
<1> QED
  BY <1>5, <1>6

\* So a server that publishes derives what is auxiliary, of the schema it
\* serves, and declares nothing else.
LEMMA ServedClassesHold ==
  ASSUME OpensInPlace, ServesFirst, SchemaHolds, Check(cfg), StandAlone(sch)
  PROVE  ClassesHold(Server)
<1>1. Server.cfg = cfg /\ Server.schema = sch /\ Server.declared = declared
  BY DEF Server
<1>2. Graph(sch) /\ \A c \in declared : Declarable(sch, c)
  BY DEF SchemaHolds
<1>3. cfg.ntHash => cfg.samba # Unset
  BY Zenon DEF Check, CheckSamba
<1>4. ASSUME NEW c \in Derivable \cap DOMAIN sch.class, c = "sambaSamAccount" => cfg.ntHash
      PROVE  sch.class[c].kind = "AUXILIARY"
  <2>1. c \in DOMAIN Base(cfg).defs.class /\ Base(cfg).defs.class[c].kind = "AUXILIARY"
    BY <1>3, <1>4, BaseDerives
  <2>2. sch.class[c] = Base(cfg).defs.class[c]
    BY <2>1, BaseIsServed
  <2> QED
    BY <2>1, <2>2
<1> QED
  BY Zenon, <1>1, <1>2, <1>4 DEF ClassesHold

\* The tree that entries are held to is one that startup found for the schema
\* and the configuration the server runs with.
TreeHolds ==
  phase \in {"readers", "tokens", "sources", "serving"} => tree \in CheckStructure(sch, cfg)

\* Nothing changes the schema or the tree once checkStructure has been asked.
LEMMA TreeHoldsInvariant == Spec => []TreeHolds
<1>1. Init => TreeHolds
  BY DEF Init, TreeHolds
<1>2. TreeHolds /\ [Next]_vars => TreeHolds'
  <2> SUFFICES ASSUME TreeHolds, [Next]_vars PROVE TreeHolds'
    OBVIOUS
  <2> DEFINE Later == {"readers", "tokens", "sources", "serving"}
  <2>1. CASE UNCHANGED <<cfg, sch, tree>> /\ (phase' \in Later => phase \in Later)
    BY <2>1 DEF TreeHolds
  <2>2. CASE phase' \notin Later
    BY <2>2 DEF TreeHolds
  <2>3. CASE CheckConfiguration \/ AddDefinitions \/ CheckDeclared
    <3>1. phase' \in {"schema", "refused", "structure"}
      BY <2>3 DEF CheckConfiguration, AddDefinitions, CheckDeclared, Refuse
    <3> QED
      BY <2>2, <3>1
  <2>4. CASE CheckTree
    <3>1. \/ phase' = "refused"
          \/ tree' \in CheckStructure(sch, cfg) /\ UNCHANGED <<sch, cfg>>
      BY <2>4 DEF CheckTree, Refuse
    <3> QED
      BY <2>2, <3>1 DEF TreeHolds
  <2>5. CASE ReadReaders \/ OpenOIDC \/ ReadSources
    BY <2>1, <2>2, <2>5 DEF ReadReaders, OpenOIDC, ReadSources, Refuse
  <2>6. CASE Search \/ Refresh \/ ReloadLocal \/ EditFile \/ ChangeDatabase \/ UNCHANGED vars
    BY <2>1, <2>6 DEF Search, Refresh, ReloadLocal, EditFile, ChangeDatabase, vars, opening
  <2> QED
    BY <2>3, <2>4, <2>5, <2>6 DEF Next
<1> QED
  BY <1>1, <1>2, PTL DEF Spec

\* What startup accepts of a tree refuses no shape of a person or of a group.
LEMMA TreeAdmitsShapes ==
  ASSUME NEW s, NEW c, NEW t \in CheckStructure(s, c), t.rules
  PROVE  /\ ~ RefusedBelow(s, t.people, "uid", PersonShapes)
         /\ ~ RefusedBelow(s, t.groups, "cn", GroupShapes)
<1>1. DOMAIN s.structure # {}
  <2>1. NoTree.rules = FALSE
    BY DEF NoTree
  <2>2. CASE DOMAIN s.structure = {}
    <3>1. t = NoTree
      BY Zenon, <2>2 DEF CheckStructure
    <3> QED
      BY <2>1, <3>1
  <2> QED
    BY <2>2
<1>2. \E u : /\ t = [rules |-> TRUE, people |-> u, groups |-> u]
             /\ ~ RefusedBelow(s, u, "uid", PersonShapes)
             /\ ~ RefusedBelow(s, u, "cn", GroupShapes)
  BY Zenon, <1>1 DEF CheckStructure
<1>3. PICK u : /\ t = [rules |-> TRUE, people |-> u, groups |-> u]
               /\ ~ RefusedBelow(s, u, "uid", PersonShapes)
               /\ ~ RefusedBelow(s, u, "cn", GroupShapes)
  BY Zenon, <1>2
<1>4. t.people = u /\ t.groups = u
  BY <1>3
<1> QED
  BY Zenon, <1>3, <1>4

\* A published entry is built of one person or one group of the snapshot.
LEMMA PublishedIsBuilt ==
  ASSUME PublishesItsSnapshot, NEW e \in pub.all
  PROVE  \/ \E p : e = PlacedAndValidated(Server, PersonBuilt(Server, p))
         \/ \E g : e = PlacedAndValidated(Server, GroupBuilt(Server, g))
<1>1. pub.all = Build(Server, snap.user \cup snap.person, snap.group)
  BY DEF PublishesItsSnapshot, Unbuilt
<1> QED
  BY Zenon, <1>1 DEF Build

\* Where no auxiliary class is below a structural one, as RFC 4512 has it,
\* startup's question about the shapes is the whole question: whatever a person
\* declares, loses or is rebuilt without, no name form refuses their entry, nor
\* a group's (structure.go, checkStructure and governed).
THEOREM NamesHold == Spec => [](StandAlone(sch) => NameFormsHoldAfterStartup)
<1>1. OpensInPlace /\ ServesFirst /\ SchemaHolds /\ PublishesItsSnapshot /\ Accepted /\ TreeHolds
        => (StandAlone(sch) => NameFormsHoldAfterStartup)
  <2> SUFFICES ASSUME OpensInPlace, ServesFirst, SchemaHolds, PublishesItsSnapshot, Accepted,
                      TreeHolds, StandAlone(sch), NEW e \in pub.all
               PROVE  Named(e.invalid, "NameFormViolation") = {}
    BY DEF NameFormsHoldAfterStartup
  <2>1. phase = "serving" /\ Check(cfg)
    <3>1. pub.all # {}
      OBVIOUS
    <3> QED
      BY Zenon, <3>1, PublishedIsServed
  <2>2. ClassesHold(Server)
    BY <2>1, ServedClassesHold
  <2>3. Server.schema = sch /\ Server.tree = tree
    BY DEF Server
  <2>4. tree.rules => /\ ~ RefusedBelow(sch, tree.people, "uid", PersonShapes)
                      /\ ~ RefusedBelow(sch, tree.groups, "cn", GroupShapes)
    <3>1. tree \in CheckStructure(sch, cfg)
      BY <2>1 DEF TreeHolds
    <3> QED
      BY Zenon, <3>1, TreeAdmitsShapes
  <2>5. ASSUME NEW p, e = PlacedAndValidated(Server, PersonBuilt(Server, p))
        PROVE  Named(e.invalid, "NameFormViolation") = {}
    BY Zenon, <2>2, <2>3, <2>4, <2>5, PersonIsPlaced
  <2>6. ASSUME NEW g, e = PlacedAndValidated(Server, GroupBuilt(Server, g))
        PROVE  Named(e.invalid, "NameFormViolation") = {}
    BY Zenon, <2>2, <2>3, <2>4, <2>6, GroupIsPlaced
  <2> QED
    BY Zenon, <2>5, <2>6, PublishedIsBuilt
<1> QED
  BY <1>1, OpensInPlaceInvariant, ServesFirstInvariant, SchemaHoldsInvariant,
     PublishesInvariant, AcceptedForGood, TreeHoldsInvariant, PTL

\* Under the same condition nobody loses a class for another class's trouble:
\* what an entry is published without, it would fail with, however the second
\* build changed what the first one was judged by (declared.go, unmet).
THEOREM ClassesGoForCause == Spec => [](StandAlone(sch) => LeftOffForCause)
<1>1. OpensInPlace /\ ServesFirst /\ SchemaHolds /\ PublishesItsSnapshot /\ Accepted
        => (StandAlone(sch) => LeftOffForCause)
  <2> SUFFICES ASSUME OpensInPlace, ServesFirst, SchemaHolds, PublishesItsSnapshot, Accepted,
                      StandAlone(sch), NEW e \in pub.all, NEW l \in e.leftOff,
                      l.why # "unchecked"
               PROVE  Fails([e EXCEPT !.classes = @ \cup Chain(sch, {l.class})])
    BY DEF LeftOffForCause, Valid
  <2> DEFINE x == [e EXCEPT !.classes = @ \cup Chain(sch, {l.class})]
  <2>1. Check(cfg)
    <3>1. pub.all # {}
      OBVIOUS
    <3> QED
      BY Zenon, <3>1, PublishedIsServed
  <2>2. ClassesHold(Server)
    BY <2>1, ServedClassesHold
  <2>3. x = [e EXCEPT !.classes = @ \cup Chain(Server.schema, {l.class})] /\ Server.schema = sch
    BY DEF Server
  <2> HIDE DEF x
  <2>4. ASSUME NEW p, e = PlacedAndValidated(Server, PersonBuilt(Server, p))
        PROVE  Problems(Server.schema, x) # {}
    BY Zenon, <2>2, <2>3, <2>4, PersonLeftOffForCause
  <2>5. ASSUME NEW g, e = PlacedAndValidated(Server, GroupBuilt(Server, g))
        PROVE  Problems(Server.schema, x) # {}
    BY Zenon, <2>2, <2>3, <2>5, GroupLeftOffForCause
  <2>6. Problems(sch, x) # {}
    BY Zenon, <2>3, <2>4, <2>5, PublishedIsBuilt
  <2> QED
    BY Zenon, <2>6 DEF Fails, x
<1> QED
  BY <1>1, OpensInPlaceInvariant, ServesFirstInvariant, SchemaHoldsInvariant,
     PublishesInvariant, AcceptedForGood, PTL
=============================================================================
