------------------------------- MODULE Opening -------------------------------
(***************************************************************************)
(* open (server.go): the steps between a configuration and a directory     *)
(* that answers, each of which may refuse to start, and what searches are  *)
(* then answered from, through refreshes and password changes.             *)
(*                                                                         *)
(* The configuration file holds one person; a database that a users block  *)
(* names holds another, and a group.  The file is edited on disk while the *)
(* server runs: a password change reads its user blocks again (reloadLocal) *)
(* and nothing else of it.  How refreshes and password changes interleave  *)
(* is Directory's subject; here each is one step.                          *)
(***************************************************************************)
EXTENDS Entries, Sequences

CONSTANTS
  Configurations,   \* what check reads: see Configuration, and
                    \*   user, declares, groupDeclares, files, blocks, oidc
  Databases,        \* [person, group] a database may hold
  Rewrites,         \* the object_classes somebody may write in the user block
  MaxChanges        \* bound on the changes of the file and of the database

Persons ==
  [name : STRING, attrs : SUBSET STRING, bad : SUBSET STRING, uid : Nat,
   keys : BOOLEAN, nt : BOOLEAN, classes : SUBSET STRING, large : BOOLEAN]

\* A list of files or blocks, each with the definitions of every kind it has.
IsListOfSources(list) ==
  /\ list \in Seq({list[i] : i \in DOMAIN list})
  /\ \A i \in DOMAIN list : /\ DOMAIN list[i].defs = Kinds
                             /\ IsFiniteSet(DOMAIN list[i].defs.class)

\* A period and an age are durations, or left out; a RID base is an int, of
\* which the largest is half a uint64.  Two sources that both have a name are
\* read as one person, the first source's (Directory, Merge), so the database
\* here has other names than the file.
ASSUME ConfigurationsAssumption ==
  /\ \A c \in Configurations :
       /\ {c.refresh, c.maxAge} \subseteq Int \cup {Unset}
       /\ c.samba # Unset => c.samba.base \in Int /\ 2 * c.samba.base <= Max64
       /\ c.user \in Persons
       /\ IsListOfSources(c.files) /\ IsListOfSources(c.blocks)
       /\ \A d \in Databases : c.user.name # d.person.name
  /\ \A d \in Databases : d.person \in Persons
  /\ MaxChanges \in Nat

VARIABLES
  cfg,              \* s.cfg
  phase,            \* which step of open is next
  loaded,           \* how many schema files and blocks were read
  sch, owner,       \* the schema so far; [kind, name] -> where it was defined
  refusal,          \* why startup was refused
  declared, tree,   \* s.declared, s.tree
  file,             \* the user block on disk
  db,               \* what the database holds
  changes,          \* how often either was changed
  snap,             \* s.snap: [user, person, group]
  pub,              \* [built, all]: what snap publishes, once asked for
  answer            \* what a search of snap returned

opening == <<phase, loaded, sch, owner, refusal, declared, tree>>
outside == <<file, db, changes>>
serving == <<snap, pub, answer>>
vars == <<cfg, opening, outside, serving>>

------------------------------------------------------------------------------
(* Where definitions come from: a source is [where, readable, defs]. *)

SambaDefinitions ==
  [Nothing EXCEPT
     !.class = [sambaSamAccount |-> Class("AUXILIARY", {}, {"uid", "sambaSID"},
                                          {"cn", "sambaNTPassword", "description"})],
     !.type = Types({"sambaSID", "sambaNTPassword"})]

Base(c) ==
  [where |-> "standard", readable |-> TRUE,
   defs |-> IF c.samba = Unset THEN Standard ELSE Joined(Standard, SambaDefinitions)]

\* schema_files, then the schema blocks.
Additions(c) == c.files \o c.blocks

OwningOnly(o, f) == [k \in Keys(f.defs) |-> f.where]                 \* mutant
Owning(o, f) == Over([k \in Keys(f.defs) |-> f.where], o)

NoRefusal == [why |-> "none", key |-> <<"", "">>, first |-> "", same |-> FALSE]
Refused(why) == [NoRefusal EXCEPT !.why = why]
RedefinedByItself(o, f, k) ==                                        \* mutant
  [why |-> "redefined", key |-> k, first |-> Owning(o, f)[k],
   same |-> sch[k[1]][k[2]] = f.defs[k[1]][k[2]]]

Redefined(o, f, k) ==
  [why |-> "redefined", key |-> k, first |-> o[k],
   same |-> sch[k[1]][k[2]] = f.defs[k[1]][k[2]]]

------------------------------------------------------------------------------
Server == [cfg |-> cfg, schema |-> sch, declared |-> declared, tree |-> tree]

Unbuilt == [built |-> FALSE, all |-> {}]
NoSnapshot == [user |-> {}, person |-> {}, group |-> {}]

Init ==
  /\ cfg \in Configurations /\ db \in Databases
  /\ file = cfg.user /\ changes = 0
  /\ phase = "check" /\ loaded = 0 /\ refusal = NoRefusal
  /\ sch = Nothing /\ owner = <<>>
  /\ declared = {} /\ tree = NoTree
  /\ snap = NoSnapshot /\ pub = Unbuilt /\ answer = {}

Refuse(r) ==
  /\ phase' = "refused" /\ refusal' = r
  /\ UNCHANGED <<loaded, sch, owner, declared, tree>>

\* config.check, then the standard schema.
CheckConfiguration ==
  /\ phase = "check"
  /\ IF Check(cfg)
     THEN /\ phase' = "schema" /\ sch' = Base(cfg).defs
          /\ owner' = Owning(<<>>, Base(cfg))
          /\ UNCHANGED <<loaded, refusal, declared, tree>>
     ELSE Refuse(Refused("configuration"))
  /\ UNCHANGED <<cfg, outside, serving>>

\* One more file or block, with those before it.
AddDefinitions ==
  /\ phase = "schema" /\ loaded < Len(Additions(cfg))
  /\ LET f == Additions(cfg)[loaded + 1]
         twice == Keys(sch) \cap Keys(f.defs)
     IN \/ ~f.readable /\ Refuse(Refused("unreadable"))
        \/ f.readable /\ \E k \in twice : Refuse(Redefined(owner, f, k))
        \/ /\ f.readable /\ twice = {} /\ ~Builds(Joined(sch, f.defs))
           /\ Refuse(Refused("does not build"))
        \/ /\ f.readable /\ twice = {} /\ Builds(Joined(sch, f.defs))
           /\ sch' = Joined(sch, f.defs) /\ owner' = Owning(owner, f)
           /\ loaded' = loaded + 1
           /\ UNCHANGED <<phase, refusal, declared, tree>>
  /\ UNCHANGED <<cfg, outside, serving>>

\* Every object_classes and group_object_classes of the configuration.
Declarations(c) == c.user.classes \cup c.declares \cup c.groupDeclares

CheckDeclared ==
  /\ phase = "schema" /\ loaded = Len(Additions(cfg))
  /\ IF \A c \in Declarations(cfg) : Declarable(sch, c)
     THEN /\ declared' = Declarations(cfg) /\ phase' = "structure"
          /\ UNCHANGED <<loaded, sch, owner, refusal, tree>>
     ELSE Refuse(Refused("declared"))
  /\ UNCHANGED <<cfg, outside, serving>>

CheckTree ==
  /\ phase = "structure"
  /\ \/ \E t \in CheckStructure(sch, cfg) :
          /\ tree' = t /\ phase' = "readers"
          /\ UNCHANGED <<loaded, sch, owner, refusal, declared>>
     \/ CheckStructure(sch, cfg) = {} /\ Refuse(Refused("structure"))
  /\ UNCHANGED <<cfg, outside, serving>>

\* A reader's password file may be missing, or their code's secret too short.
ReadReaders ==
  /\ phase = "readers"
  /\ \/ phase' = "tokens" /\ UNCHANGED <<loaded, sch, owner, refusal, declared, tree>>
     \/ Refuse(Refused("readers"))
  /\ UNCHANGED <<cfg, outside, serving>>

\* The issuer is asked here; it may not answer.
OpenOIDC ==
  /\ phase = "tokens"
  /\ \/ /\ cfg.oidc # Unset => CheckDomains(cfg.oidc)
        /\ phase' = "sources"
        /\ UNCHANGED <<loaded, sch, owner, refusal, declared, tree>>
     \/ cfg.oidc # Unset /\ Refuse(Refused("oidc"))
  /\ UNCHANGED <<cfg, outside, serving>>

\* What the users block hands out: its people and groups, with the classes
\* it declares for them.
Handed(d) ==
  [person |-> {[d.person EXCEPT !.classes = cfg.declares]},
   group |-> {[d.group EXCEPT !.classes = cfg.groupDeclares]}]

\* A source that fails, or does not answer in time, refuses startup too.
ReadSources ==
  /\ phase = "sources"
  /\ \/ /\ snap' = [user |-> {file}, person |-> Handed(db).person,
                     group |-> Handed(db).group]
        /\ phase' = "serving"
        /\ UNCHANGED <<loaded, sch, owner, refusal, declared, tree>>
     \/ Refuse(Refused("sources")) /\ UNCHANGED snap
  /\ UNCHANGED <<cfg, outside, pub, answer>>

------------------------------------------------------------------------------
(* The server runs. *)

\* A reader's search, from the one snapshot it loads.
Search ==
  /\ phase = "serving"
  /\ pub' = IF pub.built THEN pub
            ELSE [built |-> TRUE,
                  all |-> Build(Server, snap.user \cup snap.person, snap.group)]
  /\ answer' = Valid(pub'.all)
  /\ UNCHANGED <<cfg, opening, outside, snap>>

\* Every source is read again; the local one is the live one.
Refresh ==
  /\ phase = "serving"
  /\ snap' = [snap EXCEPT !.person = Handed(db).person, !.group = Handed(db).group]
  /\ pub' = Unbuilt /\ answer' = {}
  /\ UNCHANGED <<cfg, opening, outside>>

\* A password change was written: the user blocks are read from the file.
ReloadLocal ==
  /\ phase = "serving"
  /\ snap' = [snap EXCEPT !.user = {file}]
  /\ pub' = Unbuilt /\ answer' = {}
  /\ UNCHANGED <<cfg, opening, outside>>

EditFile ==
  /\ phase = "serving" /\ changes < MaxChanges /\ changes' = changes + 1
  /\ \E classes \in Rewrites \ {file.classes} : file' = [file EXCEPT !.classes = classes]
  /\ UNCHANGED <<cfg, opening, db, serving>>

ChangeDatabase ==
  /\ phase = "serving" /\ changes < MaxChanges /\ changes' = changes + 1
  /\ db' \in Databases \ {db}
  /\ UNCHANGED <<cfg, opening, file, serving>>

Next ==
  \/ CheckConfiguration \/ AddDefinitions \/ CheckDeclared \/ CheckTree \/ ReadReaders
  \/ OpenOIDC \/ ReadSources \/ Search \/ Refresh \/ ReloadLocal \/ EditFile \/ ChangeDatabase

Spec == Init /\ [][Next]_vars

------------------------------------------------------------------------------
(***************************************************************************)
(* Properties.                                                             *)
(***************************************************************************)
Phases == {"check", "schema", "structure", "readers", "tokens", "sources", "serving",
           "refused"}

\* The types of the variables: every definition read has an owner, nothing
\* is declared but what the configuration declares, and a search answers
\* from what its snapshot publishes.
TypeOK ==
  /\ db \in Databases
  /\ file \in {[cfg.user EXCEPT !.classes = c] : c \in Rewrites \cup {cfg.user.classes}}
  /\ phase \in Phases /\ loaded \in 0..Len(Additions(cfg)) /\ changes \in 0..MaxChanges
  /\ DOMAIN sch = Kinds /\ DOMAIN owner = Keys(sch)
  /\ declared \subseteq Declarations(cfg) /\ tree.rules \in BOOLEAN
  /\ pub.built \in BOOLEAN /\ answer \subseteq pub.all
  /\ phase # "serving" => snap = NoSnapshot

\* Who an entry is about, as the snapshot has them.
Subject(e) ==
  CHOOSE p \in IF e.group THEN snap.group ELSE snap.user \cup snap.person :
    p.name = e.name

Fails(e) ==
  \/ Problems(sch, e) # {} \/ e.large
  \/ tree.rules /\ Misplaced(sch, e, IF e.group THEN tree.groups ELSE tree.people) # {}

\* Every entry a search returns passes, as it is returned, everything the
\* schema served says of it -- whatever was left off, rebuilt or dropped on
\* the way, and after a refresh or a password change (entries.go, validated).
PublishedPasses == \A e \in answer : ~Fails(e)

\* Nobody is kept back on a verdict about an entry they no longer are: what
\* is withheld fails as it stands, after the attributes that could be
\* dropped were dropped (validated: e.checked = false).
WithheldFails == \A e \in pub.all \ Valid(pub.all) : Fails(e)

\* Whatever a source gave and an entry does not carry is said: a declared
\* class, an attribute, the keys, the NT hash, posixAccount.  And no class is
\* said to be left off that the entry carries (entries.go: "problems are
\* said ... and nothing is changed silently").  A class that was never
\* checked is said too, though it may come in as another one's superclass.
LossesAreSaid ==
  \A e \in pub.all :
    LET p == Subject(e)
        off == ClassesOf(e.leftOff)
    IN /\ p.classes \subseteq e.declared \cup off /\ e.declared \subseteq e.classes
       /\ p.attrs \subseteq e.attrs \cup e.dropped
       /\ \A l \in e.leftOff : l.why # "unchecked" => l.class \notin e.classes
       /\ ~e.group =>
            /\ p.keys => "sshPublicKey" \in e.attrs \cup e.dropped \/ "ldapPublicKey" \in off
            /\ cfg.ntHash /\ p.nt =>
                 \/ "sambaNTPassword" \in e.attrs \cup e.dropped
                 \/ e.noSID \/ "sambaSamAccount" \in off
            /\ "posixAccount" \in e.classes \cup off \/ e.missingPosix # {}

\* A class is left off a published entry only when the entry would fail with
\* it: nobody loses a class for another class's trouble (declared.go, unmet,
\* which decides on the first build what the second is built without).
LeftOffForCause ==
  \A e \in Valid(pub.all) : \A l \in {m \in e.leftOff : m.why # "unchecked"} :
    Fails([e EXCEPT !.classes = @ \cup Chain(sch, {l.class})])

\* After a password change brought in the object_classes somebody wrote in
\* the file meanwhile, an entry still carries no class but the ones authnd
\* derives and the ones checkDeclared saw, with their superclasses
\* (declared.go, undeclared: left off "rather than published unchecked").
OnlyCheckedClasses ==
  \A e \in answer :
    e.classes \subseteq DerivedClasses \cup Chain(sch, {c \in Declarations(cfg) : Declarable(sch, c)})

\* Two people with the same derived sambaSID have the same uidNumber, and the
\* RID is one that Samba maps back to a user: no uidNumber wraps around
\* (samba.go, sambaSID).
SidsAreDistinct ==
  \A e, f \in {d \in pub.all : d.rid # NoRid} :
    /\ e.rid = f.rid => Subject(e).uid = Subject(f).uid
    /\ e.rid \in RidBase(cfg)..(Max32 - 1) /\ e.rid % 2 = 0

\* An NT hash that no source gave as an attribute is published only where the
\* configuration asked for it and no network carries it in the clear, and
\* always with the class and the SID that make it usable (config.go, check;
\* samba.go).
HashesStayPrivate ==
  \A e \in answer : "sambaNTPassword" \in e.attrs \ Subject(e).attrs =>
    /\ cfg.ntHash /\ (TLS(cfg) \/ cfg.loopback)
    /\ "sambaSamAccount" \in e.classes /\ "sambaSID" \in e.attrs

\* What startup holds the tree to covers every shape an entry may take: a
\* name form refuses no entry of a server that started (structure.go:
\* the names authnd chooses are configuration, and refused at startup).
NameFormsHoldAfterStartup ==
  \A e \in pub.all : Named(e.invalid, "NameFormViolation") = {}

\* Every definition served is the first that any file or block gives, owned
\* by the file that gave it, and a redefinition is refused with that file's
\* name and whether the two say the same (siteschema.go, refusal).
Places == <<Base(cfg)>> \o Additions(cfg)
FirstPlace(k) ==
  LET defines == {i \in 1..Len(Places) : k \in Keys(Places[i].defs)}
  IN Places[CHOOSE i \in defines : \A j \in defines : i <= j]
ServedAsFirstDefined ==
  /\ \A k \in Keys(sch) :
       /\ owner[k] = FirstPlace(k).where
       /\ sch[k[1]][k[2]] = FirstPlace(k).defs[k[1]][k[2]]
  /\ refusal.why = "redefined" =>
       LET k == refusal.key
           again == Additions(cfg)[loaded + 1]
       IN /\ refusal.first = FirstPlace(k).where
          /\ refusal.same <=> again.defs[k[1]][k[2]] = FirstPlace(k).defs[k[1]][k[2]]

\* Data never counts as too old before the next refresh could replace it, and
\* an age limit is off only where somebody turned it or the refresh off
\* (refresh.go, maxAge: "the data would always be too old").
AgeOutlastsRefresh ==
  phase = "serving" /\ RefreshEvery(cfg) > 0 =>
    IF MaxAge(cfg) = 0 THEN cfg.maxAge = 0 ELSE MaxAge(cfg) >= RefreshEvery(cfg)

\* README.md:363 says of a declared class that "a person (or group) missing a
\* MUST of a declared class is published without that class": so nobody is
\* withheld for MUSTs that only their declared classes have.
AMissingMustKeepsThePerson ==
  \A e \in pub.all \ Valid(pub.all) :
    LET others == e.classes \ UNION {Chain(sch, {c}) : c \in e.declared}
        required == MustTypes(sch, others) \cup ContentRuleOf(sch, e.classes).must
    IN \E p \in e.invalid : p.kind # "MissingRequired" \/ p.of \in required
=============================================================================
