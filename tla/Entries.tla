------------------------------- MODULE Entries -------------------------------
(***************************************************************************)
(* The entries authnd publishes (entries.go, declared.go, structure.go,    *)
(* samba.go): built from what the sources say of a person or a group, with *)
(* the classes that can be justified, and held to the schema it serves.    *)
(*                                                                         *)
(* s is the server: [cfg, schema, declared, tree].  A person is [name,     *)
(* attrs, bad, uid, keys, nt, classes, large] and a group [name, attrs,    *)
(* bad, members, classes, missing, large]: attrs are the attributes their  *)
(* source gave, bad the ones with a value their syntax does not allow, uid *)
(* the value of uidNumber, classes the object classes the source declares. *)
(* The order of classes and attributes, the options of an attribute and    *)
(* the wording of a reason are left out.                                   *)
(***************************************************************************)
EXTENDS SchemaRules, Configuration

DerivedClasses ==
  {"top", "account", "person", "organizationalPerson", "inetOrgPerson",
   "posixAccount", "ldapPublicKey", "sambaSamAccount", "uidObject", "posixGroup",
   "groupOfNames", "organizationalRole"}

Declarable(sch, c) ==
  c \notin DerivedClasses /\ c \in OfKind(sch, DOMAIN sch.class, "AUXILIARY")

CarriedUnchecked(s, declared, skip) ==                               \* mutant
  {c \in declared \cap DOMAIN s.schema.class : Chain(s.schema, {c}) \cap skip = {}}

\* The declared classes that are published: the checked ones, but not with a
\* class or a superclass that is skipped.
Carried(s, declared, skip) ==
  {c \in declared \cap s.declared : Chain(s.schema, {c}) \cap skip = {}}

WithDeclared(s, classes, declared, skip) ==
  classes \cup Chain(s.schema, Carried(s, declared, skip))

\* Left off for a reason: "rule" (a content rule), "superior" (a superclass
\* left off by one), "must", or "unchecked".
LeftOff(why, classes) == {[class |-> c, why |-> why] : c \in classes}
Undeclared(s, declared) == LeftOff("unchecked", declared \ s.declared)

Allows(s, classes, a) ==
  a \in MustTypes(s.schema, classes) \cup MayTypes(s.schema, classes)

------------------------------------------------------------------------------
(***************************************************************************)
(* One entry, before it is held to anything.  skip are the classes it must *)
(* be published without.                                                   *)
(***************************************************************************)
Entry(name, rdn, group, classes, attrs) ==
  [name |-> name, rdn |-> rdn, group |-> group, classes |-> classes, attrs |-> attrs,
   bad |-> {}, given |-> {}, large |-> FALSE, rid |-> NoRid,
   missingPosix |-> {}, noSID |-> FALSE, declared |-> {}, leftOff |-> {},
   dropped |-> {}, checked |-> FALSE, checkedErr |-> {}, invalid |-> {}]

\* sambaSID: the person's own, or the one of their uidNumber.
HasSID(s, p) ==
  \/ "sambaSID" \in p.attrs
  \/ "uidNumber" \in p.attrs /\ p.uid <= Max64 /\ Rid(s.cfg, p.uid) # NoRid

PersonEntry(s, p, skip) ==
  LET structural == IF "sn" \in p.attrs
                    THEN {"person", "organizationalPerson", "inetOrgPerson"}
                    ELSE {"account"}
      keys == p.keys /\ "ldapPublicKey" \notin skip
      hash == s.cfg.ntHash /\ "sambaSamAccount" \notin skip /\ p.nt
      samba == hash /\ HasSID(s, p)
      mapped == samba /\ "sambaSID" \notin p.attrs
      auxiliary == {c \in {"posixAccount", "ldapPublicKey", "sambaSamAccount", "uidObject"} \ skip :
                      CASE c = "posixAccount" -> PosixMust \subseteq p.attrs
                        [] c = "ldapPublicKey" -> keys
                        [] c = "sambaSamAccount" -> samba
                        [] OTHER -> TRUE}
      classes == WithDeclared(s, structural \cup auxiliary, p.classes, skip)
      attrs == {"uid"} \cup p.attrs
               \cup {a \in {"cn"} : Allows(s, classes, a)}
               \cup {a \in {"sambaSID", "sambaNTPassword"} : samba}
               \cup {a \in {"sshPublicKey"} : keys}
  IN [Entry(p.name, "uid", FALSE, classes, attrs) EXCEPT
        !.bad = p.bad, !.given = p.attrs, !.large = p.large,
        !.rid = IF mapped THEN Rid(s.cfg, p.uid) ELSE NoRid,
        !.missingPosix = PosixMust \ p.attrs,
        !.noSID = hash /\ ~samba,
        !.declared = Carried(s, p.classes, skip),
        !.leftOff = Undeclared(s, p.classes)]

GroupEntryFrom(s, g, skip) ==
  LET class == IF "gidNumber" \in g.attrs THEN "posixGroup"
               ELSE IF g.members THEN "groupOfNames" ELSE "organizationalRole"
      members == IF ~g.members THEN {}
                 ELSE IF class = "posixGroup" THEN {"memberUid"} ELSE {"member"}
      classes == WithDeclared(s, {class}, g.classes, skip)
  IN [Entry(g.name, "cn", TRUE, classes, {"cn"} \cup g.attrs \cup members) EXCEPT
        !.bad = g.bad, !.given = g.attrs, !.large = g.large,
        !.declared = Carried(s, g.classes, skip),
        !.leftOff = Undeclared(s, g.classes)]

------------------------------------------------------------------------------
(***************************************************************************)
(* Held to the schema.  Validate is asked once for each state of an entry. *)
(***************************************************************************)
Asked(s, e) ==
  IF e.checked THEN e
  ELSE [e EXCEPT !.checked = TRUE, !.checkedErr = Problems(s.schema, e)]

BelowNothing(s, e, ruled) == {}                                      \* mutant

\* The declared classes that go with a superclass no content rule allows.
Below(s, e, ruled) == {c \in e.declared \ ruled : Above(s.schema, c) \cap ruled # {}}

ShortTogether(s, e, missing) ==                                      \* mutant
  IF MustTypes(s.schema, e.declared) \cap missing # {} THEN e.declared ELSE {}

\* The declared classes with a MUST the entry does not have.
Short(s, e, missing) == {c \in e.declared : MustTypes(s.schema, {c}) \cap missing # {}}

\* Of an entry that was asked: the classes to leave off, with why.
Unmet(s, e) ==
  LET ruled == Named(e.checkedErr, "AuxiliaryNotAllowed")
      below == Below(s, e, ruled)
      short == Short(s, e, Named(e.checkedErr, "MissingRequired")) \ (ruled \cup below)
  IN LeftOff("rule", ruled) \cup LeftOff("superior", below) \cup LeftOff("must", short)

ClassesOf(off) == {l.class : l \in off}

\* What a source gave and no class allows, and what a content rule precludes
\* whoever gave it.
ToDrop(e) ==
  ((Named(e.checkedErr, "NotAllowed") \cup Named(e.checkedErr, "UnknownAttribute"))
     \cap e.given)
  \cup Named(e.checkedErr, "Precluded")

WithoutAsking(s, e, drop) ==                                         \* mutant
  [e EXCEPT !.attrs = @ \ drop, !.dropped = drop,
            !.checkedErr = {p \in @ : drop = {}}]
WithoutStale(s, e, drop) ==                                          \* mutant
  Asked(s, [e EXCEPT !.attrs = @ \ drop, !.dropped = drop])

\* The attributes changed: ask again.
Without(s, e, drop) ==
  Asked(s, [e EXCEPT !.attrs = @ \ drop, !.dropped = drop, !.checked = (drop = {})])

Validated(s, e) ==
  LET asked == Asked(s, e)
      kept == Without(s, asked, ToDrop(asked))
  IN [kept EXCEPT !.invalid = kept.checkedErr]

Placed(s, e) ==
  IF e.invalid # {} \/ ~s.tree.rules THEN e
  ELSE [e EXCEPT !.invalid =
          Misplaced(s.schema, e, IF e.group THEN s.tree.groups ELSE s.tree.people)]

\* An entry past maxEntryBytes cannot be sent.
Sized(e) ==
  IF e.invalid # {} \/ ~e.large THEN e
  ELSE [e EXCEPT !.invalid = Problem("TooLarge", {e.rdn})]

PlacedAndValidated(s, e) == Sized(Placed(s, Validated(s, e)))

\* An entry that cannot carry a class is built again without it, once.
PersonBuilt(s, p) ==
  LET e == Asked(s, PersonEntry(s, p, {}))
      off == Unmet(s, e)
  IN IF off = {} THEN e
     ELSE [PersonEntry(s, p, ClassesOf(off)) EXCEPT !.leftOff = @ \cup off]

GroupBuilt(s, g) ==
  LET e == Asked(s, GroupEntryFrom(s, g, {}))
      off == Unmet(s, e)
  IN IF off = {} THEN e
     ELSE [GroupEntryFrom(s, g, ClassesOf(off)) EXCEPT !.leftOff = @ \cup off]

Build(s, people, groups) ==
  {PlacedAndValidated(s, PersonBuilt(s, p)) : p \in people}
  \cup {PlacedAndValidated(s, GroupBuilt(s, g)) : g \in {h \in groups : ~h.missing}}

Valid(pub) == {e \in pub : e.invalid = {}}

------------------------------------------------------------------------------
(***************************************************************************)
(* checkStructure: the tree that the configuration names, against the      *)
(* structure rules.                                                        *)
(***************************************************************************)
NoTree == [rules |-> FALSE, people |-> Root, groups |-> Root]

\* containerClass, by the attribute of the suffix; o, c and l are like dc.
ContainerClass == [dc |-> "domain", ou |-> "organizationalUnit"]
OnlyAccounts == {{"account"}}                                        \* mutant
PersonShapes == {{"account"}, {"person", "organizationalPerson", "inetOrgPerson"}}
GroupShapes == {{"posixGroup"}, {"groupOfNames"}, {"organizationalRole"}}

Container(rdn, class) == [classes |-> {class}, rdn |-> rdn]

\* The rule of a container, and of none when no rule places it there.
RuleOf(sch, container, superior) ==
  LET governing == Governing(sch, container, superior)
  IN IF governing = {} THEN {} ELSE {CHOOSE i \in governing : TRUE}

\* What is refused of the entries under a container governed by rule.
RefusedBelow(sch, rule, rdn, shapes) ==
  LET refusals == {Misplaced(sch, [classes |-> h, rdn |-> rdn], rule) : h \in shapes}
      refused == Problem("NameFormViolation", {rdn})
  IN refused \in refusals \/ {} \notin refusals

\* The rules of the two containers in one tree, or none: a refusal.
CheckStructure(sch, cfg) ==
  LET roots == IF cfg.suffix \in DOMAIN ContainerClass
               THEN RuleOf(sch, Container(cfg.suffix, ContainerClass[cfg.suffix]), Root)
               ELSE {}
      units == UNION {RuleOf(sch, Container("ou", "organizationalUnit"), r) : r \in roots}
  IN IF DOMAIN sch.structure = {} THEN {NoTree}
     ELSE {[rules |-> TRUE, people |-> u, groups |-> u] :
             u \in {v \in units : /\ ~RefusedBelow(sch, v, "uid", PersonShapes)
                                  /\ ~RefusedBelow(sch, v, "cn", GroupShapes)}}
=============================================================================
