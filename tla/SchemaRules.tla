----------------------------- MODULE SchemaRules -----------------------------
(***************************************************************************)
(* What authnd asks of go-authn/ldap's package schema: the standard        *)
(* definitions it publishes with, whether a set of definitions builds      *)
(* (BuildFrom), what Validate says of an entry, and which DIT structure    *)
(* rule governs one.  The library is not in this repository; it is         *)
(* modelled from how entries.go, declared.go, structure.go and their tests *)
(* use it.                                                                 *)
(*                                                                         *)
(* A schema maps each kind of definition to the definitions of that kind   *)
(* by name.  An OID and the other names of a definition stand for the same *)
(* name here.  "top" is above every class and is left out, and so is the   *)
(* attribute objectClass, which every entry has.                           *)
(***************************************************************************)
EXTENDS Integers, FiniteSets

Kinds == {"class", "type", "content", "structure"}
Nothing == [k \in Kinds |-> <<>>]

\* f, and what it leaves open as g has it.
Over(f, g) == [x \in DOMAIN f \cup DOMAIN g |-> IF x \in DOMAIN f THEN f[x] ELSE g[x]]

\* The definitions of a, and those of b that a does not have.
Joined(a, b) == [k \in Kinds |-> Over(a[k], b[k])]
Keys(s) == UNION {{k} \X DOMAIN s[k] : k \in Kinds}

Class(kind, sup, must, may) ==
  [kind |-> kind, sup |-> sup, must |-> must, may |-> may]
Types(names) == [a \in names |-> "attribute type"]

PosixMust == {"uidNumber", "gidNumber", "homeDirectory"}

StandardClasses ==
  [account              |-> Class("STRUCTURAL", {}, {"uid"}, {"description"}),
   person               |-> Class("STRUCTURAL", {}, {"sn", "cn"}, {"description"}),
   organizationalPerson |-> Class("STRUCTURAL", {"person"}, {}, {}),
   inetOrgPerson        |-> Class("STRUCTURAL", {"organizationalPerson"}, {}, {"uid", "mail"}),
   posixAccount         |-> Class("AUXILIARY", {}, {"cn", "uid"} \cup PosixMust, {"description"}),
   ldapPublicKey        |-> Class("AUXILIARY", {}, {}, {"sshPublicKey", "uid"}),
   uidObject            |-> Class("AUXILIARY", {}, {"uid"}, {}),
   posixGroup           |-> Class("STRUCTURAL", {}, {"cn", "gidNumber"},
                                  {"memberUid", "description"}),
   groupOfNames         |-> Class("STRUCTURAL", {}, {"cn", "member"}, {"description"}),
   organizationalRole   |-> Class("STRUCTURAL", {}, {"cn"}, {"description"}),
   domain               |-> Class("STRUCTURAL", {}, {"dc"}, {}),
   organizationalUnit   |-> Class("STRUCTURAL", {}, {"ou"}, {})]

Standard ==
  [Nothing EXCEPT
     !.class = StandardClasses,
     !.type = Types({"uid", "cn", "sn", "mail", "description", "sshPublicKey", "dc",
                     "ou", "memberUid", "member"} \cup PosixMust)]

------------------------------------------------------------------------------
(* Classes and what they inherit. *)

\* These classes with every superclass of theirs, at any depth.
Chain(sch, classes) ==
  LET depth == Cardinality(DOMAIN sch.class)
      up[n \in 0..depth] ==
        IF n = 0 THEN classes \cap DOMAIN sch.class
        ELSE LET below == up[n - 1] IN below \cup UNION {sch.class[c].sup : c \in below}
  IN up[depth]

Above(sch, c) == Chain(sch, {c}) \ {c}
OfKind(sch, classes, kind) ==
  {c \in classes \cap DOMAIN sch.class : sch.class[c].kind = kind}

\* The auxiliary classes of a schema are below no structural one.  RFC 4512
\* 2.4.3 asks it of every schema; whether package schema refuses one that does
\* not is not said in this repository, so Builds does not ask it.
StandAlone(sch) ==
  \A c \in OfKind(sch, DOMAIN sch.class, "AUXILIARY") :
    OfKind(sch, Chain(sch, {c}), "STRUCTURAL") = {}

MustTypes(sch, classes) == UNION {sch.class[c].must : c \in Chain(sch, classes)}
MayTypes(sch, classes) == UNION {sch.class[c].may : c \in Chain(sch, classes)}

\* The structural class below all the others an entry lists.
StructuralOf(sch, classes) ==
  LET structural == OfKind(sch, classes, "STRUCTURAL")
  IN CHOOSE c \in structural : structural \subseteq Chain(sch, {c})

NoRule == [aux |-> {}, must |-> {}, may |-> {}, not |-> {}]
ContentRuleOf(sch, classes) ==
  LET c == StructuralOf(sch, classes)
  IN IF c \in DOMAIN sch.content THEN sch.content[c] ELSE NoRule
Ruled(sch, classes) == StructuralOf(sch, classes) \in DOMAIN sch.content

------------------------------------------------------------------------------
(* BuildFrom: do these definitions make a schema? *)

ClassBuilds(sch, c) ==
  LET d == sch.class[c] IN
  /\ d.must \cup d.may \subseteq DOMAIN sch.type
  /\ d.sup \subseteq DOMAIN sch.class
  /\ d.kind = "STRUCTURAL" => OfKind(sch, d.sup, "AUXILIARY") = {}

\* NOT names no type a class of the rule requires.
ContentRuleBuilds(sch, c) ==
  LET r == sch.content[c] IN
  /\ c \in OfKind(sch, DOMAIN sch.class, "STRUCTURAL")
  /\ r.aux \subseteq OfKind(sch, DOMAIN sch.class, "AUXILIARY")
  /\ r.must \cup r.may \cup r.not \subseteq DOMAIN sch.type
  /\ r.not \cap (r.must \cup MustTypes(sch, {c} \cup r.aux)) = {}

StructureRuleBuilds(sch, i) ==
  LET r == sch.structure[i] IN
  /\ r.class \in OfKind(sch, DOMAIN sch.class, "STRUCTURAL")
  /\ r.rdn \in DOMAIN sch.type
  /\ r.sup \subseteq DOMAIN sch.structure

Builds(sch) ==
  /\ \A c \in DOMAIN sch.class : ClassBuilds(sch, c)
  /\ \A c \in DOMAIN sch.content : ContentRuleBuilds(sch, c)
  /\ \A i \in DOMAIN sch.structure : StructureRuleBuilds(sch, i)

------------------------------------------------------------------------------
(* Validate: what is wrong with an entry [classes, attrs, bad, rdn].  bad   *)
(* are the attributes with a value their syntax does not allow.             *)

Problem(kind, names) == {[kind |-> kind, of |-> n] : n \in names}

Problems(sch, e) ==
  LET known == e.classes \cap DOMAIN sch.class
      rule == ContentRuleOf(sch, e.classes)
      must == MustTypes(sch, known) \cup rule.must
      may == MayTypes(sch, known) \cup rule.may
      auxiliary == OfKind(sch, e.classes, "AUXILIARY")
  IN UNION {Problem("UnknownClass", e.classes \ known),
            Problem("MissingSuperclass", Chain(sch, known) \ e.classes),
            Problem("MissingRequired", must \ e.attrs),
            Problem("UnknownAttribute", e.attrs \ DOMAIN sch.type),
            Problem("NotAllowed", (e.attrs \cap DOMAIN sch.type) \ (must \cup may)),
            Problem("Precluded", e.attrs \cap rule.not),
            Problem("AuxiliaryNotAllowed",
                    IF Ruled(sch, e.classes) THEN auxiliary \ rule.aux ELSE {}),
            Problem("InvalidValue", e.bad \cap e.attrs),
            Problem("RDNNotPresent", {e.rdn} \ e.attrs)}

Named(problems, kind) == {p.of : p \in {q \in problems : q.kind = kind}}

------------------------------------------------------------------------------
(* GoverningStructureRule.  A structure rule is a name form's class and RDN *)
(* attribute, and the rules of the entries it may stand under; none for the *)
(* first entry of the tree, whose superior is Root.                         *)

Root == "no superior"

Placing(sch, e, superior) ==
  {i \in DOMAIN sch.structure :
     /\ sch.structure[i].class = StructuralOf(sch, e.classes)
     /\ IF superior = Root THEN sch.structure[i].sup = {}
                           ELSE superior \in sch.structure[i].sup}

Governing(sch, e, superior) ==
  {i \in Placing(sch, e, superior) : sch.structure[i].rdn = e.rdn}

\* Nothing, or the one problem of an entry that no rule places.
Misplaced(sch, e, superior) ==
  CASE Governing(sch, e, superior) # {} -> {}
    [] Placing(sch, e, superior) = {} -> Problem("NoStructureRule", {e.rdn})
    [] OTHER -> Problem("NameFormViolation", {e.rdn})
=============================================================================
