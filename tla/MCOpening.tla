------------------------------ MODULE MCOpening ------------------------------
(***************************************************************************)
(* Instances of Opening.  One family of configurations for each question:  *)
(* the configurations of a family differ in what that question asks about, *)
(* and are alike in everything else.                                       *)
(***************************************************************************)
EXTENDS Opening
LOCAL INSTANCE SequencesExt

Person(name, attrs, classes) ==
  [name |-> name, attrs |-> attrs, bad |-> {}, uid |-> 1, keys |-> FALSE, nt |-> FALSE,
   classes |-> classes, large |-> FALSE]

Posix == PosixMust
Bare == Person("alice", {}, {})
Whole == [Person("alice", {"sn", "mail"} \cup Posix, {}) EXCEPT !.keys = TRUE, !.nt = TRUE]

Group(attrs, members) ==
  [name |-> "staff", attrs |-> attrs, bad |-> {}, members |-> members, classes |-> {},
   missing |-> FALSE, large |-> FALSE]

\* bob: a posixAccount, with a uidNumber whose RID wraps around to alice's
\* when nothing stops it.
Bob(uid) == [Person("bob", Posix, {}) EXCEPT !.uid = uid, !.nt = TRUE]
MCDatabases ==
  {[person |-> Bob(2), group |-> Group({"gidNumber"}, TRUE)],
   [person |-> Bob(33), group |-> Group({"description"}, FALSE)],
   [person |-> Bob(2), group |-> [Group({}, TRUE) EXCEPT !.missing = TRUE]]}

------------------------------------------------------------------------------
(* Schema files. *)

Source(where, defs) == [where |-> where, readable |-> TRUE, defs |-> defs]
TypeFile(where, names) == Source(where, [Nothing EXCEPT !.type = Types(names)])
ClassFile(where, classes, types) ==
  Source(where, [Nothing EXCEPT !.class = classes, !.type = Types(types)])

\* A class, one below it, and one whose MUST is an attribute authnd derives.
Site ==
  ClassFile("site.schema",
    [siteMember |-> Class("AUXILIARY", {}, {"badge"}, {"office"}),
     siteStaff |-> Class("AUXILIARY", {"siteMember"}, {}, {"mail"}),
     keyHolder |-> Class("AUXILIARY", {}, {"sshPublicKey"}, {}),
     siteRoom |-> Class("STRUCTURAL", {}, {"cn"}, {})],
    {"badge", "office"})

ContentRules(aux, must, not) ==
  Source("rules.schema",
    [Nothing EXCEPT !.content =
       [c \in {"account", "inetOrgPerson"} |->
          [aux |-> aux, must |-> must, may |-> {}, not |-> not]]])

StructureRule(class, rdn, sup) == [class |-> class, rdn |-> rdn, sup |-> sup]

\* The suffix, the containers, and the rules of what is in them.
TreeRules(below) ==
  Source("tree.schema",
    [Nothing EXCEPT !.structure =
       Over([r1 |-> StructureRule("domain", "dc", {}),
             r2 |-> StructureRule("organizationalUnit", "ou", {"r1"})], below)])

------------------------------------------------------------------------------
(* Families. *)

Default ==
  [cert |-> TRUE, key |-> TRUE, startTLS |-> FALSE, loopback |-> FALSE,
   ntHash |-> TRUE, samba |-> [parses |-> TRUE, base |-> 0],
   refresh |-> Unset, maxAge |-> Unset, conns |-> Unset, perIP |-> Unset,
   operation |-> Unset, startup |-> Unset, factors |-> Unset, kerberos |-> FALSE,
   suffix |-> "dc", oidc |-> Unset, user |-> Whole, declares |-> {}, groupDeclares |-> {},
   files |-> <<>>, blocks |-> <<>>]

\* refresh.go
Ages ==
  {[Default EXCEPT !.refresh = r, !.maxAge = a] :
     r \in {Unset, -1, 0, 10, 20, 1200, 1800}, a \in {Unset, -1, 0, 20, 1200, 1800}}

\* limits.go
Limits ==
  {[Default EXCEPT !.conns = n, !.perIP = i] :
     n \in {Unset, -1, 0, 1, 2}, i \in {Unset, -1, 0, 1, 2}}
  \cup {[Default EXCEPT !.operation = o, !.startup = s] :
          o \in {Unset, -1, 0, 1, 2}, s \in {Unset, 1, 2}}

\* config.go, samba.go
Transports ==
  {[Default EXCEPT !.cert = c, !.key = k, !.startTLS = s, !.loopback = l, !.ntHash = n,
                   !.samba = b] :
     c \in BOOLEAN, k \in BOOLEAN, s \in BOOLEAN, l \in BOOLEAN, n \in BOOLEAN,
     b \in {Unset, [parses |-> TRUE, base |-> 0], [parses |-> FALSE, base |-> 0],
            [parses |-> TRUE, base |-> 3], [parses |-> TRUE, base |-> 4]}}
Factors ==
  {[Default EXCEPT !.factors = f, !.kerberos = k] :
     f \in {Unset, -1, 0, 1, 2, 3}, k \in BOOLEAN}

\* alice with each uidNumber that matters, and with a SID of her own.
Sids ==
  {[Default EXCEPT !.user = [Whole EXCEPT !.uid = u, !.attrs = @ \cup given]] :
     u \in {0, 1, 2, 6, 7, 8, 31, 32, 33, 64}, given \in {{}, {"sambaSID"}}}

\* oidc.go
Tokens ==
  {[Default EXCEPT !.oidc = [domains |-> d, local |-> l]] :
     d \in SUBSET {"a", "b", Unset}, l \in {Unset, "a", "c"}}

\* Files that do not go together, in every order.
Clashing ==
  LET one == TypeFile("one.schema", {"badge"})
      other == TypeFile("other.schema", {"badge", "cn"})
      class == ClassFile("class.schema", [badged |-> Class("AUXILIARY", {}, {"badge"}, {})], {})
      again == ClassFile("again.schema", [account |-> Class("STRUCTURAL", {}, {"cn"}, {})], {})
      below == ClassFile("below.schema", [posixPerson |-> Class("STRUCTURAL", {"uidObject"}, {}, {})], {})
      fifo == [one EXCEPT !.readable = FALSE]
  IN {[Default EXCEPT !.files = f, !.blocks = b] :
        f \in {<<>>, <<one>>, <<other>>, <<class>>, <<one, class>>, <<fifo>>, <<one, one>>,
               <<class, one>>, <<again>>, <<below>>},
        b \in {<<>>, <<one>>, <<class>>}}

\* A person of each kind, declaring each of these, under no content rule.
Attributes == {{}, {"sn"}, {"mail"}, {"sn", "description"}, Posix, {"badge"},
               {"sn", "badge", "office"}, {"badge", "mail", "sambaSID"}, {"nonsense"}}
Declaring == {{}, {"siteMember"}, {"siteStaff"}, {"siteStaff", "siteMember"},
              {"keyHolder", "siteMember"}}
People ==
  {[Person("alice", a, c) EXCEPT !.keys = k, !.nt = k] :
     a \in Attributes, c \in Declaring, k \in BOOLEAN}
WithKeys == {p \in People : p.keys}
Odd == {[Whole EXCEPT !.large = TRUE], [Whole EXCEPT !.bad = {"mail"}],
        [Whole EXCEPT !.attrs = {"uidNumber"}, !.bad = {"uidNumber"}]}
Published ==
  {[Default EXCEPT !.user = p, !.files = <<Site>>] : p \in People \cup Odd}
  \cup {[Default EXCEPT !.user = Whole, !.files = <<Site>>, !.declares = c,
                        !.groupDeclares = g] :
          c \in Declaring, g \in {{}, {"siteMember"}, {"siteRoom"}, {"uidObject"}, {"nothing"}}}

\* The same under each of these content rules.
All == {"posixAccount", "ldapPublicKey", "sambaSamAccount", "uidObject", "siteMember",
        "siteStaff", "keyHolder"}
Auxiliaries == {All, {}, {"uidObject", "siteStaff"}} \cup {All \ {c} : c \in All}
Regulated ==
  {[Default EXCEPT !.user = p, !.files = <<Site>>, !.blocks = <<ContentRules(x, {}, n)>>] :
     p \in WithKeys, x \in Auxiliaries, n \in {{}, {"description", "office"}}}
  \cup {[Default EXCEPT !.user = p, !.files = <<Site>>,
                        !.blocks = <<ContentRules(All, {"badge"}, n)>>] :
          p \in WithKeys, n \in {{}, {"mail"}, {"badge"}}}

\* structure.go
Placements ==
  {[class |-> class, rdn |-> rdn] :
     class \in {"account", "inetOrgPerson", "posixGroup", "organizationalRole"},
     rdn \in {"uid", "cn"}}
Trees ==
  {[Default EXCEPT !.suffix = s, !.user = u, !.files = <<TreeRules(
       [i \in {p.class : p \in t} |->
          StructureRule(i, (CHOOSE p \in t : p.class = i).rdn, {"r2"})])>>] :
     s \in {"dc", "ou", "cn"}, u \in {Bare, Whole},
     t \in {x \in SUBSET Placements : \A p, q \in x : p.class = q.class => p = q}}

MCConfigurations ==
  Ages \cup Limits \cup Transports \cup Factors \cup Sids \cup Tokens \cup Clashing \cup Published
  \cup Regulated \cup Trees

\* Every schema that these configurations may serve is one that the theorems
\* which ask it to stand alone speak of.
ASSUME MCSchemasStandAlone ==
  \A sources \in {<<Base(c)>> \o Additions(c) : c \in MCConfigurations} :
    StandAlone(FoldLeft(LAMBDA s, f : Joined(s, f.defs), Nothing, sources))
=============================================================================
