-------------------------------- MODULE MCBind --------------------------------
(***************************************************************************)
(* A small instance of Bind: bob in another directory, one reader that two *)
(* names spell, and an issuer.                                             *)
(***************************************************************************)
EXTENDS Bind, TLC

CONSTANTS bob, reader, READER, upstream, code

MCDNs == {bob, reader, READER, NoDN}
MCLower == [d \in MCDNs |-> IF d = READER THEN reader ELSE d]
MCPerson == [d \in MCDNs |-> IF d = bob THEN bob ELSE None]
MCWhere == [p \in {bob} |-> upstream]

MCKindOf == [m \in {"pwd", "pin", "otp"} |->
               IF m = "otp" THEN "possession" ELSE "knowledge"]

Simple(dn, pw, c) == [how |-> "simple", dn |-> dn, pw |-> pw, code |-> c]
Token(form, genuine, name, as, amr) ==
  [how |-> "token", form |-> form, genuine |-> genuine, name |-> name, as |-> as,
   amr |-> amr]
GoodToken(name, as, amr) == Token("token", TRUE, name, as, amr)

\* Every way through Bind and BindSASL.
Doors == {Simple(NoDN, "empty", code), Simple(bob, "empty", code),
          Simple(NoDN, "wrong", code), Simple(reader, "short", code)}
Passwords == {Simple(bob, "right", code), Simple(bob, "wrong", code),
              Simple(reader, "right", code), Simple(READER, "right", code),
              Simple(reader, "right", "wrong")}
Tokens == {Token(f, TRUE, bob, None, {"pwd", "pin"}) :
             f \in {"mechanism", "alone", "clear", "malformed", "token"}}
          \cup {Token("token", FALSE, bob, None, {}),
                GoodToken(bob, bob, {"pwd", "otp"}),
                GoodToken(None, None, {})}
\* No block, and one that asks readers too.
BothPolicies == {[code |-> FALSE, readers |-> FALSE], [code |-> TRUE, readers |-> TRUE]}
BindSymmetry == Permutations(Binds) \cup Permutations(Checks)
AllRequests == Doors \cup Passwords \cup Tokens
=============================================================================
