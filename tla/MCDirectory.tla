----------------------------- MODULE MCDirectory -----------------------------
(***************************************************************************)
(* Small instances of Directory for TLC: alice in the configuration file,  *)
(* bob in the other directory, and in some also carol, who has no password *)
(* there.                                                                  *)
(***************************************************************************)
EXTENDS DirectoryRefinement, DirectoryInvariant, TLC

CONSTANTS alice, bob, carol, p, q

MCNames == {alice, bob}
MCThree == {alice, bob, carol}
MCFold  == [n \in Names |-> n]
\* Two spellings of one name.
MCFoldOne == [n \in Names |-> alice]
MCPasswords == {p, q}

Holds(n, pw) == [m \in Names |-> IF m = n THEN pw ELSE None]
Nothing == Holds(alice, None)

FileOf(users, groups) == [users |-> users, groups |-> groups, ok |-> TRUE]
AliceFile == FileOf(Holds(alice, p), {alice})
BothFile  == FileOf([n \in Names |-> p], {alice})
GoneFile  == FileOf(Nothing, {})
BobFile   == FileOf(Holds(bob, p), {bob})
Broken    == [AliceFile EXCEPT !.ok = FALSE]

NoEdits   == {}
Edits     == {BothFile, GoneFile, Broken}
GroupEdit == {FileOf(Holds(alice, p), {alice, bob})}

BobUp   == [people |-> Holds(bob, q), groups |-> {bob}]
EmptyUp == [people |-> Nothing, groups |-> {}]
BothUp  == [people |-> [n \in Names |-> q], groups |-> {bob}]

UpHolds(people) ==
  [people |-> [n \in Names |-> IF n \in people THEN q ELSE None], groups |-> people]
BobCarolUp == UpHolds({bob, carol})

UpOnly == {BobUp, EmptyUp}
UpBoth == {BobCarolUp, EmptyUp, BothUp}

AnyRequest == [who : MCNames, sent : MCPasswords \cup {None}, new : MCPasswords]
AliceAsks  == {[who |-> alice, sent |-> p, new |-> q]}
\* carol asks too, whose password upstream cannot verify.
AllAsk     == AnyRequest \cup {[who |-> carol, sent |-> p, new |-> q]}
BothAsk    == AliceAsks \cup {[who |-> bob, sent |-> q, new |-> p]}

NameEdits == {BothFile, BobFile}

\* A start whose group blocks name bob: bob revoked, no refresh succeeds any
\* more; carol revoked, it does.
StartNamesBob == FileOf(Holds(alice, p), {alice, bob})
Revocations   == {UpHolds({bob}), UpHolds({carol})}

\* Sessions, and workers, are alike.
SessionSymmetry == Permutations(Sessions)
WorkerSymmetry  == Permutations(Workers)
=============================================================================
