------------------------- MODULE DirectoryInvariant -------------------------
(***************************************************************************)
(* The inductive invariant behind Directory's safety properties, in named  *)
(* parts: what is true of the locks, of the snapshot in the middle of a    *)
(* password change, and of the snapshot a worker is building.              *)
(***************************************************************************)
EXTENDS Directory

\* s.mu and s.swapMu are held by the change that is between taking and giving
\* them back, and by nobody else.
LocksHeld ==
  \A s \in Sessions : /\ (mu = s) <=> (session[s].at \in HoldsMu)
                      /\ (swapMu = s) <=> (session[s].at \in HoldsSwapMu)

\* A change that has swapped the live source swapped in what it read.
LocalIsLoaded ==
  \A s \in Sessions : session[s].at \in HoldsSwapMu => local = session[s].cfg

\* Every person a roster takes from the file is marked as the file's, so that
\* the next rebuild drops whoever the file holds no longer.
Marked(sn) == \A n \in Names : sn.people[n].src = "file" => n \in sn.local
FilesAreMarked == Marked(snap)

\* Once it has stored it, what a change serves is what it loaded.
StoredIsServed ==
  \A s \in Sessions :
    session[s].at = "bump" => /\ FilePart(snap.people) = local.users
                              /\ snap.local = Held(local.users)

\* No worker has read a generation that is still to come, and one whose
\* generation is the current one has read the file people served now.
Tells(w) ==
  /\ w.gen <= gen
  /\ swapMu = Free /\ w.gen = gen =>
       /\ w.at \in {"groups", "check", "swap"} => FilePart(w.sn.people) = local.users
       /\ w.at \in {"check", "swap"} => w.sn.local = Held(local.users)
GenerationTells == \A k \in Workers : Tells(worker[k])

IndInv ==
  /\ TypeOK /\ LocksHeld /\ LocalIsLoaded /\ FilesAreMarked /\ StoredIsServed
  /\ GenerationTells /\ LocalServed

------------------------------------------------------------------------------
\* A worker past readGroups has a roster newRoster accepted.
CheckedIsIndexed ==
  \A k \in Workers :
    worker[k].at \in {"check", "swap"} => ~Clash(worker[k].sn.people)

\* A change that has swapped the live source will store a roster that newRoster
\* accepted: nobody swaps the snapshot it was built from meanwhile.
SwappedIsIndexed ==
  \A s \in Sessions :
    session[s].at = "store" => ~Clash(Rebuilt(session[s].cfg.users, snap))

SpellInv == IndInv /\ NoTwoSpellings /\ CheckedIsIndexed /\ SwappedIsIndexed

------------------------------------------------------------------------------
\* What is served is no younger than the last reading that ended, and what a
\* worker is about to serve lies between the two.
AgesAreOrdered ==
  /\ snap.built <= lastRead /\ lastRead <= now
  /\ \A k \in Workers :
       worker[k].at = "swap" => /\ snap.built <= worker[k].sn.built
                                /\ worker[k].sn.built <= lastRead

AgeInv == TypeOK /\ NeverOverlaps /\ AgesAreOrdered /\ AnswersAreYoungEnough

------------------------------------------------------------------------------
\* A change that took an identity and was not told of a new one has the one that
\* is served.
TakenIsServed ==
  \A s \in Sessions :
    session[s].at \in Taken =>
      /\ session[s].id # Nobody
      /\ session[s].moved \/ session[s].id = snap.people[session[s].req.who]

\* Past provesPassword, an identity of the file has the password that was sent.
Proves(id, sent) == id.src = "file" => id.pw = sent
ProofIsRight ==
  \A s \in Sessions :
    session[s].at \in {"lock", "recheck"} => Proves(session[s].id, session[s].req.sent)

\* And about to write, so has the one served now.
ServedIsProved ==
  \A s \in Sessions :
    session[s].at = "write" =>
      Proves(snap.people[session[s].req.who], session[s].req.sent)

RegisterInv == IndInv /\ TakenIsServed /\ ProofIsRight /\ ServedIsProved
=============================================================================
