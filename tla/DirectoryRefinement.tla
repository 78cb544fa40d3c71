------------------------ MODULE DirectoryRefinement ------------------------
(***************************************************************************)
(* Directory implements PasswordRegister: what the register serves is the  *)
(* file's part of the snapshot, and a change takes effect where            *)
(* reloadLocal stores it.                                                  *)
(***************************************************************************)
EXTENDS Directory

\* How far a Modify or Extended is, in the register's words.
StepOf(s) ==
  CASE session[s].at \in {"idle", "prove", "lock", "recheck", "write"} -> "asked"
    [] session[s].at = "reload" -> "written"
    [] session[s].at \in {"swap", "store"} -> "loaded"
    [] session[s].at = "bump" -> "success"
    [] session[s].at = "replied" ->
         IF session[s].result = "success" THEN "success" ELSE "failed"

Register == INSTANCE PasswordRegister WITH
  served <- FilePart(snap.people),
  stored <- file.users,
  change <- [s \in Sessions |-> [at |-> StepOf(s), req |-> session[s].req]],
  copy   <- [s \in Sessions |-> IF StepOf(s) = "loaded" THEN session[s].cfg.users
                                ELSE None]

\* With any number of refreshes, edits and password changes going on at once,
\* what binds and the KDC are answered from changes only as the register
\* allows: by a change that proved the password it replaces, one at a time,
\* and never backwards.
ImplementsRegister == Register!Spec
=============================================================================
