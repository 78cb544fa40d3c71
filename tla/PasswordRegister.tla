-------------------------- MODULE PasswordRegister --------------------------
(***************************************************************************)
(* What authnd promises about the passwords its own file holds, with no    *)
(* snapshot, refresh, generation or lock in it: `stored` is what the files *)
(* say, `served` is what binds and the KDC are answered from.  A change    *)
(* proves the password served, writes the files, reads them again and      *)
(* publishes what it read, one change at a time.  Nothing else ever        *)
(* touches `served`: Directory implements this.                            *)
(***************************************************************************)
CONSTANTS Names, Passwords, None, Sessions

VARIABLES served, stored, change, copy

Users == [Names -> Passwords \cup {None}]
Steps == {"asked", "written", "loaded", "success", "failed"}
vars == <<served, stored, change, copy>>

Init ==
  /\ served \in Users /\ stored = served
  /\ change \in [Sessions ->
       [at : {"asked"},
        req : [who : Names, sent : Passwords \cup {None}, new : Passwords]]]
  /\ copy = [s \in Sessions |-> None]

Become(s, at) == change' = [change EXCEPT ![s] = [@ EXCEPT !.at = at]]

\* An administrator rewrites the files.
Edit ==
  /\ stored' \in Users
  /\ UNCHANGED <<served, change, copy>>

\* The password sent is the one served now, if one is; and nobody else is
\* between the files and what is served.
Write(s) ==
  LET n == change[s].req.who IN
  /\ change[s].at = "asked"
  /\ \A t \in Sessions : change[t].at \notin {"written", "loaded"}
  /\ served[n] \in {change[s].req.sent, None}
  /\ stored[n] # None
  /\ stored' = [stored EXCEPT ![n] = change[s].req.new]
  /\ Become(s, "written")
  /\ UNCHANGED <<served, copy>>

Load(s) ==
  /\ change[s].at = "written"
  /\ copy' = [copy EXCEPT ![s] = stored]
  /\ Become(s, "loaded")
  /\ UNCHANGED <<served, stored>>

Publish(s) ==
  /\ change[s].at = "loaded"
  /\ served' = copy[s]
  /\ copy' = [copy EXCEPT ![s] = None]
  /\ Become(s, "success")
  /\ UNCHANGED stored

\* Refused, or written and not reloaded: what is served stays.
Fail(s) ==
  /\ change[s].at \notin {"success", "failed"}
  /\ copy' = [copy EXCEPT ![s] = None]
  /\ Become(s, "failed")
  /\ UNCHANGED <<served, stored>>

Next == Edit \/ \E s \in Sessions : Write(s) \/ Load(s) \/ Publish(s) \/ Fail(s)

Spec == Init /\ [][Next]_vars
=============================================================================
