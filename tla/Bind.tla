--------------------------------- MODULE Bind ---------------------------------
(***************************************************************************)
(* A bind, from the request to its one answer (Bind and BindSASL in        *)
(* server.go and oidc.go): who is asked about a password, for how long,    *)
(* how many such checks one source may have outstanding (limits.go), and   *)
(* what a one-time code behind the password counts (factors.go).           *)
(*                                                                         *)
(* Several binds run at once.  A check runs in a goroutine of its own that *)
(* may outlive the bind it was started for.  The snapshot the people come  *)
(* from is Directory's; here any look at it may find it too old.           *)
(***************************************************************************)
EXTENDS Integers, FiniteSets

CONSTANTS
  Binds,       \* requests that may be under way at once
  Checks,      \* goroutines of within
  Sources,     \* what pendingChecks is keyed by (Identity.Where)
  Here,        \* the source of what this process can compare by itself
  DNs,         \* the names a client may send
  NoDN,        \* the empty one
  Lower,       \* [DNs -> DNs]: strings.ToLower
  Readers,     \* the readers, by their names in lower case
  People,      \* whom the snapshot publishes
  Person,      \* [DNs -> People \cup {None}]: nameOf and the roster
  Where,       \* [People -> Sources]
  Enrolled,    \* the accounts with a one-time code secret
  Codes,       \* the codes that are right for all of the run
  Methods,     \* what an issuer may say it checked (amr)
  KindOf,      \* amrKind
  Requests,    \* what is asked
  Policies,    \* the mfa blocks there may be: is a code wanted, and of readers
  None,
  MaxPending,  \* maxPendingPerSource
  MaxGuesses   \* wrong codes before the Verifier pauses an account

Accounts == People \cup Readers
Keys == Accounts \cup DNs

\* A simple bind: "short" is a field no longer than a code, and "wrong" a code
\* that is not.
SimpleBinds == [how : {"simple"}, dn : DNs,
                pw : {"empty", "short", "wrong", "right"}, code : Codes \cup {"wrong"}]

\* A SASL bind.  `form`: another mechanism or no oidc block, a lone ^A, a
\* token in the clear, credentials that do not parse, or a token; `name`: whom
\* a scope of the issuer's names; `as`: the GS2 header's authzid.
TokenBinds == [how : {"token"},
               form : {"mechanism", "alone", "clear", "malformed", "token"},
               genuine : BOOLEAN, name : People \cup {"stranger", None},
               as : People \cup {None}, amr : SUBSET Methods]

ASSUME BindAssumption ==
  /\ Here \in Sources
  /\ Lower \in [DNs -> DNs] /\ Readers \subseteq DNs
  /\ NoDN \in DNs \ Readers /\ None \notin People \cup Checks
  /\ Person \in [DNs -> People \cup {None}] /\ Person[NoDN] = None
  /\ Where \in [People -> Sources]
  /\ Enrolled \subseteq Accounts
  /\ Requests \subseteq SimpleBinds \cup TokenBinds
  /\ Policies \subseteq [code : BOOLEAN, readers : BOOLEAN]
  /\ MaxPending \in Nat \ {0} /\ MaxGuesses \in Nat \ {0}

VARIABLES
  mfa,      \* the mfa block, once and for all
  health,   \* how each source answers
  bind,     \* [Binds -> the state of Bind or BindSASL]
  check,    \* [Checks -> the state of within's goroutine]
  pending,  \* pendingChecks.n
  used,     \* the Verifier's: which codes were used, by its key
  fails,    \* the Verifier's: wrong codes in a row, by its key
  accepted  \* history: which account's code was accepted

vars == <<mfa, health, bind, check, pending, used, fails, accepted>>
world == <<mfa, health>>
codes == <<used, fails, accepted>>

------------------------------------------------------------------------------
Said == {"none", "right", "wrong", "outage"}
Results == {"none", "success", "invalidCredentials", "unavailable",
            "unwillingToPerform", "authMethodNotSupported",
            "confidentialityRequired", "saslBindInProgress"}

\* `said`: what the source, or the issuer, said; `check`: the goroutine whose
\* channel `done` the bind waits on; `code`: what the code was found to be;
\* `old`: tooOld said so, and the answer followed.
BindStates ==
  [at : {"idle", "arrived", "ask", "wait", "code", "decide", "token", "verified"},
   req : Requests \cup {None}, check : Checks \cup {None}, done : Said, said : Said,
   code : {"none", "accepted", "refused"}, old : BOOLEAN, result : Results]

CheckStates == [at : {"off", "asking", "said"}, source : Sources,
                pw : {"none", "short", "wrong", "right"}]

Idle == [at |-> "idle", req |-> None, check |-> None, done |-> "none",
         said |-> "none", code |-> "none", old |-> FALSE, result |-> "none"]
NoCheck == [at |-> "off", source |-> Here, pw |-> "none"]

Init ==
  /\ mfa \in Policies
  /\ health = [k \in Sources |-> "up"]
  /\ bind = [b \in Binds |-> Idle]
  /\ check = [c \in Checks |-> NoCheck]
  /\ pending = [k \in Sources |-> 0]
  /\ used = {} /\ fails = [k \in Keys |-> 0] /\ accepted = {}

Request(b) == bind[b].req
IsReader(r) == Lower[r.dn] \in Readers
Account(r) == IF IsReader(r) THEN Lower[r.dn] ELSE Person[r.dn]
Source(r) == IF IsReader(r) THEN Here ELSE Where[Person[r.dn]]
WantsCode(r) == mfa.code /\ (IsReader(r) => mfa.readers)

\* Whose codes the Verifier counts: a reader by its name in lower case.
KeyAsSent(r) == IF IsReader(r) THEN r.dn ELSE Person[r.dn]           \* mutant
Key(r) == IF IsReader(r) THEN Lower[r.dn] ELSE Person[r.dn]

Goto(b, at) == bind' = [bind EXCEPT ![b].at = at]
Reply(b, result) == bind' = [bind EXCEPT ![b] = [Idle EXCEPT !.result = result]]

------------------------------------------------------------------------------
(***************************************************************************)
(* Outside: sources that fail, hang and come back.  What this process      *)
(* compares by itself always answers.                                      *)
(***************************************************************************)
ChangeHealth ==
  /\ \E k \in Sources \ {Here}, h \in {"up", "down", "hung"} :
       h # health[k] /\ health' = [health EXCEPT ![k] = h]
  /\ UNCHANGED <<mfa, bind, check, pending, codes>>

------------------------------------------------------------------------------
(***************************************************************************)
(* A simple bind.                                                          *)
(***************************************************************************)
\* Bind and BindSASL count the request first, under s.mu.
Arrive(b) ==
  /\ bind[b].at = "idle"
  /\ \E r \in Requests :
       bind' = [bind EXCEPT ![b] = [Idle EXCEPT !.at = "arrived", !.req = r]]
  /\ UNCHANGED <<world, check, pending, codes>>

\* What Bind answers before any password is looked at, or "ask".
AtTheDoor(r, old) ==
  IF r.pw = "empty" THEN IF r.dn = NoDN THEN "success" ELSE "unwillingToPerform"
  ELSE IF ~IsReader(r) /\ old THEN "unavailable"
  ELSE IF ~IsReader(r) /\ Person[r.dn] = None THEN "invalidCredentials"
  ELSE IF WantsCode(r) /\ r.pw = "short" THEN "invalidCredentials"
  ELSE "ask"

Look(b) ==
  /\ bind[b].at = "arrived" /\ Request(b).how = "simple"
  /\ \E old \in BOOLEAN :
       LET answer == AtTheDoor(Request(b), old) IN
       IF answer = "ask" THEN Goto(b, "ask")
       ELSE bind' = [bind EXCEPT ![b] = [Idle EXCEPT !.old = (answer = "unavailable"),
                                                     !.result = answer]]
  /\ UNCHANGED <<world, check, pending, codes>>

\* A reader that carries no code is compared on the spot.
CompareReader(b) ==
  /\ bind[b].at = "ask" /\ IsReader(Request(b)) /\ ~WantsCode(Request(b))
  /\ Reply(b, IF Request(b).pw = "right" THEN "success" ELSE "invalidCredentials")
  /\ UNCHANGED <<world, check, pending, codes>>

\* acquireCheck
AcquireOneMore(k) == pending[k] <= MaxPending                        \* mutant
MayAcquire(k) == pending[k] < MaxPending

\* within: a goroutine asks the source, or the source has too many already.
Ask(b) ==
  LET r == Request(b)  k == Source(r) IN
  /\ bind[b].at = "ask" /\ ~(IsReader(r) /\ ~WantsCode(r))
  /\ \/ /\ MayAcquire(k)
        /\ pending' = [pending EXCEPT ![k] = @ + 1]
        /\ \E c \in Checks :
             /\ check[c].at = "off"
             /\ check' = [check EXCEPT ![c] = [at |-> "asking", source |-> k, pw |-> r.pw]]
             /\ bind' = [bind EXCEPT ![b].at = "wait", ![b].check = c]
     \/ /\ ~MayAcquire(k)
        /\ bind' = [bind EXCEPT ![b].at = IF mfa.code THEN "code" ELSE "decide",
                                ![b].said = "outage"]
        /\ UNCHANGED <<check, pending>>
  /\ UNCHANGED <<world, codes>>

\* Only the call that made the channel reads it.
DeliverToAll(c, says) ==                                             \* mutant
  [b \in Binds |-> IF bind[b].at = "wait" /\ Source(Request(b)) = check[c].source
                   THEN [bind[b] EXCEPT !.done = says] ELSE bind[b]]
Deliver(c, says) ==
  [b \in Binds |-> IF bind[b].check = c
                   THEN [bind[b] EXCEPT !.done = says] ELSE bind[b]]

\* The source answers, refuses to be asked, or, once the bind has given up and
\* cancelled the call, the library may abandon it.
SourceAnswers(c) ==
  LET h == health[check[c].source]
      left == \A b \in Binds : bind[b].check # c IN
  /\ check[c].at = "asking"
  /\ \E says \in Said \ {"none"} :
       /\ \/ h = "up" /\ says = (IF check[c].pw = "right" THEN "right" ELSE "wrong")
          \/ h = "down" /\ says = "outage"
          \/ left /\ says = "outage"
       /\ bind' = Deliver(c, says)
  /\ check' = [check EXCEPT ![c].at = "said"]
  /\ UNCHANGED <<world, pending, codes>>

\* releaseCheck, deferred: whether anybody still waits or not.
ReleaseHeard(c) ==                                                   \* mutant
  /\ check[c].at = "said"
  /\ pending' = IF \E b \in Binds : bind[b].check = c
                THEN [pending EXCEPT ![check[c].source] = @ - 1] ELSE pending
  /\ check' = [check EXCEPT ![c] = NoCheck]
  /\ bind' = [b \in Binds |-> IF bind[b].check = c
                              THEN [bind[b] EXCEPT !.check = None] ELSE bind[b]]
  /\ UNCHANGED <<world, codes>>
ReleaseCheck(c) ==
  /\ check[c].at = "said"
  /\ pending' = [pending EXCEPT ![check[c].source] = @ - 1]
  /\ check' = [check EXCEPT ![c] = NoCheck]
  /\ bind' = [b \in Binds |-> IF bind[b].check = c
                              THEN [bind[b] EXCEPT !.check = None] ELSE bind[b]]
  /\ UNCHANGED <<world, codes>>

\* The wait ends: with an answer, or when the bind budget does.  With an mfa
\* block the code is next, whatever was said.
Heard(b, says) ==
  bind' = [bind EXCEPT ![b].at = IF mfa.code THEN "code" ELSE "decide",
                       ![b].check = None, ![b].done = "none", ![b].said = says]

Hear(b) ==
  /\ bind[b].at = "wait" /\ bind[b].done # "none"
  /\ Heard(b, bind[b].done)
  /\ UNCHANGED <<world, check, pending, codes>>

GiveUpAndRelease(b) ==                                               \* mutant
  /\ bind[b].at = "wait"
  /\ Heard(b, "outage")
  /\ pending' = [pending EXCEPT ![Source(Request(b))] = @ - 1]
  /\ UNCHANGED <<world, check, codes>>
GiveUp(b) ==
  /\ bind[b].at = "wait"
  /\ Heard(b, "outage")
  /\ UNCHANGED <<world, check, pending, codes>>

------------------------------------------------------------------------------
(***************************************************************************)
(* The code on the end of the password.  The Verifier is a library's:      *)
(* nothing for an account without a secret, nothing while it is paused, a  *)
(* right code once, and a wrong one counted.                               *)
(***************************************************************************)
Verifier(k, enrolled, code, found) ==
  \/ /\ ~enrolled \/ fails[k] = MaxGuesses
     /\ found = "refused" /\ UNCHANGED <<used, fails>>
  \/ /\ enrolled /\ fails[k] < MaxGuesses /\ code \in Codes /\ <<k, code>> \notin used
     /\ found = "accepted"
     /\ used' = used \cup {<<k, code>>} /\ fails' = [fails EXCEPT ![k] = 0]
  \/ /\ enrolled /\ fails[k] < MaxGuesses /\ (code \notin Codes \/ <<k, code>> \in used)
     /\ found = "refused"
     /\ fails' = [fails EXCEPT ![k] = @ + 1] /\ UNCHANGED used

\* afterPassword: a code is asked of the Verifier, which counts, only behind
\* the right password; the password is not asked again.
CountAlways(b) == TRUE                                               \* mutant
MayCount(b) == bind[b].said = "right"

AskCode(b) ==
  LET r == Request(b) IN
  /\ bind[b].at = "code"
  /\ \E found \in {"accepted", "refused"} :
       /\ \/ /\ MayCount(b)
             /\ Verifier(Key(r), Account(r) \in Enrolled, r.code, found)
          \/ ~MayCount(b) /\ found = "refused" /\ UNCHANGED <<used, fails>>
       /\ bind' = [bind EXCEPT ![b].at = "decide", ![b].code = found]
       /\ accepted' = IF found = "accepted" THEN accepted \cup {<<Account(r), r.code>>}
                                            ELSE accepted
  /\ UNCHANGED <<world, check, pending>>

\* decide, and verdict: both halves right, a source that could not be asked,
\* or a half that was wrong.  Behind the mfa block a budget that ended
\* meanwhile is an outage too.
OutageIsWrong(b) == FALSE                                            \* mutant
IsOutage(b) == bind[b].said = "outage"

\* tokenFactors: the methods an issuer names are one factor for each kind, and
\* a token that names none is something one has.  mfa.Verify counts two.
EachMethod(r) == r.amr                                               \* mutant
TokenFactors(r) ==
  IF r.amr = {} THEN {"possession"} ELSE {KindOf[m] : m \in r.amr}

Satisfied(b) ==
  IF Request(b).how = "token" THEN mfa.code => Cardinality(TokenFactors(Request(b))) >= 2
  ELSE bind[b].said = "right" /\ (mfa.code => bind[b].code = "accepted")

Decide(b) ==
  /\ bind[b].at = "decide"
  /\ \/ Satisfied(b) /\ Reply(b, "success")
     \/ ~Satisfied(b) /\ IsOutage(b) /\ Reply(b, "unavailable")
     \/ ~Satisfied(b) /\ ~IsOutage(b) /\ Reply(b, "invalidCredentials")
     \/ ~Satisfied(b) /\ mfa.code /\ Reply(b, "unavailable")
  /\ UNCHANGED <<world, check, pending, codes>>

------------------------------------------------------------------------------
(***************************************************************************)
(* A SASL bind.  oidcChallenge answers saslBindInProgress; the lone ^A the *)
(* client sends then is a bind of its own.                                 *)
(***************************************************************************)
LookAtToken(b) ==
  LET r == Request(b) IN
  /\ bind[b].at = "arrived" /\ r.how = "token"
  /\ \/ r.form = "mechanism" /\ Reply(b, "authMethodNotSupported")
     \/ r.form = "alone" /\ Reply(b, "invalidCredentials")
     \/ r.form = "clear" /\ Reply(b, "confidentialityRequired")
     \/ r.form = "malformed" /\ Reply(b, "saslBindInProgress")
     \/ r.form = "token" /\ Goto(b, "token")
  /\ UNCHANGED <<world, check, pending, codes>>

\* The issuer's keys say whether the token is its own; an issuer that cannot
\* be asked (at any time), or not within 30 s, is answered as one that is not.
VerifyToken(b) ==
  LET r == Request(b) IN
  /\ bind[b].at = "token"
  /\ \/ r.genuine /\ bind' = [bind EXCEPT ![b].at = "verified", ![b].said = "right"]
     \/ Reply(b, "saslBindInProgress")
  /\ UNCHANGED <<world, check, pending, codes>>

\* Nobody in a scope of the issuer's, somebody else to act as, old data, or
\* nobody published by that name.
NamesThePerson(r) == r.name # None /\ (r.as # None => r.as = r.name)
IdentifyToken(b) ==
  LET r == Request(b) IN
  /\ bind[b].at = "verified"
  /\ \/ NamesThePerson(r) /\ r.name \in People /\ Goto(b, "decide")
     \/ ~(NamesThePerson(r) /\ r.name \in People) /\ Reply(b, "saslBindInProgress")
     \/ /\ NamesThePerson(r)
        /\ bind' = [bind EXCEPT ![b] = [Idle EXCEPT !.old = TRUE,
                                                    !.result = "saslBindInProgress"]]
  /\ UNCHANGED <<world, check, pending, codes>>

------------------------------------------------------------------------------
Serve(b) == \/ Look(b) \/ CompareReader(b) \/ Ask(b) \/ Hear(b) \/ GiveUp(b)
            \/ AskCode(b) \/ Decide(b)
            \/ LookAtToken(b) \/ VerifyToken(b) \/ IdentifyToken(b)

Next == \/ ChangeHealth
        \/ \E b \in Binds : Arrive(b) \/ Serve(b)
        \/ \E c \in Checks : SourceAnswers(c) \/ ReleaseCheck(c)

Spec == Init /\ [][Next]_vars

------------------------------------------------------------------------------
(***************************************************************************)
(* What must hold.                                                         *)
(***************************************************************************)
\* Every variable holds what the code could put there.
TypeOK ==
  /\ mfa \in [code : BOOLEAN, readers : BOOLEAN]
  /\ health \in [Sources -> {"up", "down", "hung"}]
  /\ bind \in [Binds -> BindStates] /\ check \in [Checks -> CheckStates]
  /\ pending \in [Sources -> Nat]
  /\ used \subseteq Keys \X Codes /\ fails \in [Keys -> 0..MaxGuesses]
  /\ accepted \subseteq Accounts \X Codes

Outstanding(k) == {c \in Checks : check[c].at # "off" /\ check[c].source = k}

\* A hung source costs a bounded number of goroutines, however many binds come
\* and give up, because a check that nobody waits for is still counted.
ChecksAreBounded == \A k \in Sources : Cardinality(Outstanding(k)) <= MaxPending

\* pendingChecks counts the checks that are outstanding, neither more (a source
\* would be refused for ever after it came back) nor fewer.
PendingIsExact == \A k \in Sources : pending[k] = Cardinality(Outstanding(k))

Answers(b) == bind[b].at # "idle" /\ bind'[b].at = "idle"

\* Nobody is let in on what another bind's check said, on an outage, or, where
\* a code is wanted, without one: what let the bind in was in its own request.
ProvedBeforeSuccess ==
  [][\A b \in Binds :
       Answers(b) /\ bind'[b].result = "success" /\ bind[b].at = "decide" =>
         LET r == Request(b) IN
         IF r.how = "simple"
         THEN r.pw = "right" /\ (mfa.code => r.code \in Codes /\ Account(r) \in Enrolled)
         ELSE r.genuine /\ r.name \in People]_vars

\* invalidCredentials is said only of a half that was wrong: an outage, a
\* budget that ended, a source at its cap or another bind's wrong password
\* never makes a person doubt a password that is right (verdict).
OnlyAWrongHalfIsDenied ==
  [][\A b \in Binds :
       /\ Answers(b) /\ bind'[b].result = "invalidCredentials"
       /\ bind[b].at = "decide" /\ Request(b).how = "simple"
       => \/ Request(b).pw # "right"
          \/ mfa.code /\ bind[b].said = "right" /\ bind[b].code = "refused"]_vars

\* A code lets an account in once, however its name is spelled and however
\* many binds carry the code at the same moment.
CodeUsedOnce ==
  [][\A b \in Binds :
       bind[b].code = "none" /\ bind'[b].code = "accepted"
         => <<Account(Request(b)), Request(b).code>> \notin accepted]_vars

\* Who knows only a name cannot pause its owner: a code is held against an
\* account only by a bind that carried the account's password.
OnlyTheOwnerIsCounted ==
  [][\A k \in Keys : fails'[k] > fails[k] =>
       \E b \in Binds : /\ bind[b].at = "code" /\ bind'[b].at = "decide"
                        /\ Account(Request(b)) = k /\ Request(b).pw = "right"]_vars

\* Where two factors are wanted, a token whose issuer checked one kind of
\* factor, by however many methods, is not let in.
TokensCountKinds ==
  [][\A b \in Binds :
       Answers(b) /\ bind'[b].result = "success" /\ Request(b).how = "token" /\ mfa.code
         => \E m, n \in Request(b).amr : KindOf[m] # KindOf[n]]_vars

------------------------------------------------------------------------------
\* "Once the served data is older [than max_age], searches, people's binds and
\* password changes answer unavailable" (README.md): a bind that found the data
\* too old and was answered for it.  BindSASL answers as if the token had not
\* verified.
StaleIsUnavailable ==
  [][\A b \in Binds :
       Answers(b) /\ bind'[b].old => bind'[b].result = "unavailable"]_vars
=============================================================================
