------------------------------ MODULE BindProofs ------------------------------
(***************************************************************************)
(* Binds, for every number of them at once, every set of checks and        *)
(* sources, every cap and every request: who is let in and on what, what   *)
(* pendingChecks counts, and what the Verifier holds against whom.         *)
(*                                                                         *)
(* The invariant ties what a bind has been told to its own request: a      *)
(* check was started with the password of the bind that waits on it, and   *)
(* only its answer reaches that bind, so what `said` says is about that    *)
(* password and nobody else's.                                             *)
(***************************************************************************)
EXTENDS Bind, FiniteSetTheorems, TLAPS

\* A request that got past AtTheDoor: somebody a source can be asked about.
Askable(r) ==
  /\ r.how = "simple" /\ r.pw # "empty"
  /\ IsReader(r) \/ Person[r.dn] # None

\* What was said is true of the password in the request.
TrueOf(says, r) ==
  /\ says = "right" => r.pw = "right"
  /\ says = "wrong" => r.pw # "right"

\* A bind the decision is about: both halves of a password, or a token.
Decidable(l) ==
  IF l.req.how = "simple"
  THEN /\ Askable(l.req) /\ l.said # "none" /\ TrueOf(l.said, l.req)
       /\ mfa.code => l.code # "none"
  ELSE l.req.genuine /\ l.req.name \in People

\* What a bind knows, wherever it is, is true of its own request.
SoundBind(l) ==
  /\ l.at # "idle" => l.req \in Requests
  /\ l.at \in {"ask", "wait", "code"} => Askable(l.req)
  /\ l.check # None => l.at = "wait"
  /\ IF l.at = "wait" THEN TrueOf(l.done, l.req) ELSE l.done = "none"
  /\ l.at = "code" => l.said # "none" /\ TrueOf(l.said, l.req)
  /\ l.at \in {"token", "verified"} => l.req.how = "token"
  /\ l.at = "verified" => l.req.genuine
  /\ l.at = "decide" => Decidable(l)
  /\ l.code # "none" => l.at = "decide"
  /\ l.code = "accepted" => l.req.code \in Codes /\ Account(l.req) \in Enrolled

BindsAreSound == \A b \in Binds : SoundBind(bind[b])

\* The goroutine a bind waits on asks about the password of that bind.
ChecksAreTheirs ==
  \A b \in Binds : bind[b].check # None =>
    /\ check[bind[b].check].at # "off"
    /\ check[bind[b].check].pw = Request(b).pw

\* acquireCheck and releaseCheck, one for each goroutine and never past the cap.
PendingIsBounded ==
  \A k \in Sources : /\ IsFiniteSet(Outstanding(k))
                     /\ pending[k] = Cardinality(Outstanding(k))
                     /\ pending[k] <= MaxPending

\* The Verifier knows every code that let somebody in.
AcceptedAreUsed == accepted \subseteq used

BindInv == /\ TypeOK
           /\ BindsAreSound /\ ChecksAreTheirs
           /\ PendingIsBounded /\ AcceptedAreUsed

------------------------------------------------------------------------------
(***************************************************************************)
(* What a request stands for.                                              *)
(***************************************************************************)
\* A simple bind and a token bind have the fields their handlers look at.
LEMMA RequestFields ==
  ASSUME NEW r \in Requests
  PROVE  /\ r.how \in {"simple", "token"}
         /\ r.how = "simple" =>
              /\ r.dn \in DNs /\ r.pw \in {"empty", "short", "wrong", "right"}
              /\ r.code \in Codes \cup {"wrong"}
         /\ r.how = "token" => r.amr \subseteq Methods
BY BindAssumption DEF SimpleBinds, TokenBinds

\* A name somebody can be asked about leads to one account, which is also what
\* the Verifier counts by, and to a source.
LEMMA WhoIsAsked ==
  ASSUME NEW r \in Requests, Askable(r)
  PROVE  /\ Account(r) \in Accounts /\ Key(r) = Account(r) /\ Key(r) \in Keys
         /\ Source(r) \in Sources
         /\ r.pw \in {"short", "wrong", "right"}
<1>1. r.dn \in DNs /\ r.pw \in {"short", "wrong", "right"}
  BY RequestFields DEF Askable
<1>2. CASE IsReader(r)
  BY <1>1, <1>2, BindAssumption DEF IsReader, Account, Key, Source, Accounts, Keys
<1>3. CASE ~IsReader(r)
  <2>1. Person[r.dn] \in People
    BY <1>1, <1>3, BindAssumption DEF Askable
  <2> QED
    BY <1>1, <1>3, <2>1, BindAssumption DEF Account, Key, Source, Accounts, Keys
<1> QED
  BY <1>1, <1>2, <1>3

\* AtTheDoor passes on only what a source can be asked about.
LEMMA DoorIsKept ==
  ASSUME NEW r \in Requests, r.how = "simple", NEW old \in BOOLEAN,
         AtTheDoor(r, old) = "ask"
  PROVE  Askable(r)
BY RequestFields DEF AtTheDoor, Askable

\* Every answer AtTheDoor gives is one the client understands.
LEMMA DoorAnswers ==
  ASSUME NEW r, NEW old \in BOOLEAN
  PROVE  AtTheDoor(r, old) \in Results \cup {"ask"}
BY DEF AtTheDoor, Results

------------------------------------------------------------------------------
(***************************************************************************)
(* What an assignment to one bind does.                                    *)
(***************************************************************************)
\* An answered bind waits for nothing and knows nothing.
LEMMA ReplyFields ==
  ASSUME NEW result \in Results
  PROVE  LET l == [Idle EXCEPT !.result = result] IN
         /\ l \in BindStates /\ l.at = "idle" /\ l.check = None /\ l.code = "none"
         /\ l.done = "none" /\ l.result = result
BY DEF Idle, BindStates, Said, Results

\* Where a bind may be.
Places == {"idle", "arrived", "ask", "wait", "code", "decide", "token", "verified"}

\* A bind that begins to wait keeps its request.
LEMMA WaitingFields ==
  ASSUME NEW l \in BindStates, NEW c \in Checks
  PROVE  LET m == [l EXCEPT !.at = "wait", !.check = c] IN
         /\ m \in BindStates /\ m.at = "wait" /\ m.req = l.req /\ m.check = c
         /\ m.done = l.done /\ m.said = l.said /\ m.code = l.code
BY DEF BindStates

\* An assignment to some fields of one bind replaces that bind and no other.
LEMMA FieldsOfOne ==
  ASSUME NEW b \in Binds, bind \in [Binds -> BindStates], NEW x, NEW y, NEW z, NEW w
  PROVE  /\ [bind EXCEPT ![b].at = x] = [bind EXCEPT ![b] = [bind[b] EXCEPT !.at = x]]
         /\ [bind EXCEPT ![b].at = x, ![b].said = y]
              = [bind EXCEPT ![b] = [bind[b] EXCEPT !.at = x, !.said = y]]
         /\ [bind EXCEPT ![b].at = x, ![b].check = y]
              = [bind EXCEPT ![b] = [bind[b] EXCEPT !.at = x, !.check = y]]
         /\ [bind EXCEPT ![b].at = x, ![b].code = y]
              = [bind EXCEPT ![b] = [bind[b] EXCEPT !.at = x, !.code = y]]
         /\ [bind EXCEPT ![b].at = x, ![b].check = y, ![b].done = z, ![b].said = w]
              = [bind EXCEPT ![b] = [bind[b] EXCEPT !.at = x, !.check = y, !.done = z,
                                                    !.said = w]]
OBVIOUS

------------------------------------------------------------------------------
(***************************************************************************)
(* Every step keeps what the binds know.                                   *)
(***************************************************************************)
\* A bind that moves to a state that is sound, with no check or the one it had,
\* disturbs no other.
LEMMA OneBindMoves ==
  ASSUME BindInv,
         NEW b \in Binds, NEW l \in BindStates, bind' = [bind EXCEPT ![b] = l],
         UNCHANGED <<mfa, check>>,
         SoundBind(l),
         l.check # None => l.check = bind[b].check /\ l.req = Request(b)
  PROVE  bind' \in [Binds -> BindStates] /\ BindsAreSound' /\ ChecksAreTheirs'
<1>1. /\ bind' \in [Binds -> BindStates]
      /\ bind'[b] = l
      /\ \A o \in Binds \ {b} : bind'[o] = bind[o]
  BY DEF BindInv, TypeOK
<1>2. \A m : SoundBind(m) => SoundBind(m)'
  BY DEF SoundBind, Decidable, Askable, TrueOf, IsReader, Account
<1>3. BindsAreSound'
  BY <1>1, <1>2 DEF BindsAreSound, BindInv
<1>4. ChecksAreTheirs'
  BY <1>1 DEF ChecksAreTheirs, BindInv, Request
<1> QED
  BY <1>1, <1>3, <1>4

\* within's goroutine is started with the password of the bind that will wait:
\* nobody waited on that channel before.
LEMMA CheckStarts ==
  ASSUME BindInv,
         NEW b \in Binds, NEW c \in Checks, NEW k \in Sources,
         bind[b].at = "ask", check[c].at = "off",
         check' = [check EXCEPT ![c] = [at |-> "asking", source |-> k,
                                        pw |-> Request(b).pw]],
         bind' = [bind EXCEPT ![b].at = "wait", ![b].check = c],
         UNCHANGED mfa
  PROVE  /\ bind' \in [Binds -> BindStates] /\ check' \in [Checks -> CheckStates]
         /\ BindsAreSound' /\ ChecksAreTheirs'
<1> DEFINE l == [bind[b] EXCEPT !.at = "wait", !.check = c]
<1>1. /\ SoundBind(bind[b]) /\ Askable(Request(b)) /\ Request(b) \in Requests
      /\ bind[b].done = "none" /\ bind[b].code = "none"
  BY DEF BindInv, BindsAreSound, SoundBind, Request
<1>2. /\ l \in BindStates /\ l.at = "wait" /\ l.req = Request(b) /\ l.check = c
      /\ l.done = "none" /\ l.code = "none"
  <2>1. bind[b] \in BindStates
    BY DEF BindInv, TypeOK
  <2> QED
    BY <1>1, <2>1, WaitingFields DEF Request
<1>3. /\ bind' \in [Binds -> BindStates]
      /\ bind'[b] = l
      /\ \A o \in Binds \ {b} : bind'[o] = bind[o]
  BY <1>2, FieldsOfOne DEF BindInv, TypeOK
<1>4. /\ check' \in [Checks -> CheckStates]
      /\ check'[c].at = "asking" /\ check'[c].pw = Request(b).pw
      /\ \A d \in Checks \ {c} : check'[d] = check[d]
  BY <1>1, WhoIsAsked DEF CheckStates, BindInv, TypeOK
<1>5. SoundBind(l)
  BY <1>1, <1>2 DEF SoundBind, TrueOf
<1>6. \A m : SoundBind(m) => SoundBind(m)'
  BY DEF SoundBind, Decidable, Askable, TrueOf, IsReader, Account
<1>7. BindsAreSound'
  BY <1>3, <1>5, <1>6 DEF BindsAreSound, BindInv
<1>8. \A o \in Binds : bind[o].check \in Checks \cup {None} /\ bind[o].check # c
  BY BindAssumption DEF BindInv, TypeOK, BindStates, ChecksAreTheirs
<1>9. ChecksAreTheirs'
  BY <1>2, <1>3, <1>4, <1>8, BindAssumption DEF ChecksAreTheirs, BindInv, Request
<1> QED
  BY <1>3, <1>4, <1>7, <1>9

\* An answer reaches the bind that waits on its channel, and it is true of that
\* bind's password, whoever else asks the same source.
LEMMA AnswerIsTheirs ==
  ASSUME BindInv, NEW c \in Checks, SourceAnswers(c)
  PROVE  /\ bind' \in [Binds -> BindStates] /\ check' \in [Checks -> CheckStates]
         /\ BindsAreSound' /\ ChecksAreTheirs'
<1>1. PICK says \in Said \ {"none"} :
        /\ \/ says = (IF check[c].pw = "right" THEN "right" ELSE "wrong")
           \/ says = "outage"
        /\ bind' = Deliver(c, says)
  BY DEF SourceAnswers
<1>2. /\ check[c].at = "asking" /\ UNCHANGED mfa
      /\ check' = [check EXCEPT ![c].at = "said"]
  BY DEF SourceAnswers, world
<1>3. /\ check' \in [Checks -> CheckStates]
      /\ check'[c].at = "said"
      /\ \A d \in Checks : check'[d].pw = check[d].pw
      /\ \A d \in Checks \ {c} : check'[d] = check[d]
  BY <1>2 DEF CheckStates, BindInv, TypeOK
<1>4. ASSUME NEW o \in Binds
      PROVE  /\ bind'[o] \in BindStates
             /\ bind'[o].at = bind[o].at /\ bind'[o].req = bind[o].req
             /\ bind'[o].check = bind[o].check
             /\ bind'[o].said = bind[o].said /\ bind'[o].code = bind[o].code
             /\ bind'[o].done = IF bind[o].check = c THEN says ELSE bind[o].done
  BY <1>1 DEF Deliver, BindInv, TypeOK, BindStates, Said
<1>5. bind' \in [Binds -> BindStates]
  BY <1>1, <1>4 DEF Deliver
<1>6. \A o \in Binds : bind[o].check = c =>
        bind[o].at = "wait" /\ TrueOf(says, bind[o].req)
  BY <1>1, BindAssumption
     DEF BindInv, BindsAreSound, SoundBind, ChecksAreTheirs, Request, TrueOf
<1>7. BindsAreSound'
  <2> SUFFICES ASSUME NEW o \in Binds PROVE SoundBind(bind[o])'
    BY DEF BindsAreSound
  <2>1. SoundBind(bind[o])
    BY DEF BindInv, BindsAreSound
  <2> QED
    BY <1>2, <1>4, <1>6, <2>1 DEF SoundBind, Decidable, Askable, TrueOf, IsReader, Account
<1>8. ChecksAreTheirs'
  BY <1>3, <1>4 DEF ChecksAreTheirs, BindInv, Request, TypeOK, BindStates
<1> QED
  BY <1>3, <1>5, <1>7, <1>8

\* The goroutine ends: who still waited keeps what was said, and no channel.
LEMMA CheckEnds ==
  ASSUME BindInv, NEW c \in Checks, ReleaseCheck(c)
  PROVE  /\ bind' \in [Binds -> BindStates] /\ check' \in [Checks -> CheckStates]
         /\ BindsAreSound' /\ ChecksAreTheirs'
<1>1. /\ UNCHANGED mfa /\ check' = [check EXCEPT ![c] = NoCheck]
      /\ bind' = [b \in Binds |-> IF bind[b].check = c
                                  THEN [bind[b] EXCEPT !.check = None] ELSE bind[b]]
  BY DEF ReleaseCheck, world
<1>2. check' \in [Checks -> CheckStates] /\ \A d \in Checks \ {c} : check'[d] = check[d]
  BY <1>1, BindAssumption DEF CheckStates, NoCheck, BindInv, TypeOK
<1>3. ASSUME NEW o \in Binds
      PROVE  /\ bind'[o] \in BindStates
             /\ bind'[o].at = bind[o].at /\ bind'[o].req = bind[o].req
             /\ bind'[o].check = IF bind[o].check = c THEN None ELSE bind[o].check
             /\ bind'[o].done = bind[o].done
             /\ bind'[o].said = bind[o].said /\ bind'[o].code = bind[o].code
  BY <1>1 DEF BindInv, TypeOK, BindStates
<1>4. bind' \in [Binds -> BindStates]
  BY <1>1, <1>3
<1>5. BindsAreSound'
  <2> SUFFICES ASSUME NEW o \in Binds PROVE SoundBind(bind[o])'
    BY DEF BindsAreSound
  <2>1. SoundBind(bind[o])
    BY DEF BindInv, BindsAreSound
  <2> QED
    BY <1>1, <1>3, <2>1 DEF SoundBind, Decidable, Askable, TrueOf, IsReader, Account
<1>6. ChecksAreTheirs'
  <2> SUFFICES ASSUME NEW o \in Binds, bind'[o].check # None
               PROVE  /\ check'[bind'[o].check].at # "off"
                      /\ check'[bind'[o].check].pw = bind'[o].req.pw
    BY DEF ChecksAreTheirs, Request
  <2>1. bind'[o].check = bind[o].check /\ bind[o].check \in Checks \ {c}
    BY <1>3 DEF BindInv, TypeOK, BindStates
  <2> QED
    BY <1>2, <1>3, <2>1 DEF BindInv, ChecksAreTheirs, Request
<1> QED
  BY <1>2, <1>4, <1>5, <1>6

\* What every step keeps, of what the binds know.
Known == /\ bind \in [Binds -> BindStates] /\ check \in [Checks -> CheckStates]
         /\ BindsAreSound /\ ChecksAreTheirs

\* A bind that was answered knows nothing any more.
LEMMA AnsweredBind ==
  ASSUME BindInv, NEW b \in Binds, NEW result \in Results, Reply(b, result),
         UNCHANGED <<mfa, check>>
  PROVE  Known'
<1> DEFINE l == [Idle EXCEPT !.result = result]
<1>1. /\ l \in BindStates /\ l.at = "idle" /\ l.check = None /\ l.code = "none"
      /\ l.done = "none"
  BY ReplyFields
<1>2. SoundBind(l)
  BY <1>1 DEF SoundBind
<1>3. bind' = [bind EXCEPT ![b] = l]
  BY DEF Reply
<1> HIDE DEF l
<1>4. bind' \in [Binds -> BindStates] /\ BindsAreSound' /\ ChecksAreTheirs'
  BY <1>1, <1>2, <1>3, OneBindMoves
<1> QED
  BY <1>4 DEF Known, BindInv, TypeOK

\* So does one whose answer says the data was too old.
LEMMA AnsweredOldBind ==
  ASSUME BindInv, NEW b \in Binds, NEW result \in Results, NEW old \in BOOLEAN,
         bind' = [bind EXCEPT ![b] = [Idle EXCEPT !.old = old, !.result = result]],
         UNCHANGED <<mfa, check>>
  PROVE  Known'
<1> DEFINE l == [Idle EXCEPT !.old = old, !.result = result]
<1>1. /\ l \in BindStates /\ l.at = "idle" /\ l.check = None /\ l.code = "none"
      /\ l.done = "none"
  BY DEF Idle, BindStates, Said, Results
<1>2. SoundBind(l)
  BY <1>1 DEF SoundBind
<1>3. bind' = [bind EXCEPT ![b] = l]
  OBVIOUS
<1> HIDE DEF l
<1>4. bind' \in [Binds -> BindStates] /\ BindsAreSound' /\ ChecksAreTheirs'
  BY <1>1, <1>2, <1>3, OneBindMoves
<1> QED
  BY <1>4 DEF Known, BindInv, TypeOK

\* A bind that goes on with what it knows.
LEMMA MovedBind ==
  ASSUME BindInv, NEW b \in Binds, NEW at \in {"ask", "token", "decide"}, Goto(b, at),
         bind[b].at # "wait",
         UNCHANGED <<mfa, check>>,
         Request(b) \in Requests,
         bind[b].code = "none",
         at = "ask" => Askable(Request(b)),
         at = "token" => Request(b).how = "token",
         at = "decide" => /\ Request(b).how = "token" /\ Request(b).genuine
                          /\ Request(b).name \in People
  PROVE  Known'
<1> DEFINE l == [bind[b] EXCEPT !.at = at]
<1>1. bind[b] \in BindStates /\ SoundBind(bind[b])
  BY DEF BindInv, TypeOK, BindsAreSound
<1>2. /\ l \in BindStates /\ l.at = at /\ l.req = Request(b) /\ l.check = bind[b].check
      /\ l.code = "none" /\ l.done = bind[b].done
  BY <1>1 DEF Request, BindStates, SoundBind
<1>3. SoundBind(l)
  BY <1>1, <1>2 DEF SoundBind, Decidable
<1>4. bind' = [bind EXCEPT ![b] = l]
  BY FieldsOfOne DEF BindInv, TypeOK, Goto
<1> HIDE DEF l
<1>5. bind' \in [Binds -> BindStates] /\ BindsAreSound' /\ ChecksAreTheirs'
  BY <1>2, <1>3, <1>4, OneBindMoves
<1> QED
  BY <1>5 DEF Known, BindInv, TypeOK

\* The wait is over, with what the check said or with an outage: it is true of
\* the request either way.
LEMMA HeardBind ==
  ASSUME BindInv, NEW b \in Binds, NEW says \in Said \ {"none"}, Heard(b, says),
         bind[b].at = "wait", says = bind[b].done \/ says = "outage",
         UNCHANGED <<mfa, check>>
  PROVE  Known'
<1> DEFINE at == IF mfa.code THEN "code" ELSE "decide"
           l == [bind[b] EXCEPT !.at = at, !.check = None, !.done = "none", !.said = says]
<1>1. bind[b] \in BindStates /\ SoundBind(bind[b])
  BY DEF BindInv, TypeOK, BindsAreSound
<1>2. at \in Places
  BY DEF Places
<1>3. bind' = [bind EXCEPT ![b] = l]
  BY FieldsOfOne DEF BindInv, TypeOK, Heard
<1>4. mfa.code => at = "code"
  OBVIOUS
<1>5. ~mfa.code => at = "decide"
  OBVIOUS
<1> HIDE DEF at
<1>6. /\ l \in BindStates /\ l.at = at /\ l.req = bind[b].req /\ l.check = None
      /\ l.done = "none" /\ l.said = says /\ l.code = bind[b].code
  BY <1>1, <1>2 DEF BindStates, Places, Said
<1> HIDE DEF l
<1>7. SoundBind(l)
  BY <1>1, <1>4, <1>5, <1>6 DEF SoundBind, Decidable, Askable, TrueOf
<1>8. bind' \in [Binds -> BindStates] /\ BindsAreSound' /\ ChecksAreTheirs'
  BY <1>3, <1>6, <1>7, OneBindMoves
<1> QED
  BY <1>8 DEF Known, BindInv, TypeOK

\* A source that has too many checks is not asked: an outage, true of any
\* password.
LEMMA RefusedCheck ==
  ASSUME BindInv, NEW b \in Binds, bind[b].at = "ask",
         bind' = [bind EXCEPT ![b].at = IF mfa.code THEN "code" ELSE "decide",
                              ![b].said = "outage"],
         UNCHANGED <<mfa, check>>
  PROVE  Known'
<1> DEFINE at == IF mfa.code THEN "code" ELSE "decide"
           l == [bind[b] EXCEPT !.at = at, !.said = "outage"]
<1>1. bind[b] \in BindStates /\ SoundBind(bind[b])
  BY DEF BindInv, TypeOK, BindsAreSound
<1>2. at \in Places /\ "outage" \in Said
  BY DEF Places, Said
<1>3. bind' = [bind EXCEPT ![b] = l]
  BY FieldsOfOne DEF BindInv, TypeOK
<1>4. mfa.code => at = "code"
  OBVIOUS
<1>5. ~mfa.code => at = "decide"
  OBVIOUS
<1> HIDE DEF at
<1>6. /\ l \in BindStates /\ l.at = at /\ l.req = bind[b].req /\ l.check = bind[b].check
      /\ l.done = bind[b].done /\ l.said = "outage" /\ l.code = bind[b].code
  BY <1>1, <1>2 DEF BindStates, Places, Said
<1> HIDE DEF l
<1>7. SoundBind(l)
  BY <1>1, <1>4, <1>5, <1>6 DEF SoundBind, Decidable, Askable, TrueOf
<1>8. bind' \in [Binds -> BindStates] /\ BindsAreSound' /\ ChecksAreTheirs'
  BY <1>3, <1>6, <1>7, OneBindMoves DEF Request
<1> QED
  BY <1>8 DEF Known, BindInv, TypeOK

\* A code is accepted only of an account that has a secret, and only when it is
\* right.
LEMMA CodedBind ==
  ASSUME BindInv, NEW b \in Binds, AskCode(b)
  PROVE  Known'
<1>1. PICK found \in {"accepted", "refused"} :
        /\ bind' = [bind EXCEPT ![b].at = "decide", ![b].code = found]
        /\ found = "accepted" =>
             Request(b).code \in Codes /\ Account(Request(b)) \in Enrolled
  BY DEF AskCode, Verifier
<1> DEFINE l == [bind[b] EXCEPT !.at = "decide", !.code = found]
<1>2. bind[b] \in BindStates /\ SoundBind(bind[b]) /\ bind[b].at = "code"
      /\ UNCHANGED <<mfa, check>>
  BY DEF BindInv, TypeOK, BindsAreSound, AskCode, world
<1>3. bind' = [bind EXCEPT ![b] = l]
  BY <1>1, FieldsOfOne DEF BindInv, TypeOK
<1>4. /\ l \in BindStates /\ l.at = "decide" /\ l.req = Request(b)
      /\ l.check = bind[b].check /\ l.done = bind[b].done
      /\ l.said = bind[b].said /\ l.code = found
  BY <1>2 DEF BindStates, Request
<1> HIDE DEF l
<1>5. SoundBind(l)
  BY <1>1, <1>2, <1>4 DEF SoundBind, Decidable, Askable, TrueOf, Request
<1>6. bind' \in [Binds -> BindStates] /\ BindsAreSound' /\ ChecksAreTheirs'
  BY <1>2, <1>3, <1>4, <1>5, OneBindMoves
<1> QED
  BY <1>2, <1>6 DEF Known, BindInv, TypeOK

\* What a bind is told, decided and answered is about its own request, at every
\* step of any of them.
LEMMA KnownStep ==
  ASSUME BindInv, [Next]_vars
  PROVE  Known'
<1> USE DEF world
<1>1. CASE ChangeHealth
  <2>1. UNCHANGED <<mfa, bind, check>>
    BY <1>1 DEF ChangeHealth
  <2>2. \A m : SoundBind(m) => SoundBind(m)'
    BY <2>1 DEF SoundBind, Decidable, Askable, TrueOf, IsReader, Account
  <2> QED
    BY <2>1, <2>2 DEF Known, BindInv, TypeOK, BindsAreSound, ChecksAreTheirs, Request
<1>2. CASE UNCHANGED vars
  <2>1. UNCHANGED <<mfa, bind, check>>
    BY <1>2 DEF vars
  <2>2. \A m : SoundBind(m) => SoundBind(m)'
    BY <2>1 DEF SoundBind, Decidable, Askable, TrueOf, IsReader, Account
  <2> QED
    BY <2>1, <2>2 DEF Known, BindInv, TypeOK, BindsAreSound, ChecksAreTheirs, Request
<1>3. ASSUME NEW b \in Binds, Arrive(b) PROVE Known'
  <2>1. PICK r \in Requests :
          bind' = [bind EXCEPT ![b] = [Idle EXCEPT !.at = "arrived", !.req = r]]
    BY <1>3 DEF Arrive
  <2> DEFINE l == [Idle EXCEPT !.at = "arrived", !.req = r]
  <2>2. /\ l \in BindStates /\ l.at = "arrived" /\ l.req = r
        /\ l.check = None /\ l.code = "none" /\ l.done = "none"
    BY DEF Idle, BindStates, Said, Results
  <2>3. bind' = [bind EXCEPT ![b] = l] /\ UNCHANGED <<mfa, check>>
    BY <1>3, <2>1 DEF Arrive
  <2> HIDE DEF l
  <2>4. SoundBind(l)
    BY <2>2 DEF SoundBind
  <2>5. bind' \in [Binds -> BindStates] /\ BindsAreSound' /\ ChecksAreTheirs'
    BY <2>2, <2>3, <2>4, OneBindMoves
  <2> QED
    BY <2>3, <2>5 DEF Known, BindInv, TypeOK
<1>4. ASSUME NEW b \in Binds, Look(b) PROVE Known'
  <2>1. PICK old \in BOOLEAN :
          LET answer == AtTheDoor(Request(b), old) IN
          IF answer = "ask" THEN Goto(b, "ask")
          ELSE bind' = [bind EXCEPT ![b] = [Idle EXCEPT !.old = (answer = "unavailable"),
                                                        !.result = answer]]
    BY <1>4 DEF Look
  <2>2. /\ bind[b].at = "arrived" /\ Request(b).how = "simple" /\ UNCHANGED <<mfa, check>>
        /\ Request(b) \in Requests /\ bind[b].code = "none"
    BY <1>4 DEF Look, BindInv, BindsAreSound, SoundBind, Request
  <2> DEFINE answer == AtTheDoor(Request(b), old)
  <2>3. CASE answer = "ask"
    <3>1. Askable(Request(b))
      BY <2>2, <2>3, DoorIsKept
    <3>2. Goto(b, "ask")
      BY <2>1, <2>3
    <3> QED
      BY <2>2, <3>1, <3>2, MovedBind
  <2>4. CASE answer # "ask"
    <3>1. answer \in Results
      BY <2>4, DoorAnswers
    <3>2. bind' = [bind EXCEPT ![b] = [Idle EXCEPT !.old = (answer = "unavailable"),
                                                   !.result = answer]]
      BY <2>1, <2>4
    <3> HIDE DEF answer
    <3> QED
      BY <2>2, <3>1, <3>2, AnsweredOldBind
  <2> QED
    BY <2>3, <2>4
<1>5. ASSUME NEW b \in Binds, CompareReader(b) PROVE Known'
  BY <1>5, AnsweredBind DEF CompareReader, Results
<1>6. ASSUME NEW b \in Binds, Ask(b) PROVE Known'
  <2>1. /\ bind[b].at = "ask" /\ UNCHANGED mfa
        /\ Source(Request(b)) \in Sources
    BY <1>6, WhoIsAsked DEF Ask, BindInv, BindsAreSound, SoundBind, Request
  <2>2. ASSUME NEW c \in Checks, check[c].at = "off",
               check' = [check EXCEPT ![c] = [at |-> "asking",
                                              source |-> Source(Request(b)),
                                              pw |-> Request(b).pw]],
               bind' = [bind EXCEPT ![b].at = "wait", ![b].check = c]
        PROVE  Known'
    BY <2>1, <2>2, CheckStarts DEF Known
  <2>3. ASSUME bind' = [bind EXCEPT ![b].at = IF mfa.code THEN "code" ELSE "decide",
                                    ![b].said = "outage"],
               UNCHANGED check
        PROVE  Known'
    BY <2>1, <2>3, RefusedCheck
  <2> QED
    BY <1>6, <2>2, <2>3 DEF Ask
<1>7. ASSUME NEW b \in Binds, Hear(b) PROVE Known'
  <2>1. bind[b].done \in Said \ {"none"}
    BY <1>7 DEF Hear, BindInv, TypeOK, BindStates
  <2> QED
    BY <1>7, <2>1, HeardBind DEF Hear
<1>8. ASSUME NEW b \in Binds, GiveUp(b) PROVE Known'
  <2>1. "outage" \in Said \ {"none"}
    BY DEF Said
  <2> QED
    BY <1>8, <2>1, HeardBind DEF GiveUp
<1>9. ASSUME NEW b \in Binds, AskCode(b) PROVE Known'
  BY <1>9, CodedBind
<1>10. ASSUME NEW b \in Binds, Decide(b) PROVE Known'
  <2>1. PICK result \in {"success", "unavailable", "invalidCredentials"} :
          Reply(b, result)
    BY <1>10 DEF Decide
  <2>2. result \in Results /\ UNCHANGED <<mfa, check>>
    BY <1>10 DEF Results, Decide
  <2> QED
    BY <2>1, <2>2, AnsweredBind
<1>11. ASSUME NEW b \in Binds, LookAtToken(b) PROVE Known'
  <2>1. UNCHANGED <<mfa, check>> /\ bind[b].at = "arrived" /\ Request(b).how = "token"
    BY <1>11 DEF LookAtToken
  <2>2. CASE Goto(b, "token")
    <3>1. Request(b) \in Requests /\ bind[b].code = "none"
      BY <2>1 DEF BindInv, BindsAreSound, SoundBind, Request
    <3> QED
      BY <2>1, <2>2, <3>1, MovedBind
  <2>3. ASSUME NEW result \in {"authMethodNotSupported", "invalidCredentials",
                               "confidentialityRequired", "saslBindInProgress"},
               Reply(b, result)
        PROVE  Known'
    <3>1. result \in Results
      BY DEF Results
    <3> QED
      BY <2>1, <2>3, <3>1, AnsweredBind
  <2> QED
    BY <1>11, <2>2, <2>3 DEF LookAtToken
<1>12. ASSUME NEW b \in Binds, VerifyToken(b) PROVE Known'
  <2>1. UNCHANGED <<mfa, check>> /\ bind[b].at = "token"
    BY <1>12 DEF VerifyToken
  <2>2. CASE Request(b).genuine
             /\ bind' = [bind EXCEPT ![b].at = "verified", ![b].said = "right"]
    <3> DEFINE l == [bind[b] EXCEPT !.at = "verified", !.said = "right"]
    <3>1. bind[b] \in BindStates /\ SoundBind(bind[b])
      BY DEF BindInv, TypeOK, BindsAreSound
    <3>2. bind' = [bind EXCEPT ![b] = l]
      BY <2>2, FieldsOfOne DEF BindInv, TypeOK
    <3>3. /\ l \in BindStates /\ l.at = "verified" /\ l.req = bind[b].req
          /\ l.check = bind[b].check /\ l.done = bind[b].done /\ l.code = bind[b].code
      BY <3>1 DEF BindStates, Said
    <3> HIDE DEF l
    <3>4. SoundBind(l)
      BY <2>1, <2>2, <3>1, <3>3 DEF SoundBind, Request
    <3>5. bind' \in [Binds -> BindStates] /\ BindsAreSound' /\ ChecksAreTheirs'
      BY <2>1, <3>2, <3>3, <3>4, OneBindMoves DEF Request
    <3> QED
      BY <2>1, <3>5 DEF Known, BindInv, TypeOK
  <2>3. CASE Reply(b, "saslBindInProgress")
    <3>1. "saslBindInProgress" \in Results
      BY DEF Results
    <3> QED
      BY <2>1, <2>3, <3>1, AnsweredBind
  <2> QED
    BY <1>12, <2>2, <2>3 DEF VerifyToken
<1>13. ASSUME NEW b \in Binds, IdentifyToken(b) PROVE Known'
  <2>1. /\ UNCHANGED <<mfa, check>> /\ bind[b].at = "verified"
        /\ "saslBindInProgress" \in Results
    BY <1>13 DEF IdentifyToken, Results
  <2>2. CASE Request(b).name \in People /\ Goto(b, "decide")
    <3>1. /\ Request(b) \in Requests /\ bind[b].code = "none"
          /\ Request(b).how = "token" /\ Request(b).genuine
      BY <2>1 DEF BindInv, BindsAreSound, SoundBind, Request
    <3> QED
      BY <2>1, <2>2, <3>1, MovedBind
  <2>3. CASE Reply(b, "saslBindInProgress")
    BY <2>1, <2>3, AnsweredBind
  <2>4. CASE bind' = [bind EXCEPT ![b] = [Idle EXCEPT !.old = TRUE,
                                                      !.result = "saslBindInProgress"]]
    BY <2>1, <2>4, AnsweredOldBind
  <2> QED
    BY <1>13, <2>2, <2>3, <2>4 DEF IdentifyToken
<1>14. ASSUME NEW c \in Checks, SourceAnswers(c) PROVE Known'
  BY <1>14, AnswerIsTheirs DEF Known
<1>15. ASSUME NEW c \in Checks, ReleaseCheck(c) PROVE Known'
  BY <1>15, CheckEnds DEF Known
<1> QED
  BY <1>1, <1>2, <1>3, <1>4, <1>5, <1>6, <1>7, <1>8, <1>9, <1>10, <1>11, <1>12, <1>13,
     <1>14, <1>15 DEF Next, Serve

------------------------------------------------------------------------------
(***************************************************************************)
(* pendingChecks, step by step.                                            *)
(***************************************************************************)
\* acquireCheck: one more goroutine of one source, where there was room.
LEMMA CheckIsCounted ==
  ASSUME BindInv, NEW b \in Binds, Ask(b)
  PROVE  PendingIsBounded' /\ pending' \in [Sources -> Nat]
<1>1. PICK at \in Sources : at = Source(Request(b))
  BY WhoIsAsked DEF Ask, BindInv, BindsAreSound, SoundBind, Request
<1>2. CASE UNCHANGED <<check, pending>>
  BY <1>2 DEF PendingIsBounded, Outstanding, BindInv, TypeOK
<1>3. ASSUME NEW c \in Checks, check[c].at = "off",
             check' = [check EXCEPT ![c] = [at |-> "asking", source |-> at,
                                            pw |-> Request(b).pw]],
             pending' = [pending EXCEPT ![at] = @ + 1],
             pending[at] < MaxPending
      PROVE  PendingIsBounded' /\ pending' \in [Sources -> Nat]
  <2>1. /\ check \in [Checks -> CheckStates]
        /\ pending \in [Sources -> Nat] /\ MaxPending \in Nat
    BY BindAssumption DEF BindInv, TypeOK
  <2>2. /\ check'[c].at = "asking" /\ check'[c].source = at
        /\ \A d \in Checks \ {c} : check'[d] = check[d]
    BY <1>3, <2>1
  <2>3. /\ Outstanding(at)' = Outstanding(at) \cup {c} /\ c \notin Outstanding(at)
        /\ \A k \in Sources \ {at} : Outstanding(k)' = Outstanding(k)
    BY <1>3, <2>2 DEF Outstanding
  <2>4. /\ IsFiniteSet(Outstanding(at)') /\ IsFiniteSet(Outstanding(at))
        /\ Cardinality(Outstanding(at)') = Cardinality(Outstanding(at)) + 1
    BY <2>1, <2>3, FS_AddElement DEF BindInv, PendingIsBounded
  <2>5. /\ pending'[at] = pending[at] + 1
        /\ \A k \in Sources \ {at} : pending'[k] = pending[k]
        /\ pending' \in [Sources -> Nat]
    BY <1>3, <2>1
  <2>6. ASSUME NEW k \in Sources
        PROVE  /\ IsFiniteSet(Outstanding(k)')
               /\ pending'[k] = Cardinality(Outstanding(k)')
               /\ pending'[k] <= MaxPending
    <3>1. CASE k = at
      BY <1>3, <2>1, <2>4, <2>5, <3>1 DEF BindInv, PendingIsBounded
    <3>2. CASE k # at
      BY <2>3, <2>5, <3>2 DEF BindInv, PendingIsBounded
    <3> QED
      BY <3>1, <3>2
  <2> QED
    BY <2>5, <2>6 DEF PendingIsBounded
<1> QED
  BY <1>1, <1>2, <1>3 DEF Ask, MayAcquire

\* releaseCheck: one goroutine fewer of its source, whether anybody waited.
LEMMA CheckIsReleased ==
  ASSUME BindInv, NEW c \in Checks, ReleaseCheck(c)
  PROVE  PendingIsBounded' /\ pending' \in [Sources -> Nat]
<1>0. PICK at \in Sources : at = check[c].source
  BY DEF BindInv, TypeOK, CheckStates
<1>1. /\ check \in [Checks -> CheckStates]
      /\ pending \in [Sources -> Nat] /\ MaxPending \in Nat
  BY BindAssumption DEF BindInv, TypeOK
<1>2. /\ check[c].at = "said"
      /\ check' = [check EXCEPT ![c] = NoCheck]
      /\ pending' = [pending EXCEPT ![at] = @ - 1]
  BY <1>0 DEF ReleaseCheck
<1>3. /\ check'[c].at = "off"
      /\ \A d \in Checks \ {c} : check'[d] = check[d]
  BY <1>1, <1>2 DEF NoCheck
<1>4. /\ Outstanding(at)' = Outstanding(at) \ {c} /\ c \in Outstanding(at)
      /\ \A k \in Sources \ {at} : Outstanding(k)' = Outstanding(k)
  BY <1>0, <1>2, <1>3 DEF Outstanding
<1>5. /\ IsFiniteSet(Outstanding(at)') /\ IsFiniteSet(Outstanding(at))
      /\ Cardinality(Outstanding(at)') = Cardinality(Outstanding(at)) - 1
  BY <1>1, <1>4, FS_RemoveElement DEF BindInv, PendingIsBounded
<1>6. Cardinality(Outstanding(at)') \in Nat
  BY <1>5, FS_CardinalityType
<1>7. /\ pending'[at] = pending[at] - 1
      /\ \A k \in Sources \ {at} : pending'[k] = pending[k]
  BY <1>1, <1>2
<1>8. pending[at] = Cardinality(Outstanding(at)) /\ pending[at] <= MaxPending
  BY <1>1 DEF BindInv, PendingIsBounded
<1>9. pending' \in [Sources -> Nat]
  BY <1>1, <1>2, <1>5, <1>6, <1>8
<1>10. ASSUME NEW k \in Sources
       PROVE  /\ IsFiniteSet(Outstanding(k)')
              /\ pending'[k] = Cardinality(Outstanding(k)')
              /\ pending'[k] <= MaxPending
  <2>1. CASE k = at
    BY <1>1, <1>5, <1>7, <1>8, <2>1
  <2>2. CASE k # at
    BY <1>4, <1>7, <2>2 DEF BindInv, PendingIsBounded
  <2> QED
    BY <2>1, <2>2
<1> QED
  BY <1>9, <1>10 DEF PendingIsBounded

\* A source that answers, and everything else, leaves the count alone.
LEMMA PendingStep ==
  ASSUME BindInv, [Next]_vars
  PROVE  PendingIsBounded' /\ pending' \in [Sources -> Nat]
<1>1. ASSUME NEW b \in Binds, Ask(b) PROVE PendingIsBounded' /\ pending' \in [Sources -> Nat]
  BY <1>1, CheckIsCounted
<1>2. ASSUME NEW c \in Checks, ReleaseCheck(c)
      PROVE  PendingIsBounded' /\ pending' \in [Sources -> Nat]
  BY <1>2, CheckIsReleased
<1>3. ASSUME NEW c \in Checks, SourceAnswers(c)
      PROVE  PendingIsBounded' /\ pending' \in [Sources -> Nat]
  <2>1. /\ check[c].at = "asking" /\ check' = [check EXCEPT ![c].at = "said"]
        /\ UNCHANGED pending
    BY <1>3 DEF SourceAnswers
  <2>2. \A d \in Checks : /\ check'[d].source = check[d].source
                          /\ check'[d].at # "off" <=> check[d].at # "off"
    BY <2>1 DEF BindInv, TypeOK, CheckStates
  <2>3. \A k \in Sources : Outstanding(k)' = Outstanding(k)
    BY <2>2 DEF Outstanding
  <2> QED
    BY <2>1, <2>3 DEF PendingIsBounded, BindInv, TypeOK
<1>4. CASE UNCHANGED <<check, pending>>
  BY <1>4 DEF PendingIsBounded, Outstanding, BindInv, TypeOK
<1> QED
  BY <1>1, <1>2, <1>3, <1>4
     DEF Next, Serve, vars, ChangeHealth, Arrive, Look, CompareReader, Hear, GiveUp,
         AskCode, Decide, LookAtToken, VerifyToken, IdentifyToken

------------------------------------------------------------------------------
(***************************************************************************)
(* The Verifier.                                                           *)
(***************************************************************************)
\* The types of what it keeps, and that it never forgets a code.
LEMMA VerifierStep ==
  ASSUME BindInv, [Next]_vars
  PROVE  /\ used' \subseteq Keys \X Codes /\ fails' \in [Keys -> 0..MaxGuesses]
         /\ accepted' \subseteq Accounts \X Codes
         /\ AcceptedAreUsed' /\ used \subseteq used'
<1> USE DEF BindInv, TypeOK, AcceptedAreUsed
<1>1. CASE UNCHANGED codes
  BY <1>1 DEF codes
<1>2. ASSUME NEW b \in Binds, AskCode(b)
      PROVE  /\ used' \subseteq Keys \X Codes /\ fails' \in [Keys -> 0..MaxGuesses]
             /\ accepted' \subseteq Accounts \X Codes
             /\ AcceptedAreUsed' /\ used \subseteq used'
  <2> DEFINE r == Request(b)
  <2>1. /\ Account(r) \in Accounts /\ Key(r) = Account(r) /\ Key(r) \in Keys
        /\ MaxGuesses \in Nat \ {0}
    BY <1>2, WhoIsAsked, BindAssumption DEF AskCode, BindsAreSound, SoundBind, Request
  <2>2. PICK found \in {"accepted", "refused"} :
          /\ \/ Verifier(Key(r), Account(r) \in Enrolled, r.code, found)
             \/ found = "refused" /\ UNCHANGED <<used, fails>>
          /\ accepted' = IF found = "accepted" THEN accepted \cup {<<Account(r), r.code>>}
                                               ELSE accepted
    BY <1>2 DEF AskCode
  <2> HIDE DEF r
  <2>3. CASE UNCHANGED <<used, fails>> /\ found = "refused"
    BY <2>2, <2>3
  <2>4. CASE /\ fails[Key(r)] < MaxGuesses /\ r.code \in Codes /\ found = "accepted"
             /\ used' = used \cup {<<Key(r), r.code>>}
             /\ fails' = [fails EXCEPT ![Key(r)] = 0]
    BY <2>1, <2>2, <2>4
  <2>5. CASE /\ fails[Key(r)] < MaxGuesses /\ found = "refused"
             /\ fails' = [fails EXCEPT ![Key(r)] = @ + 1] /\ UNCHANGED used
    BY <2>1, <2>2, <2>5
  <2> QED
    BY <2>2, <2>3, <2>4, <2>5 DEF Verifier
<1> QED
  BY <1>1, <1>2
     DEF Next, Serve, vars, codes, ChangeHealth, Arrive, Look, CompareReader, Ask, Hear,
         GiveUp, Decide, LookAtToken, VerifyToken, IdentifyToken, SourceAnswers,
         ReleaseCheck

------------------------------------------------------------------------------
\* No bind, no check, nothing counted.
LEMMA BindInit == Init => BindInv
<1> SUFFICES ASSUME Init PROVE BindInv
  OBVIOUS
<1>1. Idle \in BindStates /\ Idle.at = "idle" /\ Idle.check = None
      /\ Idle.code = "none" /\ Idle.done = "none"
  BY DEF Idle, BindStates, Said, Results
<1>2. NoCheck \in CheckStates /\ NoCheck.at = "off"
  BY BindAssumption DEF NoCheck, CheckStates
<1>3. TypeOK
  BY <1>1, <1>2, BindAssumption DEF Init, TypeOK
<1>4. BindsAreSound /\ ChecksAreTheirs
  BY <1>1 DEF Init, BindsAreSound, SoundBind, ChecksAreTheirs
<1>5. \A k \in Sources : Outstanding(k) = {} /\ pending[k] = 0
  BY <1>2 DEF Init, Outstanding
<1>6. PendingIsBounded
  BY <1>5, FS_EmptySet, BindAssumption DEF PendingIsBounded
<1>7. AcceptedAreUsed
  BY DEF Init, AcceptedAreUsed
<1> QED
  BY <1>3, <1>4, <1>6, <1>7 DEF BindInv

\* Every step of a bind, of the issuer's answer and of the session keeps the invariant.
LEMMA BindStep == BindInv /\ [Next]_vars => BindInv'
<1> SUFFICES ASSUME BindInv, [Next]_vars PROVE BindInv'
  OBVIOUS
<1>1. mfa' \in [code : BOOLEAN, readers : BOOLEAN]
      /\ health' \in [Sources -> {"up", "down", "hung"}]
  <2>1. UNCHANGED mfa /\ (UNCHANGED health \/ ChangeHealth)
    BY DEF Next, Serve, vars, world, ChangeHealth, Arrive, Look, CompareReader, Ask, Hear,
           GiveUp, AskCode, Decide, LookAtToken, VerifyToken, IdentifyToken,
           SourceAnswers, ReleaseCheck
  <2> QED
    BY <2>1 DEF BindInv, TypeOK, ChangeHealth
<1>2. Known' /\ PendingIsBounded' /\ pending' \in [Sources -> Nat]
  BY KnownStep, PendingStep
<1>3. /\ used' \subseteq Keys \X Codes /\ fails' \in [Keys -> 0..MaxGuesses]
      /\ accepted' \subseteq Accounts \X Codes /\ AcceptedAreUsed'
  BY VerifierStep
<1> QED
  BY <1>1, <1>2, <1>3 DEF BindInv, TypeOK, Known

\* It holds of every state, whatever binds are under way.
LEMMA BindInvariant == Spec => []BindInv
BY BindInit, BindStep, PTL DEF Spec

\* Every variable holds what the code could put there, with no bound on binds,
\* checks or requests.
THEOREM BindTypes == Spec => []TypeOK
<1>1. BindInv => TypeOK
  BY DEF BindInv
<1> QED
  BY <1>1, BindInvariant, PTL

\* pendingChecks says how many goroutines ask a source, through every timeout,
\* late answer and refusal (limits.go, acquireCheck and releaseCheck).
THEOREM PendingCountsChecks == Spec => []PendingIsExact
<1>1. BindInv => PendingIsExact
  BY DEF BindInv, PendingIsBounded, PendingIsExact
<1> QED
  BY <1>1, BindInvariant, PTL

\* A source that hangs holds at most maxPendingPerSource goroutines, however
\* many binds come and give up.
THEOREM ChecksStayBounded == Spec => []ChecksAreBounded
<1>1. BindInv => ChecksAreBounded
  BY DEF BindInv, PendingIsBounded, ChecksAreBounded
<1> QED
  BY <1>1, BindInvariant, PTL

------------------------------------------------------------------------------
(***************************************************************************)
(* Who may answer: the steps behind the action properties.                 *)
(***************************************************************************)
\* A step of one bind is not a step of another, and the goroutines of within
\* move no bind.
LEMMA OnlyItself ==
  ASSUME BindInv, Next, NEW b \in Binds,
         bind'[b].at # bind[b].at \/ bind'[b].code # bind[b].code
  PROVE  Arrive(b) \/ Serve(b)
<1>0. bind \in [Binds -> BindStates]
  BY DEF BindInv, TypeOK
<1>1. ASSUME NEW o \in Binds, Arrive(o) \/ Serve(o), o # b PROVE FALSE
  <2>1. bind'[b] = bind[b]
    BY <1>0, <1>1 DEF Arrive, Serve, Look, CompareReader, Ask, Hear, Heard, GiveUp, AskCode,
           Decide, LookAtToken, VerifyToken, IdentifyToken, Goto, Reply
  <2> QED
    BY <2>1
<1>2. ASSUME NEW c \in Checks, SourceAnswers(c) PROVE FALSE
  <2>1. PICK says : bind' = Deliver(c, says)
    BY <1>2 DEF SourceAnswers
  <2>2. bind'[b].at = bind[b].at /\ bind'[b].code = bind[b].code
    BY <1>0, <2>1 DEF Deliver, BindStates
  <2> QED
    BY <2>2
<1>3. ASSUME NEW c \in Checks, ReleaseCheck(c) PROVE FALSE
  <2>1. bind' = [o \in Binds |-> IF bind[o].check = c
                                 THEN [bind[o] EXCEPT !.check = None] ELSE bind[o]]
    BY <1>3 DEF ReleaseCheck
  <2>2. bind'[b].at = bind[b].at /\ bind'[b].code = bind[b].code
    BY <1>0, <2>1 DEF BindStates
  <2> QED
    BY <2>2
<1>4. CASE ChangeHealth
  BY <1>4 DEF ChangeHealth
<1> QED
  BY <1>1, <1>2, <1>3, <1>4 DEF Next

\* An answer that says whether the data was too old.
ReplyOld(b, result) ==
  \E old \in BOOLEAN :
    bind' = [bind EXCEPT ![b] = [Idle EXCEPT !.old = old, !.result = result]]

\* Where the operators the handlers are built from leave the bind.
LEMMA Afterwards ==
  ASSUME bind \in [Binds -> BindStates], NEW b \in Binds
  PROVE  /\ \A at : Goto(b, at) => bind'[b].at = at /\ bind'[b].code = bind[b].code
         /\ \A result : Reply(b, result) =>
              bind'[b].at = "idle" /\ bind'[b].code = "none" /\ bind'[b].result = result
         /\ \A result : ReplyOld(b, result) =>
              bind'[b].code = "none" /\ bind'[b].result = result
<1>1. ASSUME NEW at, Goto(b, at)
      PROVE  bind'[b].at = at /\ bind'[b].code = bind[b].code
  BY <1>1 DEF Goto, BindStates
<1>2. ASSUME NEW result, Reply(b, result)
      PROVE  bind'[b].at = "idle" /\ bind'[b].code = "none" /\ bind'[b].result = result
  BY <1>2 DEF Reply, Idle
<1>3. ASSUME NEW result, ReplyOld(b, result)
      PROVE  bind'[b].code = "none" /\ bind'[b].result = result
  BY <1>3 DEF ReplyOld, Idle
<1> QED
  BY <1>1, <1>2, <1>3

\* At the decision only Decide answers.
LEMMA OnlyDecides ==
  ASSUME BindInv, Next, NEW b \in Binds, Answers(b), bind[b].at = "decide"
  PROVE  Decide(b)
<1>1. Arrive(b) \/ Serve(b)
  BY OnlyItself DEF Answers
<1> QED
  BY <1>1 DEF Arrive, Serve, Look, CompareReader, Ask, Hear, GiveUp, AskCode,
              LookAtToken, VerifyToken, IdentifyToken

\* What Decide answers.
LEMMA DecidedResult ==
  ASSUME BindInv, NEW b \in Binds, Decide(b)
  PROVE  /\ SoundBind(bind[b]) /\ Decidable(bind[b])
         /\ bind'[b].result = "success" => Satisfied(b)
         /\ bind'[b].result = "invalidCredentials" => ~Satisfied(b) /\ ~IsOutage(b)
<1>1. SoundBind(bind[b]) /\ Decidable(bind[b])
  BY DEF BindInv, BindsAreSound, SoundBind, Decide
<1>2. \A result \in {"success", "unavailable", "invalidCredentials"} :
        Reply(b, result) => bind'[b].result = result
  BY DEF BindInv, TypeOK, Reply, Idle
<1> QED
  BY <1>1, <1>2 DEF Decide

\* Whoever is let in had in its own request what lets in: the right password,
\* with a right code of an enrolled account where one is wanted, or a genuine
\* token that names somebody.
THEOREM SuccessIsProved == Spec => ProvedBeforeSuccess
<1> DEFINE Earned(b) ==
      Answers(b) /\ bind'[b].result = "success" /\ bind[b].at = "decide" =>
        LET r == Request(b) IN
        IF r.how = "simple"
        THEN r.pw = "right" /\ (mfa.code => r.code \in Codes /\ Account(r) \in Enrolled)
        ELSE r.genuine /\ r.name \in People
<1>1. BindInv /\ [Next]_vars => [\A b \in Binds : Earned(b)]_vars
  <2> SUFFICES ASSUME BindInv, Next, NEW b \in Binds, Answers(b),
                      bind'[b].result = "success", bind[b].at = "decide"
               PROVE  Earned(b)
    BY DEF vars
  <2>1. /\ Satisfied(b) /\ SoundBind(bind[b]) /\ Decidable(bind[b])
    BY OnlyDecides, DecidedResult
  <2>2. CASE Request(b).how = "simple"
    BY <2>1, <2>2 DEF Satisfied, SoundBind, Decidable, TrueOf, Request
  <2>3. CASE Request(b).how # "simple"
    BY <2>1, <2>3 DEF Decidable, Request
  <2> QED
    BY <2>2, <2>3
<1> QED
  BY <1>1, BindInvariant, PTL DEF Spec, ProvedBeforeSuccess

\* An outage, a timeout, a cap or another bind's answer is never told as a wrong
\* password (verdict): what denies is a half of the request that was wrong.
THEOREM DenialIsDeserved == Spec => OnlyAWrongHalfIsDenied
<1> DEFINE Deserved(b) ==
      /\ Answers(b) /\ bind'[b].result = "invalidCredentials"
      /\ bind[b].at = "decide" /\ Request(b).how = "simple"
      => \/ Request(b).pw # "right"
         \/ mfa.code /\ bind[b].said = "right" /\ bind[b].code = "refused"
<1>1. BindInv /\ [Next]_vars => [\A b \in Binds : Deserved(b)]_vars
  <2> SUFFICES ASSUME BindInv, Next, NEW b \in Binds, Answers(b),
                      bind'[b].result = "invalidCredentials", bind[b].at = "decide",
                      Request(b).how = "simple"
               PROVE  Deserved(b)
    BY DEF vars
  <2>1. ~Satisfied(b) /\ ~IsOutage(b) /\ Decidable(bind[b])
    BY OnlyDecides, DecidedResult
  <2>2. bind[b].said \in Said /\ bind[b].code \in {"none", "accepted", "refused"}
    BY DEF BindInv, TypeOK, BindStates
  <2> QED
    BY <2>1, <2>2 DEF Satisfied, IsOutage, Decidable, TrueOf, Request, Said
<1> QED
  BY <1>1, BindInvariant, PTL DEF Spec, OnlyAWrongHalfIsDenied

\* The Verifier's answer for one bind: what AskCode is when a code is counted.
LEMMA WhatIsAsked ==
  ASSUME BindInv, NEW b \in Binds, AskCode(b)
  PROVE  /\ Request(b) \in Requests /\ Askable(Request(b))
         /\ Key(Request(b)) = Account(Request(b)) /\ Key(Request(b)) \in Keys
         /\ bind'[b].at = "decide"
         /\ bind'[b].code = "accepted" =>
              <<Key(Request(b)), Request(b).code>> \notin used
         /\ UNCHANGED fails
            \/ /\ Request(b).pw = "right"
               /\ \A k \in Keys \ {Key(Request(b))} : fails'[k] = fails[k]
<1>1. /\ Request(b) \in Requests /\ Askable(Request(b)) /\ bind[b].at = "code"
      /\ TrueOf(bind[b].said, Request(b)) /\ bind[b] \in BindStates
  BY DEF BindInv, TypeOK, BindsAreSound, SoundBind, AskCode, Request
<1>2. Key(Request(b)) = Account(Request(b)) /\ Key(Request(b)) \in Keys
  BY <1>1, WhoIsAsked
<1>3. PICK found \in {"accepted", "refused"} :
        /\ \/ /\ MayCount(b)
              /\ Verifier(Key(Request(b)), Account(Request(b)) \in Enrolled,
                          Request(b).code, found)
           \/ ~MayCount(b) /\ found = "refused" /\ UNCHANGED <<used, fails>>
        /\ bind' = [bind EXCEPT ![b].at = "decide", ![b].code = found]
  BY DEF AskCode
<1>4. bind'[b].at = "decide" /\ bind'[b].code = found
  BY <1>3 DEF BindInv, TypeOK, BindStates
<1>5. found = "accepted" => <<Key(Request(b)), Request(b).code>> \notin used
  BY <1>3 DEF Verifier
<1>6. \/ UNCHANGED fails
      \/ /\ Request(b).pw = "right"
         /\ \A k \in Keys \ {Key(Request(b))} : fails'[k] = fails[k]
  BY <1>1, <1>3 DEF Verifier, MayCount, TrueOf, BindInv, TypeOK
<1> QED
  BY <1>1, <1>2, <1>4, <1>5, <1>6

\* No code lets an account in twice, however its name is spelled and however
\* many binds carry the code: the Verifier has it before the next one asks.
THEOREM CodesAreUsedOnce == Spec => CodeUsedOnce
<1> DEFINE Once(b) ==
      bind[b].code = "none" /\ bind'[b].code = "accepted"
        => <<Account(Request(b)), Request(b).code>> \notin accepted
<1>1. BindInv /\ [Next]_vars => [\A b \in Binds : Once(b)]_vars
  <2> SUFFICES ASSUME BindInv, Next, NEW b \in Binds,
                      bind[b].code = "none", bind'[b].code = "accepted"
               PROVE  <<Account(Request(b)), Request(b).code>> \notin accepted
    BY DEF vars
  <2>1. Arrive(b) \/ Serve(b)
    BY OnlyItself
  <2>2. bind[b] \in BindStates
    BY DEF BindInv, TypeOK
  <2>3. CASE AskCode(b)
    BY <2>3, WhatIsAsked DEF BindInv, AcceptedAreUsed
  <2>4. CASE Arrive(b)
    BY <2>2, <2>4 DEF Arrive, Idle, BindInv, TypeOK
  <2>5. CASE Look(b)
    <3>1. PICK old \in BOOLEAN :
            \/ Goto(b, "ask")
            \/ LET answer == AtTheDoor(Request(b), old) IN
               ReplyOld(b, answer)
      BY <2>5 DEF Look, ReplyOld
    <3> QED
      BY <3>1, Afterwards DEF BindInv, TypeOK
  <2>6. CASE Ask(b)
    BY <2>2, <2>6 DEF Ask, BindInv, TypeOK, BindStates
  <2>7. CASE Hear(b) \/ GiveUp(b)
    BY <2>2, <2>7 DEF Hear, GiveUp, Heard, BindInv, TypeOK, BindStates
  <2>8. CASE CompareReader(b) \/ Decide(b) \/ LookAtToken(b)
    BY <2>8, Afterwards DEF CompareReader, Decide, LookAtToken, BindInv, TypeOK
  <2>9. CASE VerifyToken(b)
    <3>1. CASE bind' = [bind EXCEPT ![b].at = "verified", ![b].said = "right"]
      BY <2>2, <3>1 DEF BindInv, TypeOK, BindStates
    <3> QED
      BY <2>9, <3>1, Afterwards DEF VerifyToken, BindInv, TypeOK
  <2>10. CASE IdentifyToken(b)
    <3>1. \/ Goto(b, "decide") \/ Reply(b, "saslBindInProgress")
          \/ ReplyOld(b, "saslBindInProgress")
      BY <2>10 DEF IdentifyToken, ReplyOld
    <3> QED
      BY <3>1, Afterwards DEF BindInv, TypeOK
  <2> QED
    BY <2>1, <2>3, <2>4, <2>5, <2>6, <2>7, <2>8, <2>9,
       <2>10 DEF Serve
<1> QED
  BY <1>1, BindInvariant, PTL DEF Spec, CodeUsedOnce

\* A wrong code is held against an account only by a bind that carried the
\* account's own password: afterPassword asks the Verifier behind it alone.
THEOREM OwnersAreCounted == Spec => OnlyTheOwnerIsCounted
<1> DEFINE ByOwner(k) ==
      fails'[k] > fails[k] =>
        \E b \in Binds : /\ bind[b].at = "code" /\ bind'[b].at = "decide"
                         /\ Account(Request(b)) = k /\ Request(b).pw = "right"
<1>1. BindInv /\ [Next]_vars => [\A k \in Keys : ByOwner(k)]_vars
  <2> SUFFICES ASSUME BindInv, Next, NEW k \in Keys, fails'[k] > fails[k]
               PROVE  \E b \in Binds : /\ bind[b].at = "code" /\ bind'[b].at = "decide"
                                       /\ Account(Request(b)) = k
                                       /\ Request(b).pw = "right"
    BY DEF vars
  <2>1. fails[k] \in Int
    BY DEF BindInv, TypeOK
  <2>2. fails'[k] # fails[k]
    BY <2>1
  <2>3. PICK b \in Binds : AskCode(b)
    BY <2>2 DEF Next, Serve, codes, ChangeHealth, Arrive, Look, CompareReader, Ask, Hear,
         GiveUp, Decide, LookAtToken, VerifyToken, IdentifyToken, SourceAnswers,
         ReleaseCheck
  <2>4. bind[b].at = "code"
    BY <2>3 DEF AskCode
  <2> QED
    BY <2>2, <2>3, <2>4, WhatIsAsked
<1> QED
  BY <1>1, BindInvariant, PTL DEF Spec, OnlyTheOwnerIsCounted

------------------------------------------------------------------------------
\* Two of a set's elements differ when it counts two; a set of one kind counts
\* one, whatever else is in it.
LEMMA TwoOfThem ==
  ASSUME NEW S, Cardinality(S) >= 2
  PROVE  \E x, y \in S : x # y
<1> SUFFICES ASSUME \A x, y \in S : x = y PROVE FALSE
  OBVIOUS
<1>1. CASE S = {}
  BY <1>1, FS_EmptySet
<1>2. ASSUME NEW x \in S PROVE FALSE
  <2>1. S = {x}
    BY <1>2
  <2>2. Cardinality(S) = 1
    BY <2>1, FS_Singleton, Zenon
  <2> QED
    BY <2>2
<1> QED
  BY <1>1, <1>2

\* tokenFactors counts kinds: a token is let in where two factors are wanted
\* only when its issuer checked two methods of different kinds.
THEOREM KindsAreCounted == Spec => TokensCountKinds
<1> DEFINE TwoKinds(b) ==
      Answers(b) /\ bind'[b].result = "success" /\ Request(b).how = "token" /\ mfa.code
        => \E m, n \in Request(b).amr : KindOf[m] # KindOf[n]
<1>1. BindInv /\ [Next]_vars => [\A b \in Binds : TwoKinds(b)]_vars
  <2> SUFFICES ASSUME BindInv, Next, NEW b \in Binds, Answers(b),
                      bind'[b].result = "success", Request(b).how = "token", mfa.code
               PROVE  \E m, n \in Request(b).amr : KindOf[m] # KindOf[n]
    BY DEF vars
  <2>1. Arrive(b) \/ Serve(b)
    BY OnlyItself DEF Answers
  <2>2. bind \in [Binds -> BindStates] /\ SoundBind(bind[b])
    BY DEF BindInv, TypeOK, BindsAreSound
  <2>3. Decide(b)
    <3>1. ~CompareReader(b)
      BY <2>2 DEF CompareReader, SoundBind, Askable, Request
    <3>2. ~Look(b)
      BY DEF Look
    <3>3. ~Arrive(b)
      BY <2>2 DEF Answers, Arrive
    <3>4. ~(Ask(b) \/ AskCode(b))
      BY <2>2 DEF Answers, Ask, AskCode, BindStates
    <3>5. ~(Hear(b) \/ GiveUp(b))
      BY <2>2 DEF Answers, Hear, GiveUp, Heard, BindStates
    <3>6. ~LookAtToken(b)
      BY <2>2, Afterwards DEF Answers, LookAtToken
    <3>7. ~VerifyToken(b)
      <4>1. VerifyToken(b) =>
              bind'[b].at = "verified" \/ Reply(b, "saslBindInProgress")
        BY <2>2 DEF VerifyToken, BindStates
      <4> QED
        BY <2>2, <4>1, Afterwards DEF Answers
    <3>8. ~IdentifyToken(b)
      <4>1. IdentifyToken(b) =>
              \/ Goto(b, "decide") \/ Reply(b, "saslBindInProgress")
              \/ ReplyOld(b, "saslBindInProgress")
        BY DEF IdentifyToken, ReplyOld
      <4> QED
        BY <2>2, <4>1, Afterwards DEF Answers
    <3> QED
      BY <2>1, <3>1, <3>2, <3>3, <3>4, <3>5, <3>6, <3>7, <3>8 DEF Serve
  <2>4. Cardinality(TokenFactors(Request(b))) >= 2
    BY <2>3, DecidedResult DEF Satisfied
  <2>5. PICK x, y \in TokenFactors(Request(b)) : x # y
    BY <2>4, TwoOfThem
  <2> QED
    BY <2>5 DEF TokenFactors
<1> QED
  BY <1>1, BindInvariant, PTL DEF Spec, TokensCountKinds
=============================================================================
