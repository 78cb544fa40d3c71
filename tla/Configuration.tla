---------------------------- MODULE Configuration ----------------------------
(***************************************************************************)
(* What config.check refuses before anything is opened (config.go,         *)
(* refresh.go, samba.go), and the values an accepted configuration resolves *)
(* to.  A configuration is a record; a key that may be left out is Unset.   *)
(* Durations count twentieths of a second, and -1 is any negative one; they *)
(* are far from the 292 years past which ten of them wrap around.  What     *)
(* check says of one name alone (an address, a DN, a key file named beside  *)
(* the key, a name defined twice) passes here.                              *)
(***************************************************************************)
EXTENDS Integers

CONSTANTS
  Unset,
  Second, DefaultRefresh, DefaultMaxAge,  \* time.Second, 60 s and 10 min
  DefaultRidBase,                         \* 1000
  Max32, Max64                            \* the largest uint32 and uint64

ASSUME ConfigurationAssumption ==
  /\ {Second, DefaultRefresh, DefaultMaxAge, DefaultRidBase, Max32, Max64} \subseteq Nat
  /\ 0 < Second /\ Second <= DefaultRefresh
  /\ 2 * Max32 + DefaultRidBase < Max64 /\ 4 * Max32 <= Max64
  /\ DefaultRidBase % 2 = 0
  /\ Unset \notin Int

------------------------------------------------------------------------------
(* refresh.go *)

RefreshEvery(c) == IF c.refresh = Unset THEN DefaultRefresh ELSE c.refresh

MaxAge(c) ==
  LET r == RefreshEvery(c)
      tenPeriods == 10 * r
  IN IF c.maxAge # Unset THEN c.maxAge
     ELSE IF r <= 0 THEN 0
     ELSE IF tenPeriods > DefaultMaxAge THEN tenPeriods ELSE DefaultMaxAge

CheckRefreshAsWritten(c) ==                                          \* mutant
  /\ c.refresh # Unset => c.refresh = 0 \/ c.refresh >= Second
  /\ c.maxAge # Unset /\ c.maxAge # 0 /\ c.refresh # Unset => c.maxAge >= c.refresh

CheckRefresh(c) ==
  /\ c.refresh # Unset => c.refresh = 0 \/ c.refresh >= Second
  /\ c.maxAge # Unset =>
       /\ c.maxAge >= 0
       /\ ~(c.maxAge > 0 /\ RefreshEvery(c) > 0 /\ c.maxAge < RefreshEvery(c))

------------------------------------------------------------------------------
(* limits.go *)

CheckLimits(c) ==
  /\ \A n \in {c.conns, c.perIP} \ {Unset} : n >= 0
  /\ c.conns # Unset /\ c.perIP # Unset => c.conns = 0 \/ c.perIP <= c.conns
  /\ \A d \in {c.operation, c.startup} \ {Unset} : d = 0 \/ 10 * d >= Second

------------------------------------------------------------------------------
(* samba.go.  A samba block is [parses, base]: whether its domain_sid is one, *)
(* and its algorithmic_rid_base, 0 when left out.                            *)

CheckSamba(c) ==
  IF c.samba = Unset THEN ~c.ntHash
  ELSE /\ c.ntHash
       /\ c.samba.parses
       /\ c.samba.base = 0
            \/ (c.samba.base >= DefaultRidBase /\ c.samba.base % 2 = 0)

RidBase(c) == IF c.samba.base = 0 THEN DefaultRidBase ELSE c.samba.base

\* A RID no person has.
NoRid == -1

RidUnbounded(c, uid) ==                                              \* mutant
  LET rid == (uid * 2 + RidBase(c)) % (Max64 + 1)
  IN IF rid > Max32 - 1 THEN NoRid ELSE rid

\* The RID of algorithmic_pdb_uid_to_user_rid, in uint64 arithmetic.
Rid(c, uid) ==
  LET rid == (uid * 2 + RidBase(c)) % (Max64 + 1)
  IN IF uid > Max32 \/ rid > Max32 - 1 THEN NoRid ELSE rid

------------------------------------------------------------------------------
(* config.go *)

TLS(c) == c.cert /\ c.key

CheckCertificate(c) ==                                               \* mutant
  c.cert = c.key /\ (c.startTLS => TLS(c))

CheckTransport(c) ==
  /\ c.cert = c.key
  /\ c.startTLS => TLS(c)
  /\ c.ntHash => TLS(c) \/ c.loopback

\* mfa { factors = n }, and 0 when the block does not say.
CheckMFA(c) == c.factors # Unset => c.factors \in {0, 2}

\* A kinit carries the password and nothing else.
CheckKerberos(c) == c.kerberos => c.factors = Unset

Check(c) ==
  /\ CheckRefresh(c) /\ CheckLimits(c) /\ CheckTransport(c) /\ CheckSamba(c)
  /\ CheckMFA(c) /\ CheckKerberos(c)

------------------------------------------------------------------------------
(* oidc.go.  A domain stands for the scope that go-authn/oidc's ScopedName    *)
(* reads it as, however it is written, and Unset for what is no scope.        *)

\* The part of openOIDC before the issuer is asked.
CheckDomains(o) ==
  /\ o.domains # {} /\ Unset \notin o.domains
  /\ o.local # Unset => o.local \in o.domains
=============================================================================
