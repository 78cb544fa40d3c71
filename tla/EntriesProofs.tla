---------------------------- MODULE EntriesProofs ----------------------------
(***************************************************************************)
(* What the operators of SchemaRules and Entries give, for every schema,   *)
(* person and group: Chain is a closure, an entry that was validated,      *)
(* placed and measured is invalid exactly when something is wrong with it  *)
(* as it stands, nothing a source gave goes unsaid, and, where auxiliary   *)
(* classes stand alone, what is left off is left off for cause and no      *)
(* shape of an entry escapes the question that startup asks of them.       *)
(***************************************************************************)
EXTENDS Entries, WellFoundedInduction, FiniteSetTheorems, TLAPS

\* Induction on a..d, with a set for the predicate: the theorems of
\* NaturalsInduction take an operator, this one only that < is well-founded.
LEMMA InductionUpTo ==
  ASSUME NEW a \in Nat, NEW d \in Nat, NEW P, a \in P,
         \A n \in (a + 1)..d : n - 1 \in P => n \in P
  PROVE  \A n \in a..d : n \in P
<1> DEFINE T == {n \in a..d : n \notin P}
<1> SUFFICES ASSUME T # {} PROVE FALSE
  OBVIOUS
<1>1. T \subseteq Nat
  OBVIOUS
<1>2. \E x \in T : \A y \in T : ~ (<<y, x>> \in OpToRel(<, Nat))
  <2> HIDE DEF T
  <2> QED
    BY <1>1, NatLessThanWellFounded, WFMin
<1>3. \A x, y \in T : <<y, x>> \in OpToRel(<, Nat) <=> y < x
  BY <1>1 DEF OpToRel
<1>4. PICK m \in T : \A y \in T : ~ (y < m)
  BY <1>2, <1>3
<1>5. m \in (a + 1)..d /\ m - 1 \in a..d /\ m - 1 \notin T
  BY <1>4
<1> QED
  BY <1>4, <1>5

------------------------------------------------------------------------------
\* Superclasses are classes of the schema (ClassBuilds).
ClosedUnder(sch, set) == \A c \in set : sch.class[c].sup \subseteq set
Graph(sch) == IsFiniteSet(DOMAIN sch.class) /\ ClosedUnder(sch, DOMAIN sch.class)

\* The levels that Chain climbs.
Raised(sch, set) == set \cup UNION {sch.class[c].sup : c \in set}
Levels(sch, start, d, f) ==
  f = [n \in 0..d |-> IF n = 0 THEN start ELSE Raised(sch, f[n - 1])]

\* A function that climbs to any height exists.
LEMMA LevelsExist ==
  ASSUME NEW sch, NEW start, NEW d \in Nat
  PROVE  \E f : Levels(sch, start, d, f)
<1> DEFINE P == {n \in Nat : \E f : Levels(sch, start, n, f)}
<1>1. 0 \in P
  <2> DEFINE g == [n \in 0..0 |-> start]
  <2>1. Levels(sch, start, 0, g)
    BY DEF Levels
  <2> QED
    BY <2>1
<1>2. \A m \in 1..d : m - 1 \in P => m \in P
  <2> SUFFICES ASSUME NEW m \in 1..d, NEW f, Levels(sch, start, m - 1, f)
               PROVE  \E g : Levels(sch, start, m, g)
    OBVIOUS
  <2> DEFINE g == [n \in 0..m |-> IF n = m THEN Raised(sch, f[m - 1]) ELSE f[n]]
  <2>3. \A n \in 0..m : g[n] = IF n = 0 THEN start ELSE Raised(sch, g[n - 1])
    <3> TAKE n \in 0..m
    <3>1. CASE n = m
      BY <3>1
    <3>2. CASE n # m
      <4>1. n \in 0..(m - 1) /\ (n # 0 => n - 1 \in 0..m /\ n - 1 # m)
        BY <3>2
      <4>2. g[n] = f[n] /\ (n # 0 => g[n - 1] = f[n - 1])
        BY <3>2, <4>1
      <4>3. f[n] = IF n = 0 THEN start ELSE Raised(sch, f[n - 1])
        BY <4>1 DEF Levels
      <4> QED
        BY <4>2, <4>3
    <3> QED
      BY <3>1, <3>2
  <2>4. g = [n \in 0..m |-> g[n]]
    OBVIOUS
  <2>5. Levels(sch, start, m, g)
    <3> HIDE DEF g
    <3> QED
      BY <2>3, <2>4 DEF Levels
  <2> QED
    BY <2>5
<1> QED
  <2> HIDE DEF P
  <2>1. d \in P
    BY <1>1, <1>2, InductionUpTo
  <2> QED
    BY <2>1 DEF P

\* Chain is the top level of such a climb, whose height is the number of classes.
LEMMA ChainLevels ==
  ASSUME NEW sch, NEW classes, IsFiniteSet(DOMAIN sch.class)
  PROVE  \E f : /\ Levels(sch, classes \cap DOMAIN sch.class,
                          Cardinality(DOMAIN sch.class), f)
                /\ Chain(sch, classes) = f[Cardinality(DOMAIN sch.class)]
<1> DEFINE depth == Cardinality(DOMAIN sch.class)
           start == classes \cap DOMAIN sch.class
           Climb(f) == f = [n \in 0..depth |-> IF n = 0 THEN start ELSE
               LET below == f[n - 1] IN below \cup UNION {sch.class[c].sup : c \in below}]
<1>1. depth \in Nat
  BY FS_CardinalityType
<1>2. \A f : Levels(sch, start, depth, f) <=> Climb(f)
  BY DEF Levels, Raised
<1>3. \E f : Climb(f)
  BY <1>1, <1>2, LevelsExist
<1>4. Climb(CHOOSE f : Climb(f))
  BY <1>3
<1>5. Chain(sch, classes) = (CHOOSE f : Climb(f))[depth]
  BY DEF Chain
<1> QED
  BY <1>2, <1>4, <1>5

\* A level holds every level below it, and stays in every closed set that
\* holds the first.
LEMMA LevelsBetween ==
  ASSUME NEW sch, NEW start, NEW d \in Nat, NEW f, Levels(sch, start, d, f),
         NEW a \in 0..d, NEW set, f[a] \subseteq set, ClosedUnder(sch, set)
  PROVE  f[a] \subseteq f[d] /\ f[d] \subseteq set
<1> DEFINE P == {n \in a..d : f[a] \subseteq f[n] /\ f[n] \subseteq set}
<1>1. a \in P
  OBVIOUS
<1>2. \A n \in (a + 1)..d : n - 1 \in P => n \in P
  <2> SUFFICES ASSUME NEW n \in (a + 1)..d, n - 1 \in P PROVE n \in P
    OBVIOUS
  <2>1. f[n] = Raised(sch, f[n - 1])
    BY DEF Levels
  <2>2. f[a] \subseteq f[n] /\ f[n] \subseteq set
    BY <2>1 DEF Raised, ClosedUnder
  <2> QED
    BY <2>2
<1>3. d \in P
  <2> HIDE DEF P
  <2> QED
    BY <1>1, <1>2, InductionUpTo
<1> QED
  BY <1>3

\* Each level below one that is not closed has a class more than the one before.
LEMMA LevelsFill ==
  ASSUME NEW sch, Graph(sch), NEW start, start \subseteq DOMAIN sch.class,
         NEW d \in Nat, NEW f, Levels(sch, start, d, f), ~ ClosedUnder(sch, f[d])
  PROVE  f[d] \subseteq DOMAIN sch.class /\ Cardinality(f[d]) > d
<1> DEFINE D == DOMAIN sch.class
           P == {n \in 0..d : f[n] \subseteq D /\ Cardinality(f[n]) > n}
<1>1. \A k \in 0..d : ~ ClosedUnder(sch, f[k])
  <2> SUFFICES ASSUME NEW k \in 0..d, ClosedUnder(sch, f[k]) PROVE FALSE
    OBVIOUS
  <2>1. f[k] \subseteq f[d] /\ f[d] \subseteq f[k]
    BY LevelsBetween
  <2>2. f[k] = f[d]
    BY <2>1
  <2> QED
    BY <2>2
<1>2. 0 \in P
  <2>1. f[0] = start /\ start # {}
    BY <1>1 DEF Levels, ClosedUnder
  <2>2. IsFiniteSet(start) /\ Cardinality(start) \in Nat /\ Cardinality(start) # 0
    BY <2>1, FS_Subset, FS_EmptySet, FS_CardinalityType DEF Graph
  <2> QED
    BY <2>1, <2>2
<1>3. \A n \in 1..d : n - 1 \in P => n \in P
  <2> SUFFICES ASSUME NEW n \in 1..d, n - 1 \in P PROVE n \in P
    OBVIOUS
  <2>0. n \in 0..d /\ n # 0 /\ n - 1 \in 0..d
    OBVIOUS
  <2>1. f[n] = Raised(sch, f[n - 1]) /\ ~ ClosedUnder(sch, f[n - 1])
    BY <1>1, <2>0 DEF Levels
  <2>2. f[n] \subseteq D /\ f[n - 1] \subseteq f[n] /\ f[n - 1] # f[n]
    BY <2>1 DEF Raised, ClosedUnder, Graph
  <2>3. IsFiniteSet(f[n])
    BY <2>2, FS_Subset DEF Graph
  <2>4. /\ IsFiniteSet(f[n - 1]) /\ Cardinality(f[n - 1]) <= Cardinality(f[n])
        /\ Cardinality(f[n - 1]) # Cardinality(f[n])
    BY <2>2, <2>3, FS_Subset
  <2>5. Cardinality(f[n]) \in Nat /\ Cardinality(f[n - 1]) \in Nat
    BY <2>3, <2>4, FS_CardinalityType
  <2>6. Cardinality(f[n - 1]) > n - 1
    OBVIOUS
  <2> QED
    BY <2>2, <2>4, <2>5, <2>6
<1>4. d \in P
  <2> HIDE DEF P
  <2> QED
    BY <1>2, <1>3, InductionUpTo
<1> QED
  BY <1>4

\* Chain is the least closed set of classes above the given ones: it holds
\* them and every superclass of what it holds, and nothing else.
THEOREM ChainIsClosure ==
  ASSUME NEW sch, Graph(sch), NEW classes
  PROVE  /\ classes \cap DOMAIN sch.class \subseteq Chain(sch, classes)
         /\ Chain(sch, classes) \subseteq DOMAIN sch.class
         /\ ClosedUnder(sch, Chain(sch, classes))
         /\ \A set : classes \cap DOMAIN sch.class \subseteq set /\ ClosedUnder(sch, set)
                     => Chain(sch, classes) \subseteq set
<1> DEFINE D == DOMAIN sch.class
           depth == Cardinality(D)
<1>1. depth \in Nat /\ 0 \in 0..depth
  BY FS_CardinalityType DEF Graph
<1>2. PICK f : Levels(sch, classes \cap D, depth, f) /\ Chain(sch, classes) = f[depth]
  BY ChainLevels DEF Graph
<1>3. f[0] = classes \cap D
  BY <1>1, <1>2 DEF Levels
<1>4. \A set : classes \cap D \subseteq set /\ ClosedUnder(sch, set)
               => f[0] \subseteq f[depth] /\ f[depth] \subseteq set
  <2> TAKE set
  <2> HAVE classes \cap D \subseteq set /\ ClosedUnder(sch, set)
  <2>1. f[0] \subseteq set
    BY <1>3
  <2> HIDE DEF depth, D
  <2> QED
    BY <1>1, <1>2, <2>1, LevelsBetween
<1>5. classes \cap D \subseteq f[depth] /\ f[depth] \subseteq D
  BY <1>3, <1>4 DEF Graph
<1>6. ClosedUnder(sch, f[depth])
  <2> SUFFICES ASSUME ~ ClosedUnder(sch, f[depth]) PROVE FALSE
    OBVIOUS
  <2>1. classes \cap D \subseteq D
    OBVIOUS
  <2>2. f[depth] \subseteq D /\ Cardinality(f[depth]) > depth
    <3> HIDE DEF depth, D
    <3>1. Levels(sch, classes \cap D, depth, f) /\ depth \in Nat
      BY <1>1, <1>2
    <3> QED
      BY <2>1, <3>1, LevelsFill DEF D
  <2>3. IsFiniteSet(f[depth]) /\ Cardinality(f[depth]) <= depth
    BY <2>2, FS_Subset DEF Graph
  <2>4. Cardinality(f[depth]) \in Nat
    BY <2>3, FS_CardinalityType
  <2> QED
    BY <1>1, <2>2, <2>3, <2>4
<1> QED
  BY <1>2, <1>4, <1>5, <1>6

\* More classes have no fewer superclasses.
LEMMA ChainIsMonotone ==
  ASSUME NEW sch, Graph(sch), NEW few, NEW many,
         few \cap DOMAIN sch.class \subseteq Chain(sch, many)
  PROVE  Chain(sch, few) \subseteq Chain(sch, many)
BY ChainIsClosure

\* A class above some classes is above one of them.
LEMMA ChainIsUnion ==
  ASSUME NEW sch, Graph(sch), NEW classes
  PROVE  Chain(sch, classes) \subseteq
           UNION {Chain(sch, {d}) : d \in classes \cap DOMAIN sch.class}
<1> DEFINE set == UNION {Chain(sch, {d}) : d \in classes \cap DOMAIN sch.class}
<1>1. \A d \in classes \cap DOMAIN sch.class :
        d \in Chain(sch, {d}) /\ ClosedUnder(sch, Chain(sch, {d}))
  BY ChainIsClosure
<1>2. classes \cap DOMAIN sch.class \subseteq set /\ ClosedUnder(sch, set)
  BY <1>1 DEF ClosedUnder
<1>3. Chain(sch, classes) \subseteq set
  <2> HIDE DEF set
  <2> QED
    BY <1>2, ChainIsClosure
<1> QED
  BY <1>3 DEF set

\* What a superclass requires, the class requires.
LEMMA MustIsInherited ==
  ASSUME NEW sch, Graph(sch), NEW few, NEW many,
         few \cap DOMAIN sch.class \subseteq Chain(sch, many)
  PROVE  MustTypes(sch, few) \subseteq MustTypes(sch, many)
BY ChainIsMonotone DEF MustTypes

------------------------------------------------------------------------------
\* The fields of an entry.
Fields ==
  {"name", "rdn", "group", "classes", "attrs", "bad", "given", "large", "rid",
   "missingPosix", "noSID", "declared", "leftOff", "dropped", "checked", "checkedErr",
   "invalid"}
IsEntry(e) == e = [f \in Fields |-> e[f]]

\* The fields nothing changes once an entry is built.
Lasting == Fields \ {"attrs", "dropped", "checked", "checkedErr", "invalid"}
Same(e, f) == \A x \in Lasting : e[x] = f[x]

\* A verdict that was asked for is the verdict on the entry as it stands.
IsAsked(s, e) ==
  IsEntry(e) /\ e.checked \in BOOLEAN
             /\ (e.checked => e.checkedErr = Problems(s.schema, e))

\* Validate reads four fields of an entry.
LEMMA ProblemsRead ==
  ASSUME NEW sch, NEW e, NEW f,
         e.classes = f.classes, e.attrs = f.attrs, e.bad = f.bad, e.rdn = f.rdn
  PROVE  Problems(sch, e) = Problems(sch, f)
BY DEF Problems

\* And GoverningStructureRule two.
LEMMA MisplacedReads ==
  ASSUME NEW sch, NEW e, NEW f, NEW superior, e.classes = f.classes, e.rdn = f.rdn
  PROVE  Misplaced(sch, e, superior) = Misplaced(sch, f, superior)
<1>1. Placing(sch, e, superior) = Placing(sch, f, superior)
  BY DEF Placing
<1>2. Governing(sch, e, superior) = Governing(sch, f, superior)
  BY <1>1 DEF Governing
<1> QED
  BY Zenon, <1>1, <1>2 DEF Misplaced

\* Asking leaves an entry asked, with its verdict, and changes nothing else.
LEMMA AskedIsAsked ==
  ASSUME NEW s, NEW e, IsAsked(s, e)
  PROVE  /\ IsAsked(s, Asked(s, e)) /\ Asked(s, e).checked
         /\ Asked(s, e).checkedErr = Problems(s.schema, Asked(s, e))
         /\ Same(Asked(s, e), e)
         /\ Asked(s, e).attrs = e.attrs /\ Asked(s, e).dropped = e.dropped
         /\ Asked(s, e).invalid = e.invalid
<1>1. CASE e.checked
  BY <1>1 DEF Asked, IsAsked, Same
<1>2. CASE ~ e.checked
  <2> DEFINE x == [e EXCEPT !.checked = TRUE, !.checkedErr = Problems(s.schema, e)]
  <2>1. Asked(s, e) = x
    BY <1>2 DEF Asked
  <2>2. /\ IsEntry(x) /\ x.checked = TRUE /\ x.checkedErr = Problems(s.schema, e)
        /\ \A f \in Fields \ {"checked", "checkedErr"} : x[f] = e[f]
    BY DEF IsEntry, Fields, IsAsked
  <2>3. /\ Same(x, e) /\ x.attrs = e.attrs /\ x.dropped = e.dropped
        /\ x.invalid = e.invalid /\ x.classes = e.classes /\ x.bad = e.bad
        /\ x.rdn = e.rdn
    BY <2>2 DEF Fields, Same, Lasting
  <2>4. Problems(s.schema, x) = Problems(s.schema, e)
    BY <2>3, ProblemsRead
  <2> HIDE DEF x
  <2> QED
    BY <2>1, <2>2, <2>3, <2>4 DEF IsAsked
<1> QED
  BY <1>1, <1>2 DEF IsAsked

\* An entry whose attributes were dropped is asked about again.
LEMMA WithoutIsAsked ==
  ASSUME NEW s, NEW e, IsAsked(s, e), e.checked, NEW drop
  PROVE  LET x == Without(s, e, drop) IN
         /\ IsAsked(s, x) /\ x.checkedErr = Problems(s.schema, x)
         /\ Same(x, e) /\ x.attrs = e.attrs \ drop /\ x.dropped = drop
<1> DEFINE x == [e EXCEPT !.attrs = @ \ drop, !.dropped = drop, !.checked = (drop = {})]
<1>1. /\ IsEntry(x) /\ x.attrs = e.attrs \ drop /\ x.dropped = drop
      /\ x.checked = (drop = {})
      /\ \A f \in Fields \ {"attrs", "dropped", "checked"} : x[f] = e[f]
  BY DEF IsEntry, Fields, IsAsked
<1>2. /\ Same(x, e) /\ x.checkedErr = e.checkedErr
      /\ x.classes = e.classes /\ x.bad = e.bad /\ x.rdn = e.rdn
  BY <1>1 DEF Fields, Same, Lasting
<1>3. x.checked \in BOOLEAN /\ (x.checked => x.checkedErr = Problems(s.schema, x))
  <2> SUFFICES ASSUME x.checked PROVE x.checkedErr = Problems(s.schema, x)
    BY <1>1
  <2>1. x.attrs = e.attrs
    BY <1>1
  <2>2. Problems(s.schema, x) = Problems(s.schema, e)
    BY <1>2, <2>1, ProblemsRead
  <2> QED
    BY <1>2, <2>2 DEF IsAsked
<1>4. Without(s, e, drop) = Asked(s, x)
  BY DEF Without
<1> HIDE DEF x
<1>5. IsAsked(s, x)
  BY <1>1, <1>3 DEF IsAsked
<1> QED
  BY <1>1, <1>2, <1>4, <1>5, AskedIsAsked DEF Same

\* validated: the verdict that an entry keeps is the one on the entry as it is
\* published, and of its attributes it may only have lost some, which it says.
LEMMA ValidatedSaysWhy ==
  ASSUME NEW s, NEW e, IsAsked(s, e)
  PROVE  LET v == Validated(s, e) IN
         /\ IsEntry(v) /\ v.invalid = Problems(s.schema, v) /\ Same(v, e)
         /\ v.attrs \subseteq e.attrs /\ e.attrs \subseteq v.attrs \cup v.dropped
<1> DEFINE asked == Asked(s, e)
           drop == ToDrop(asked)
           kept == Without(s, asked, drop)
           v == [kept EXCEPT !.invalid = kept.checkedErr]
<1>1. /\ IsAsked(s, asked) /\ asked.checked /\ Same(asked, e) /\ asked.attrs = e.attrs
  BY AskedIsAsked
<1>2. /\ IsAsked(s, kept) /\ kept.checkedErr = Problems(s.schema, kept)
      /\ Same(kept, asked) /\ kept.attrs = asked.attrs \ drop /\ kept.dropped = drop
  <2> HIDE DEF asked, drop
  <2> QED
    BY <1>1, WithoutIsAsked
<1>3. Validated(s, e) = v
  BY DEF Validated
<1>4. /\ IsEntry(v) /\ v.invalid = kept.checkedErr
      /\ \A f \in Fields \ {"invalid"} : v[f] = kept[f]
  <2> HIDE DEF kept
  <2> QED
    BY <1>2 DEF IsEntry, Fields, IsAsked
<1> HIDE DEF v, kept, drop, asked
<1>5. /\ Same(v, kept) /\ v.attrs = kept.attrs /\ v.dropped = kept.dropped
      /\ v.classes = kept.classes /\ v.bad = kept.bad /\ v.rdn = kept.rdn
  BY <1>4 DEF Same, Lasting, Fields
<1>6. Problems(s.schema, v) = Problems(s.schema, kept)
  BY <1>5, ProblemsRead
<1>7. Same(v, e)
  BY <1>1, <1>2, <1>5 DEF Same
<1> QED
  BY <1>1, <1>2, <1>3, <1>4, <1>5, <1>6, <1>7

\* What keeps an entry from being published, as it stands.
Unpublishable(s, e) ==
  \/ Problems(s.schema, e) # {} \/ e.large
  \/ s.tree.rules
       /\ Misplaced(s.schema, e, IF e.group THEN s.tree.groups ELSE s.tree.people) # {}

\* An entry with another invalid is the same entry.
LEMMA InvalidChanged ==
  ASSUME NEW s, NEW e, IsEntry(e), NEW p
  PROVE  LET x == [e EXCEPT !.invalid = p] IN
         /\ IsEntry(x) /\ x.invalid = p /\ Same(x, e)
         /\ x.attrs = e.attrs /\ x.dropped = e.dropped
         /\ Unpublishable(s, x) <=> Unpublishable(s, e)
<1> DEFINE x == [e EXCEPT !.invalid = p]
<1>1. /\ IsEntry(x) /\ x.invalid = p
      /\ \A f \in Fields \ {"invalid"} : x[f] = e[f]
  BY DEF IsEntry, Fields
<1> HIDE DEF x
<1>2. /\ Same(x, e) /\ x.attrs = e.attrs /\ x.dropped = e.dropped
      /\ x.classes = e.classes /\ x.bad = e.bad /\ x.rdn = e.rdn
      /\ x.group = e.group /\ x.large = e.large
  BY <1>1 DEF Same, Lasting, Fields
<1>3. Problems(s.schema, x) = Problems(s.schema, e)
  BY <1>2, ProblemsRead
<1>4. \A superior : Misplaced(s.schema, x, superior) = Misplaced(s.schema, e, superior)
  BY <1>2, MisplacedReads
<1>5. Unpublishable(s, x) <=> Unpublishable(s, e)
  BY <1>2, <1>3, <1>4 DEF Unpublishable
<1> QED
  BY <1>1, <1>2, <1>5 DEF x

\* A verdict is never empty of what it is about.
LEMMA ProblemIsSaid == \A kind, n : Problem(kind, {n}) # {}
BY DEF Problem

\* An entry is invalid exactly when something keeps it from being published:
\* the schema, the tree or its size, asked in that order, each of which an
\* entry reaches only without a problem so far (entries.go, placed, sized).
THEOREM InvalidIsUnpublishable ==
  ASSUME NEW s, NEW e, IsAsked(s, e)
  PROVE  LET v == PlacedAndValidated(s, e) IN
         /\ IsEntry(v) /\ (v.invalid # {} <=> Unpublishable(s, v))
         /\ Same(v, e) /\ v.attrs \subseteq e.attrs
         /\ e.attrs \subseteq v.attrs \cup v.dropped
<1> DEFINE v == Validated(s, e)
           place == Misplaced(s.schema, v, IF v.group THEN s.tree.groups ELSE s.tree.people)
           p == Placed(s, v)
           z == Sized(p)
<1>1. /\ IsEntry(v) /\ v.invalid = Problems(s.schema, v) /\ Same(v, e)
      /\ v.attrs \subseteq e.attrs /\ e.attrs \subseteq v.attrs \cup v.dropped
  BY ValidatedSaysWhy
<1> HIDE DEF v
<1>2. /\ IsEntry(p) /\ Same(p, v) /\ p.attrs = v.attrs /\ p.dropped = v.dropped
      /\ Unpublishable(s, p) <=> Unpublishable(s, v)
      /\ p.invalid # {} <=> \/ Problems(s.schema, v) # {}
                            \/ s.tree.rules /\ place # {}
  <2>1. CASE v.invalid # {} \/ ~ s.tree.rules
    BY <1>1, <2>1 DEF Placed, Same
  <2>2. CASE v.invalid = {} /\ s.tree.rules
    <3>1. p = [v EXCEPT !.invalid = place]
      BY <2>2 DEF Placed
    <3> HIDE DEF place, p
    <3> QED
      BY <1>1, <2>2, <3>1, InvalidChanged
  <2> QED
    BY <2>1, <2>2
<1> HIDE DEF p
<1>3. p.large = v.large
  BY <1>2 DEF Same, Lasting, Fields
<1>4. /\ IsEntry(z) /\ Same(z, p) /\ z.attrs = p.attrs /\ z.dropped = p.dropped
      /\ Unpublishable(s, z) <=> Unpublishable(s, p)
      /\ z.invalid # {} <=> p.invalid # {} \/ p.large
  <2>1. CASE p.invalid # {} \/ ~ p.large
    BY <1>2, <2>1 DEF Sized, Same
  <2>2. CASE p.invalid = {} /\ p.large
    <3>1. z = [p EXCEPT !.invalid = Problem("TooLarge", {p.rdn})]
      BY <2>2 DEF Sized
    <3> HIDE DEF z
    <3>2. /\ IsEntry(z) /\ Same(z, p) /\ z.attrs = p.attrs /\ z.dropped = p.dropped
          /\ Unpublishable(s, z) <=> Unpublishable(s, p)
          /\ z.invalid = Problem("TooLarge", {p.rdn})
      BY <1>2, <3>1, InvalidChanged
    <3>3. z.invalid # {}
      BY <3>2, ProblemIsSaid
    <3> QED
      BY <2>2, <3>2, <3>3
  <2> QED
    BY <2>1, <2>2
<1>5. PlacedAndValidated(s, e) = z
  BY DEF PlacedAndValidated, v, p
<1>6. Same(z, e)
  BY <1>1, <1>2, <1>4 DEF Same
<1>7. z.invalid # {} <=> Unpublishable(s, z)
  BY <1>2, <1>3, <1>4 DEF Unpublishable
<1> HIDE DEF z
<1> QED
  BY <1>1, <1>2, <1>4, <1>5, <1>6, <1>7

------------------------------------------------------------------------------
\* What a person is beside the classes they declare, and whether their NT hash
\* and their keys are published, when skip are the classes to leave off.
StructureOf(p) ==
  IF "sn" \in p.attrs THEN {"person", "organizationalPerson", "inetOrgPerson"}
                      ELSE {"account"}
Derivable == {"posixAccount", "ldapPublicKey", "sambaSamAccount", "uidObject"}
Hashed(s, p, skip) == s.cfg.ntHash /\ "sambaSamAccount" \notin skip /\ p.nt
WithSamba(s, p, skip) == Hashed(s, p, skip) /\ HasSID(s, p)
Keyed(p, skip) == p.keys /\ "ldapPublicKey" \notin skip

\* What the entry of a person says of them, but its attributes and what it
\* leaves off, and what it says of the attributes.
OfPerson(s, p, skip, e) ==
  /\ e.name = p.name /\ e.group = FALSE /\ e.large = p.large
  /\ e.rid = IF WithSamba(s, p, skip) /\ "sambaSID" \notin p.attrs
             THEN Rid(s.cfg, p.uid) ELSE NoRid
  /\ e.missingPosix = PosixMust \ p.attrs
  /\ e.noSID = (Hashed(s, p, skip) /\ ~ WithSamba(s, p, skip))
  /\ e.declared = Carried(s, p.classes, skip)
  /\ StructureOf(p) \cup Chain(s.schema, e.declared) \subseteq e.classes
  /\ e.classes \subseteq StructureOf(p) \cup (Derivable \ skip) \cup Chain(s.schema, e.declared)
  /\ "posixAccount" \notin skip /\ PosixMust \subseteq p.attrs => "posixAccount" \in e.classes
  /\ WithSamba(s, p, skip) => "sambaSamAccount" \in e.classes
PersonAttrs(s, p, skip, attrs) ==
  /\ p.attrs \subseteq attrs
  /\ WithSamba(s, p, skip) => {"sambaSID", "sambaNTPassword"} \subseteq attrs
  /\ "sambaNTPassword" \in attrs \ p.attrs => WithSamba(s, p, skip)
  /\ Keyed(p, skip) => "sshPublicKey" \in attrs

\* That is what PersonEntry fills in.
LEMMA PersonFields ==
  ASSUME NEW s, NEW p, NEW skip, NEW e, e = PersonEntry(s, p, skip)
  PROVE  /\ IsEntry(e) /\ e.checked = FALSE
         /\ OfPerson(s, p, skip, e) /\ PersonAttrs(s, p, skip, e.attrs)
         /\ e.leftOff = Undeclared(s, p.classes)
<1> DEFINE
      structural == StructureOf(p)
      keys == Keyed(p, skip)
      samba == WithSamba(s, p, skip)
      auxiliary == {c \in {"posixAccount", "ldapPublicKey", "sambaSamAccount", "uidObject"} \ skip :
                      CASE c = "posixAccount" -> PosixMust \subseteq p.attrs
                        [] c = "ldapPublicKey" -> keys
                        [] c = "sambaSamAccount" -> samba
                        [] OTHER -> TRUE}
      classes == WithDeclared(s, structural \cup auxiliary, p.classes, skip)
      attrs == {"uid"} \cup p.attrs
               \cup {a \in {"cn"} : Allows(s, classes, a)}
               \cup {a \in {"sambaSID", "sambaNTPassword"} : samba}
               \cup {a \in {"sshPublicKey"} : keys}
      base == Entry(p.name, "uid", FALSE, classes, attrs)
      rid == IF WithSamba(s, p, skip) /\ "sambaSID" \notin p.attrs
             THEN Rid(s.cfg, p.uid) ELSE NoRid
      noSID == Hashed(s, p, skip) /\ ~ WithSamba(s, p, skip)
      missing == PosixMust \ p.attrs
      carried == Carried(s, p.classes, skip)
      off == Undeclared(s, p.classes)
<1>1. e = [base EXCEPT !.bad = p.bad, !.given = p.attrs, !.large = p.large, !.rid = rid,
                       !.missingPosix = missing, !.noSID = noSID, !.declared = carried,
                       !.leftOff = off]
  BY Zenon DEF PersonEntry, StructureOf, Keyed, WithSamba, Hashed
<1>2. /\ structural \cup Chain(s.schema, carried) \subseteq classes
      /\ classes \subseteq structural \cup (Derivable \ skip) \cup Chain(s.schema, carried)
  BY Zenon DEF WithDeclared, Derivable
<1>3. "posixAccount" \notin skip /\ PosixMust \subseteq p.attrs => "posixAccount" \in classes
  BY Zenon DEF WithDeclared
<1>4. samba => "sambaSamAccount" \in classes
  BY Zenon DEF WithDeclared, WithSamba, Hashed
<1> HIDE DEF classes, auxiliary
<1>5. p.attrs \subseteq attrs
  OBVIOUS
<1>6. /\ samba => {"sambaSID", "sambaNTPassword"} \subseteq attrs
      /\ "sambaNTPassword" \in attrs \ p.attrs => samba
      /\ keys => "sshPublicKey" \in attrs
  <2> HIDE DEF samba, keys
  <2> QED
    OBVIOUS
<1> HIDE DEF attrs, rid, noSID, missing, carried, off
<1>7. /\ IsEntry(base) /\ base.name = p.name /\ base.rdn = "uid" /\ base.group = FALSE
      /\ base.classes = classes /\ base.attrs = attrs /\ base.checked = FALSE
  BY DEF Entry, IsEntry, Fields
<1> HIDE DEF base
<1>8. /\ IsEntry(e) /\ e.bad = p.bad /\ e.given = p.attrs /\ e.large = p.large
      /\ e.rid = rid /\ e.missingPosix = missing /\ e.noSID = noSID
      /\ e.declared = carried /\ e.leftOff = off
      /\ \A f \in {"checked", "name", "group", "rdn", "classes", "attrs"} : e[f] = base[f]
  <2> USE DEF Fields
  <2>1. DOMAIN base = Fields
    BY <1>7 DEF IsEntry
  <2>2. IsEntry(e)
    BY <1>1, <2>1 DEF IsEntry
  <2>3. e.bad = p.bad /\ e.given = p.attrs /\ e.large = p.large
    BY <1>1, <2>1
  <2>4. e.rid = rid /\ e.missingPosix = missing /\ e.noSID = noSID
    BY <1>1, <2>1
  <2>5. e.declared = carried /\ e.leftOff = off
    BY <1>1, <2>1
  <2>6. \A f \in {"checked", "name", "group", "rdn", "classes", "attrs"} : e[f] = base[f]
    BY <1>1, <2>1
  <2> QED
    BY <2>2, <2>3, <2>4, <2>5, <2>6
<1>9. /\ e.checked = FALSE /\ e.name = p.name /\ e.group = FALSE /\ e.rdn = "uid"
      /\ e.classes = classes /\ e.attrs = attrs
  BY <1>7, <1>8
<1> HIDE DEF structural, samba, keys
<1>10. /\ structural \cup Chain(s.schema, e.declared) \subseteq e.classes
       /\ e.classes \subseteq structural \cup (Derivable \ skip) \cup Chain(s.schema, e.declared)
       /\ "posixAccount" \notin skip /\ PosixMust \subseteq p.attrs
              => "posixAccount" \in e.classes
       /\ samba => "sambaSamAccount" \in e.classes
       /\ p.attrs \subseteq e.attrs
       /\ samba => {"sambaSID", "sambaNTPassword"} \subseteq e.attrs
       /\ "sambaNTPassword" \in e.attrs \ p.attrs => samba
       /\ keys => "sshPublicKey" \in e.attrs
  BY <1>2, <1>3, <1>4, <1>5, <1>6, <1>8, <1>9
<1> QED
  BY <1>8, <1>9, <1>10 DEF OfPerson, PersonAttrs, rid, noSID, missing, carried, off,
                           structural, samba, keys

\* What a group is beside the classes it declares.
GroupStructureOf(g) ==
  IF "gidNumber" \in g.attrs THEN {"posixGroup"}
  ELSE IF g.members THEN {"groupOfNames"} ELSE {"organizationalRole"}

\* What the entry of a group says of it, likewise.
OfGroup(s, g, skip, e) ==
  /\ e.name = g.name /\ e.group = TRUE /\ e.rid = NoRid
  /\ e.declared = Carried(s, g.classes, skip)
  /\ e.classes = GroupStructureOf(g) \cup Chain(s.schema, e.declared)
GroupAttrs(g, attrs) ==
  g.attrs \subseteq attrs /\ attrs \subseteq g.attrs \cup {"cn", "memberUid", "member"}

\* That is what GroupEntryFrom fills in.
LEMMA GroupFields ==
  ASSUME NEW s, NEW g, NEW skip, NEW e, e = GroupEntryFrom(s, g, skip)
  PROVE  /\ IsEntry(e) /\ e.checked = FALSE
         /\ OfGroup(s, g, skip, e) /\ GroupAttrs(g, e.attrs)
         /\ e.leftOff = Undeclared(s, g.classes)
<1> DEFINE
      class == IF "gidNumber" \in g.attrs THEN "posixGroup"
               ELSE IF g.members THEN "groupOfNames" ELSE "organizationalRole"
      members == IF ~g.members THEN {}
                 ELSE IF class = "posixGroup" THEN {"memberUid"} ELSE {"member"}
      classes == WithDeclared(s, {class}, g.classes, skip)
      attrs == {"cn"} \cup g.attrs \cup members
      base == Entry(g.name, "cn", TRUE, classes, attrs)
      carried == Carried(s, g.classes, skip)
      off == Undeclared(s, g.classes)
<1>1. e = [base EXCEPT !.bad = g.bad, !.given = g.attrs, !.large = g.large,
                       !.declared = carried, !.leftOff = off]
  BY Zenon DEF GroupEntryFrom
<1>2. {class} = GroupStructureOf(g)
  BY DEF GroupStructureOf
<1> HIDE DEF class
<1>3. members \subseteq {"memberUid", "member"}
  OBVIOUS
<1> HIDE DEF members
<1>4. classes = GroupStructureOf(g) \cup Chain(s.schema, carried)
  BY <1>2 DEF WithDeclared
<1>5. g.attrs \subseteq attrs /\ attrs \subseteq g.attrs \cup {"cn", "memberUid", "member"}
  BY <1>3
<1> HIDE DEF attrs, carried, off, classes
<1>6. /\ IsEntry(base) /\ base.name = g.name /\ base.group = TRUE /\ base.rid = NoRid
      /\ base.classes = classes /\ base.attrs = attrs /\ base.checked = FALSE
  BY DEF Entry, IsEntry, Fields
<1> HIDE DEF base
<1>7. /\ IsEntry(e) /\ e.declared = carried /\ e.leftOff = off
      /\ \A f \in {"checked", "name", "group", "classes", "attrs", "rid"} : e[f] = base[f]
  <2> USE DEF Fields
  <2>1. DOMAIN base = Fields
    BY <1>6 DEF IsEntry
  <2>2. IsEntry(e)
    BY <1>1, <2>1 DEF IsEntry
  <2>3. e.declared = carried /\ e.leftOff = off
    BY <1>1, <2>1
  <2>4. \A f \in {"checked", "name", "group", "classes", "attrs", "rid"} : e[f] = base[f]
    BY <1>1, <2>1
  <2> QED
    BY <2>2, <2>3, <2>4
<1>8. /\ e.checked = FALSE /\ e.name = g.name /\ e.group = TRUE /\ e.rid = NoRid
      /\ e.classes = classes /\ e.attrs = attrs
  BY <1>6, <1>7
<1> QED
  BY <1>4, <1>5, <1>7, <1>8 DEF OfGroup, GroupAttrs, carried, off

\* An entry that was never asked, whatever is left off of it.
LEMMA FreshIsAsked ==
  ASSUME NEW s, NEW e, IsEntry(e), e.checked = FALSE
  PROVE  IsAsked(s, e)
BY DEF IsAsked

\* The classes the first build is found to be published without.
PersonOff(s, p) == Unmet(s, Asked(s, PersonEntry(s, p, {})))
GroupOff(s, g) == Unmet(s, Asked(s, GroupEntryFrom(s, g, {})))

\* An entry built again, or not, is the one built without the classes it was
\* found to be published without; and it says which those are.
Rebuilds(s, b, e, off) ==
  /\ IsAsked(s, b) /\ b.attrs = e.attrs /\ b.leftOff = e.leftOff \cup off
  /\ \A f \in Lasting \ {"leftOff"} : b[f] = e[f]

\* Nothing to leave off is no class.
LEMMA LeavingNothingOff == ClassesOf({}) = {}
BY DEF ClassesOf

\* The entry built anew says what was left off.
LEMMA RebuiltAgain ==
  ASSUME NEW s, NEW e, IsEntry(e), e.checked = FALSE, NEW off,
         NEW b, b = [e EXCEPT !.leftOff = @ \cup off]
  PROVE  Rebuilds(s, b, e, off)
<1>1. DOMAIN e = Fields
  BY DEF IsEntry
<1>2. /\ IsEntry(b) /\ b.leftOff = e.leftOff \cup off
      /\ \A f \in Fields \ {"leftOff"} : b[f] = e[f]
  BY <1>1 DEF IsEntry, Fields
<1>3. b.checked = FALSE /\ b.attrs = e.attrs
  BY <1>2 DEF Fields
<1> QED
  BY <1>2, <1>3, FreshIsAsked DEF Rebuilds, Lasting

\* The entry built once, when there was nothing to leave off, is just asked.
LEMMA BuiltOnce ==
  ASSUME NEW s, NEW e, IsEntry(e), e.checked = FALSE
  PROVE  Rebuilds(s, Asked(s, e), e, {})
<1>1. IsAsked(s, e)
  BY FreshIsAsked
<1>2. IsAsked(s, Asked(s, e)) /\ Same(Asked(s, e), e) /\ Asked(s, e).attrs = e.attrs
  BY <1>1, AskedIsAsked
<1> QED
  BY <1>2 DEF Rebuilds, Same, Lasting, Fields

\* Either way build goes on with PersonEntry of the classes that stay.
LEMMA PersonRebuilt ==
  ASSUME NEW s, NEW p
  PROVE  LET off == PersonOff(s, p) IN
         Rebuilds(s, PersonBuilt(s, p), PersonEntry(s, p, ClassesOf(off)), off)
<1> DEFINE off == PersonOff(s, p)
<1>1. CASE off = {}
  <2> DEFINE e == PersonEntry(s, p, {})
  <2>1. PersonBuilt(s, p) = Asked(s, e) /\ ClassesOf(off) = {}
    BY <1>1, LeavingNothingOff DEF PersonBuilt, PersonOff
  <2>2. IsEntry(e) /\ e.checked = FALSE
    BY PersonFields
  <2> HIDE DEF e
  <2>3. Rebuilds(s, Asked(s, e), e, {})
    BY <2>2, BuiltOnce
  <2> QED
    BY <1>1, <2>1, <2>3 DEF e
<1>2. CASE off # {}
  <2> DEFINE e == PersonEntry(s, p, ClassesOf(off))
  <2>1. PersonBuilt(s, p) = [e EXCEPT !.leftOff = @ \cup off]
    BY <1>2 DEF PersonBuilt, PersonOff
  <2>2. IsEntry(e) /\ e.checked = FALSE
    BY PersonFields
  <2> HIDE DEF e, off
  <2>3. Rebuilds(s, PersonBuilt(s, p), e, off)
    BY <2>1, <2>2, RebuiltAgain
  <2> QED
    BY <2>3 DEF e, off
<1> QED
  BY <1>1, <1>2

\* And with GroupEntryFrom of them.
LEMMA GroupRebuilt ==
  ASSUME NEW s, NEW g
  PROVE  LET off == GroupOff(s, g) IN
         Rebuilds(s, GroupBuilt(s, g), GroupEntryFrom(s, g, ClassesOf(off)), off)
<1> DEFINE off == GroupOff(s, g)
<1>1. CASE off = {}
  <2> DEFINE e == GroupEntryFrom(s, g, {})
  <2>1. GroupBuilt(s, g) = Asked(s, e) /\ ClassesOf(off) = {}
    BY <1>1, LeavingNothingOff DEF GroupBuilt, GroupOff
  <2>2. IsEntry(e) /\ e.checked = FALSE
    BY GroupFields
  <2> HIDE DEF e
  <2>3. Rebuilds(s, Asked(s, e), e, {})
    BY <2>2, BuiltOnce
  <2> QED
    BY <1>1, <2>1, <2>3 DEF e
<1>2. CASE off # {}
  <2> DEFINE e == GroupEntryFrom(s, g, ClassesOf(off))
  <2>1. GroupBuilt(s, g) = [e EXCEPT !.leftOff = @ \cup off]
    BY <1>2 DEF GroupBuilt, GroupOff
  <2>2. IsEntry(e) /\ e.checked = FALSE
    BY GroupFields
  <2> HIDE DEF e, off
  <2>3. Rebuilds(s, GroupBuilt(s, g), e, off)
    BY <2>1, <2>2, RebuiltAgain
  <2> QED
    BY <2>3 DEF e, off
<1> QED
  BY <1>1, <1>2

\* What the rest of build leaves of an entry: nothing that says who it is about
\* and what they are changes, and an attribute that is gone was said to be.
Survives(s, v, e, off) ==
  /\ IsEntry(v) /\ (v.invalid # {} <=> Unpublishable(s, v))
  /\ v.leftOff = e.leftOff \cup off
  /\ \A f \in Lasting \ {"leftOff"} : v[f] = e[f]
  /\ v.attrs \subseteq e.attrs /\ e.attrs \subseteq v.attrs \cup v.dropped

\* The tree and the size change only the verdict.
LEMMA RebuiltSurvives ==
  ASSUME NEW s, NEW b, NEW e, NEW off, Rebuilds(s, b, e, off),
         NEW v, v = PlacedAndValidated(s, b)
  PROVE  Survives(s, v, e, off)
<1>1. IsAsked(s, b) /\ b.attrs = e.attrs /\ b.leftOff = e.leftOff \cup off
  BY DEF Rebuilds
<1>2. \A f \in Lasting \ {"leftOff"} : b[f] = e[f]
  BY DEF Rebuilds
<1>3. /\ IsEntry(v) /\ (v.invalid # {} <=> Unpublishable(s, v))
      /\ Same(v, b) /\ v.attrs \subseteq b.attrs /\ b.attrs \subseteq v.attrs \cup v.dropped
  BY <1>1, InvalidIsUnpublishable
<1>4. \A f \in Lasting : v[f] = b[f]
  BY <1>3 DEF Same
<1>5. v.leftOff = b.leftOff
  BY <1>4 DEF Lasting, Fields
<1>6. \A f \in Lasting \ {"leftOff"} : v[f] = e[f]
  BY <1>2, <1>4
<1> QED
  BY <1>1, <1>3, <1>5, <1>6 DEF Survives

\* The entry of a person as build publishes it.
PublishedPerson(s, p, v) ==
  LET off == PersonOff(s, p) IN
  /\ OfPerson(s, p, ClassesOf(off), v)
  /\ v.leftOff = Undeclared(s, p.classes) \cup off
  /\ \E attrs : /\ PersonAttrs(s, p, ClassesOf(off), attrs)
                /\ v.attrs \subseteq attrs /\ attrs \subseteq v.attrs \cup v.dropped

\* Together: the entry of a person is PersonEntry of the classes that stay, with a
\* verdict and perhaps without some attributes.
LEMMA PersonIsPublished ==
  ASSUME NEW s, NEW p, NEW v, v = PlacedAndValidated(s, PersonBuilt(s, p))
  PROVE  /\ IsEntry(v) /\ (v.invalid # {} <=> Unpublishable(s, v))
         /\ PublishedPerson(s, p, v)
<1> DEFINE off == PersonOff(s, p)
           e == PersonEntry(s, p, ClassesOf(off))
<1>1. /\ OfPerson(s, p, ClassesOf(off), e) /\ PersonAttrs(s, p, ClassesOf(off), e.attrs)
      /\ e.leftOff = Undeclared(s, p.classes)
  <2> HIDE DEF off
  <2> QED
    BY PersonFields
<1>2. Rebuilds(s, PersonBuilt(s, p), e, off)
  BY PersonRebuilt
<1> HIDE DEF off, e
<1>3. Survives(s, v, e, off)
  BY <1>2, RebuiltSurvives
<1>4. \A f \in Lasting \ {"leftOff"} : v[f] = e[f]
  BY <1>3 DEF Survives
<1>5. /\ v.name = e.name /\ v.group = e.group /\ v.large = e.large /\ v.rid = e.rid
      /\ v.missingPosix = e.missingPosix /\ v.noSID = e.noSID
      /\ v.declared = e.declared /\ v.classes = e.classes
  BY <1>4 DEF Lasting, Fields
<1>6. OfPerson(s, p, ClassesOf(off), v)
  BY Zenon, <1>1, <1>5 DEF OfPerson
<1>7. \E attrs : /\ PersonAttrs(s, p, ClassesOf(off), attrs)
                 /\ v.attrs \subseteq attrs /\ attrs \subseteq v.attrs \cup v.dropped
  BY <1>1, <1>3 DEF Survives
<1>8. v.leftOff = Undeclared(s, p.classes) \cup off
  BY <1>1, <1>3 DEF Survives
<1>9. IsEntry(v) /\ (v.invalid # {} <=> Unpublishable(s, v))
  BY <1>3 DEF Survives
<1> QED
  BY <1>6, <1>7, <1>8, <1>9 DEF PublishedPerson, off

\* And of a group.
PublishedGroup(s, g, v) ==
  LET off == GroupOff(s, g) IN
  /\ OfGroup(s, g, ClassesOf(off), v)
  /\ v.leftOff = Undeclared(s, g.classes) \cup off
  /\ \E attrs : /\ GroupAttrs(g, attrs)
                /\ v.attrs \subseteq attrs /\ attrs \subseteq v.attrs \cup v.dropped

\* The entry of a group likewise.
LEMMA GroupIsPublished ==
  ASSUME NEW s, NEW g, NEW v, v = PlacedAndValidated(s, GroupBuilt(s, g))
  PROVE  /\ IsEntry(v) /\ (v.invalid # {} <=> Unpublishable(s, v))
         /\ PublishedGroup(s, g, v)
<1> DEFINE off == GroupOff(s, g)
           e == GroupEntryFrom(s, g, ClassesOf(off))
<1>1. /\ OfGroup(s, g, ClassesOf(off), e) /\ GroupAttrs(g, e.attrs)
      /\ e.leftOff = Undeclared(s, g.classes)
  <2> HIDE DEF off
  <2> QED
    BY GroupFields
<1>2. Rebuilds(s, GroupBuilt(s, g), e, off)
  BY GroupRebuilt
<1> HIDE DEF off, e
<1>3. Survives(s, v, e, off)
  BY <1>2, RebuiltSurvives
<1>4. \A f \in Lasting \ {"leftOff"} : v[f] = e[f]
  BY <1>3 DEF Survives
<1>5. /\ v.name = e.name /\ v.group = e.group /\ v.rid = e.rid
      /\ v.declared = e.declared /\ v.classes = e.classes
  BY <1>4 DEF Lasting, Fields
<1>6. OfGroup(s, g, ClassesOf(off), v)
  BY Zenon, <1>1, <1>5 DEF OfGroup
<1>7. \E attrs : /\ GroupAttrs(g, attrs)
                 /\ v.attrs \subseteq attrs /\ attrs \subseteq v.attrs \cup v.dropped
  BY <1>1, <1>3 DEF Survives
<1>8. v.leftOff = Undeclared(s, g.classes) \cup off
  BY <1>1, <1>3 DEF Survives
<1>9. IsEntry(v) /\ (v.invalid # {} <=> Unpublishable(s, v))
  BY <1>3 DEF Survives
<1> QED
  BY <1>6, <1>7, <1>8, <1>9 DEF PublishedGroup, off

\* Everything build publishes is the entry of a person or of a group it was
\* given, and says of itself whether it can be published.
THEOREM BuildPublishes ==
  ASSUME NEW s, NEW people, NEW groups, NEW v \in Build(s, people, groups)
  PROVE  /\ IsEntry(v) /\ (v.invalid # {} <=> Unpublishable(s, v))
         /\ \/ \E p \in people : PublishedPerson(s, p, v)
            \/ \E g \in groups : PublishedGroup(s, g, v)
<1>1. CASE \E p \in people : v = PlacedAndValidated(s, PersonBuilt(s, p))
  BY <1>1, PersonIsPublished
<1>2. CASE \E g \in groups : v = PlacedAndValidated(s, GroupBuilt(s, g))
  BY <1>2, GroupIsPublished
<1> QED
  BY <1>1, <1>2 DEF Build

------------------------------------------------------------------------------
\* What some verdicts of Validate say of an entry, and that none is about its
\* place.
LEMMA VerdictsSay ==
  ASSUME NEW sch, NEW e, NEW kind, NEW c \in Named(Problems(sch, e), kind)
  PROVE  /\ kind = "AuxiliaryNotAllowed" =>
              /\ Ruled(sch, e.classes) /\ c \notin ContentRuleOf(sch, e.classes).aux
              /\ c \in OfKind(sch, e.classes, "AUXILIARY")
         /\ kind = "MissingRequired" => c \notin e.attrs
         /\ kind # "NameFormViolation"
<1>1. \E p \in Problems(sch, e) : p.kind = kind /\ p.of = c
  BY DEF Named
<1>2. \A k, names : \A p \in Problem(k, names) : p.kind = k /\ p.of \in names
  BY DEF Problem
<1> DEFINE rule == ContentRuleOf(sch, e.classes)
           known == e.classes \cap DOMAIN sch.class
           must == MustTypes(sch, known) \cup rule.must
           may == MayTypes(sch, known) \cup rule.may
           over == IF Ruled(sch, e.classes)
                   THEN OfKind(sch, e.classes, "AUXILIARY") \ rule.aux ELSE {}
<1>3. \A p \in Problems(sch, e) :
        \/ p \in Problem("UnknownClass", e.classes \ known)
        \/ p \in Problem("MissingSuperclass", Chain(sch, known) \ e.classes)
        \/ p \in Problem("MissingRequired", must \ e.attrs)
        \/ p \in Problem("UnknownAttribute", e.attrs \ DOMAIN sch.type)
        \/ p \in Problem("NotAllowed", (e.attrs \cap DOMAIN sch.type) \ (must \cup may))
        \/ p \in Problem("Precluded", e.attrs \cap rule.not)
        \/ p \in Problem("AuxiliaryNotAllowed", over)
        \/ p \in Problem("InvalidValue", e.bad \cap e.attrs)
        \/ p \in Problem("RDNNotPresent", {e.rdn} \ e.attrs)
  BY Zenon DEF Problems
<1> HIDE DEF rule, known, must, may, over
<1>4. kind = "AuxiliaryNotAllowed" => c \in over
  BY <1>1, <1>2, <1>3
<1>5. kind = "MissingRequired" => c \in must \ e.attrs
  BY <1>1, <1>2, <1>3
<1>6. kind # "NameFormViolation"
  BY <1>1, <1>2, <1>3
<1>7. kind = "AuxiliaryNotAllowed" =>
        /\ Ruled(sch, e.classes) /\ c \notin ContentRuleOf(sch, e.classes).aux
        /\ c \in OfKind(sch, e.classes, "AUXILIARY")
  BY <1>4 DEF over, rule
<1> QED
  BY Zenon, <1>5, <1>6, <1>7

\* What is not allowed of an entry are auxiliary classes that it lists, and that
\* the content rule of its structural class does not.
LEMMA RuledAreUnlisted ==
  ASSUME NEW sch, NEW e, NEW c \in Named(Problems(sch, e), "AuxiliaryNotAllowed")
  PROVE  /\ Ruled(sch, e.classes) /\ c \notin ContentRuleOf(sch, e.classes).aux
         /\ c \in OfKind(sch, e.classes, "AUXILIARY")
BY Zenon, VerdictsSay

\* An entry with no problem lists only classes of the schema, and has what
\* they require.
LEMMA NoProblemLeft ==
  ASSUME NEW sch, NEW e, Problems(sch, e) = {}
  PROVE  e.classes \subseteq DOMAIN sch.class /\ MustTypes(sch, e.classes) \subseteq e.attrs
<1> DEFINE known == e.classes \cap DOMAIN sch.class
           must == MustTypes(sch, known) \cup ContentRuleOf(sch, e.classes).must
<1>1. Problem("UnknownClass", e.classes \ known) \subseteq Problems(sch, e)
  BY Zenon DEF Problems
<1>2. Problem("MissingRequired", must \ e.attrs) \subseteq Problems(sch, e)
  BY Zenon DEF Problems
<1>3. \A kind, names : Problem(kind, names) = {} => names = {}
  BY DEF Problem
<1>4. e.classes \ known = {} /\ must \ e.attrs = {}
  <2> HIDE DEF known, must
  <2>1. Problem("UnknownClass", e.classes \ known) = {}
    BY <1>1
  <2>2. Problem("MissingRequired", must \ e.attrs) = {}
    BY <1>2
  <2> QED
    BY <1>3, <2>1, <2>2
<1>5. known = e.classes
  BY <1>4
<1> QED
  BY <1>4, <1>5

\* The classes an entry must be published without, whatever the reason.
LEMMA UnmetClasses ==
  ASSUME NEW s, NEW e, NEW ruled, ruled = Named(e.checkedErr, "AuxiliaryNotAllowed"),
         NEW short, short = Short(s, e, Named(e.checkedErr, "MissingRequired"))
  PROVE  ClassesOf(Unmet(s, e)) = ruled \cup Below(s, e, ruled) \cup short
<1>1. \A a, b, c : ClassesOf(a \cup b \cup c) = ClassesOf(a) \cup ClassesOf(b) \cup ClassesOf(c)
  BY DEF ClassesOf
<1>2. ASSUME NEW why, NEW set PROVE ClassesOf(LeftOff(why, set)) = set
  <2>1. \A c \in set : [class |-> c, why |-> why].class = c
    OBVIOUS
  <2>2. \A c \in set : c \in ClassesOf(LeftOff(why, set))
    BY <2>1 DEF ClassesOf, LeftOff
  <2>3. \A c \in ClassesOf(LeftOff(why, set)) : c \in set
    BY DEF ClassesOf, LeftOff
  <2> QED
    BY <2>2, <2>3
<1> DEFINE below == Below(s, e, ruled)
<1>3. Unmet(s, e) = LeftOff("rule", ruled) \cup LeftOff("superior", below)
                    \cup LeftOff("must", short \ (ruled \cup below))
  BY Zenon DEF Unmet
<1> HIDE DEF below
<1>4. ClassesOf(Unmet(s, e)) = ruled \cup below \cup (short \ (ruled \cup below))
  <2>1. /\ ClassesOf(LeftOff("rule", ruled)) = ruled
        /\ ClassesOf(LeftOff("superior", below)) = below
        /\ ClassesOf(LeftOff("must", short \ (ruled \cup below)))
             = short \ (ruled \cup below)
    BY Zenon, <1>2
  <2>2. ClassesOf(Unmet(s, e)) = ClassesOf(LeftOff("rule", ruled))
          \cup ClassesOf(LeftOff("superior", below))
          \cup ClassesOf(LeftOff("must", short \ (ruled \cup below)))
    <3> DEFINE a == LeftOff("rule", ruled)
               b == LeftOff("superior", below)
               c == LeftOff("must", short \ (ruled \cup below))
    <3>1. Unmet(s, e) = a \cup b \cup c
      BY <1>3
    <3> HIDE DEF a, b, c
    <3>2. ClassesOf(a \cup b \cup c) = ClassesOf(a) \cup ClassesOf(b) \cup ClassesOf(c)
      BY <1>1
    <3> QED
      BY <3>1, <3>2 DEF a, b, c
  <2> QED
    BY <2>1, <2>2
<1> QED
  BY <1>4 DEF below

\* A declared class with a superclass that is left off is left off itself: for
\* that superclass's rule, or for the MUST it inherits (declared.go, unmet).
LEMMA UnmetReachesDown ==
  ASSUME NEW s, Graph(s.schema), NEW e, NEW c \in e.declared,
         NEW x \in Chain(s.schema, {c}), x \in ClassesOf(Unmet(s, e))
  PROVE  c \in ClassesOf(Unmet(s, e))
<1> DEFINE ruled == Named(e.checkedErr, "AuxiliaryNotAllowed")
           missing == Named(e.checkedErr, "MissingRequired")
           short == Short(s, e, missing)
<1>1. ClassesOf(Unmet(s, e)) = ruled \cup Below(s, e, ruled) \cup short
  BY UnmetClasses
<1> HIDE DEF ruled, missing, short
<1>2. Chain(s.schema, {x}) \subseteq Chain(s.schema, {c})
  BY ChainIsMonotone
<1>3. ASSUME NEW y \in Chain(s.schema, {c}), y \in ruled
      PROVE  c \in ruled \cup Below(s, e, ruled)
  BY <1>3 DEF Below, Above
<1>4. CASE x \in Below(s, e, ruled)
  <2>1. PICK y \in Chain(s.schema, {x}) : y \in ruled
    BY <1>4 DEF Below, Above
  <2> QED
    BY <1>1, <1>2, <1>3, <2>1
<1>5. CASE x \in short
  <2>1. MustTypes(s.schema, {x}) \cap missing # {}
    BY <1>5 DEF short, Short
  <2>2. MustTypes(s.schema, {x}) \subseteq MustTypes(s.schema, {c})
    BY MustIsInherited
  <2>3. c \in short
    BY <2>1, <2>2 DEF short, Short
  <2> QED
    BY <1>1, <2>3
<1> QED
  BY <1>1, <1>3, <1>4, <1>5

\* What an entry must be published without was declared, or is an auxiliary
\* class it lists.
LEMMA UnmetAreListed ==
  ASSUME NEW s, NEW e, IsAsked(s, e), NEW a, a = Asked(s, e),
         NEW c \in ClassesOf(Unmet(s, a))
  PROVE  c \in e.declared \/ c \in OfKind(s.schema, e.classes, "AUXILIARY")
<1> DEFINE ruled == Named(a.checkedErr, "AuxiliaryNotAllowed")
           short == Short(s, a, Named(a.checkedErr, "MissingRequired"))
<1>1. c \in ruled \cup Below(s, a, ruled) \cup short
  BY UnmetClasses
<1>2. a.checkedErr = Problems(s.schema, a) /\ Same(a, e)
  BY AskedIsAsked
<1>3. a.declared = e.declared /\ a.classes = e.classes
  BY <1>2 DEF Same, Lasting, Fields
<1>4. CASE c \in ruled
  BY <1>2, <1>3, <1>4, RuledAreUnlisted
<1>5. CASE c \in Below(s, a, ruled) \cup short
  BY <1>3, <1>5 DEF Below, Short
<1> QED
  BY <1>1, <1>4, <1>5

\* What is carried brings in nothing that is left off.
LEMMA CarriedKeepsClear ==
  ASSUME NEW s, Graph(s.schema), NEW classes, NEW skip, NEW carried,
         carried = Carried(s, classes, skip)
  PROVE  Chain(s.schema, carried) \cap skip = {}
<1> DEFINE sch == s.schema
<1>1. Graph(sch) /\ \A d \in carried : Chain(sch, {d}) \cap skip = {}
  BY DEF Carried
<1> HIDE DEF sch
<1>2. Chain(sch, carried) \subseteq
        UNION {Chain(sch, {d}) : d \in carried \cap DOMAIN sch.class}
  BY <1>1, ChainIsUnion
<1>3. ASSUME NEW c \in Chain(sch, carried) PROVE c \notin skip
  <2>1. \E set \in {Chain(sch, {d}) : d \in carried \cap DOMAIN sch.class} : c \in set
    BY Zenon, <1>2, <1>3
  <2>2. \E d \in carried : c \in Chain(sch, {d})
    BY Zenon, <2>1
  <2> QED
    BY Zenon, <1>1, <2>2
<1> QED
  BY <1>3 DEF sch

\* Every class a source declares is carried or said to be left off, and none
\* is said to be that the entry carries, when fixed are the classes it cannot
\* be built without.
LEMMA NoClassGoesUnsaid ==
  ASSUME NEW s, Graph(s.schema), \A c \in s.declared : Declarable(s.schema, c),
         NEW classes, NEW first, IsAsked(s, first),
         first.declared = Carried(s, classes, {}),
         NEW off, off = Unmet(s, Asked(s, first)),
         NEW fixed, fixed \subseteq DerivedClasses, OfKind(s.schema, fixed, "AUXILIARY") = {},
         NEW v, v.declared = Carried(s, classes, ClassesOf(off)),
         v.leftOff = Undeclared(s, classes) \cup off,
         Chain(s.schema, v.declared) \subseteq v.classes,
         v.classes \subseteq fixed \cup (Derivable \ ClassesOf(off))
                             \cup Chain(s.schema, v.declared)
  PROVE  /\ classes \subseteq v.declared \cup ClassesOf(v.leftOff)
         /\ v.declared \subseteq v.classes
         /\ \A l \in v.leftOff : l.why # "unchecked" => l.class \notin v.classes
<1> DEFINE asked == Asked(s, first)
           skip == ClassesOf(off)
<1>1. asked.declared = classes \cap s.declared
  <2>1. Same(asked, first)
    BY AskedIsAsked
  <2>2. asked.declared = first.declared
    BY <2>1 DEF Same, Lasting, Fields
  <2> QED
    BY <2>2 DEF Carried
<1>2. \A c \in s.declared : c \notin DerivedClasses /\ c \in DOMAIN s.schema.class
  BY DEF Declarable, OfKind
<1>3. \A l \in off : l.class \in skip
  BY DEF ClassesOf
<1>4. \A a, b : ClassesOf(a) \subseteq ClassesOf(b \cup a)
  BY DEF ClassesOf
<1>5. ASSUME NEW c \in classes PROVE c \in v.declared \cup ClassesOf(v.leftOff)
  <2>1. CASE c \notin s.declared
    <3>1. [class |-> c, why |-> "unchecked"] \in v.leftOff
      BY <1>5, <2>1 DEF Undeclared, LeftOff
    <3> QED
      BY <3>1 DEF ClassesOf
  <2>2. CASE c \in s.declared /\ Chain(s.schema, {c}) \cap skip = {}
    BY <1>5, <2>2 DEF Carried
  <2>3. CASE c \in s.declared /\ Chain(s.schema, {c}) \cap skip # {}
    <3>1. PICK x \in Chain(s.schema, {c}) : x \in ClassesOf(Unmet(s, asked))
      BY <2>3
    <3>2. c \in asked.declared
      BY <1>1, <1>5, <2>3
    <3> HIDE DEF asked
    <3>3. c \in ClassesOf(Unmet(s, asked))
      BY <3>1, <3>2, UnmetReachesDown
    <3>4. c \in ClassesOf(off)
      BY <3>3 DEF asked
    <3> QED
      BY <1>4, <3>4
  <2> QED
    BY <2>1, <2>2, <2>3
<1>6. v.declared \subseteq v.classes
  <2>1. v.declared \subseteq DOMAIN s.schema.class
    BY <1>2 DEF Carried
  <2>2. v.declared \cap DOMAIN s.schema.class \subseteq Chain(s.schema, v.declared)
    BY ChainIsClosure
  <2> QED
    BY <2>1, <2>2
<1>7. ASSUME NEW l \in v.leftOff, l.why # "unchecked" PROVE l.class \notin v.classes
  <2>1. l \in off
    BY <1>7 DEF Undeclared, LeftOff
  <2> DEFINE c == l.class
  <2>2. c \in skip
    BY <1>3, <2>1
  <2>3. c \notin fixed
    <3>1. c \in first.declared \/ c \in OfKind(s.schema, first.classes, "AUXILIARY")
      <4> HIDE DEF c
      <4>1. c \in ClassesOf(Unmet(s, asked))
        BY <2>2
      <4> HIDE DEF asked
      <4> QED
        BY <4>1, UnmetAreListed DEF asked
    <3>2. c \in first.declared => c \notin DerivedClasses
      BY <1>2 DEF Carried
    <3>3. c \in OfKind(s.schema, first.classes, "AUXILIARY") /\ c \in fixed
            => c \in OfKind(s.schema, fixed, "AUXILIARY")
      BY DEF OfKind
    <3> QED
      BY <3>1, <3>2, <3>3
  <2>4. c \notin Chain(s.schema, v.declared)
    <3>1. Chain(s.schema, v.declared) \cap skip = {}
      BY CarriedKeepsClear
    <3> QED
      BY <2>2, <3>1
  <2> QED
    BY <2>2, <2>3, <2>4
<1> QED
  BY <1>5, <1>6, <1>7

\* So for the entry of a person, whose keys, NT hash and posixAccount are
\* published or said to be missing too.
LEMMA PersonLosesNothingUnsaid ==
  ASSUME NEW s, Graph(s.schema), \A c \in s.declared : Declarable(s.schema, c),
         NEW p, OfKind(s.schema, StructureOf(p), "AUXILIARY") = {},
         NEW v, PublishedPerson(s, p, v)
  PROVE  /\ p.classes \subseteq v.declared \cup ClassesOf(v.leftOff)
         /\ v.declared \subseteq v.classes
         /\ p.attrs \subseteq v.attrs \cup v.dropped
         /\ \A l \in v.leftOff : l.why # "unchecked" => l.class \notin v.classes
         /\ p.keys => "sshPublicKey" \in v.attrs \cup v.dropped
                      \/ "ldapPublicKey" \in ClassesOf(v.leftOff)
         /\ s.cfg.ntHash /\ p.nt =>
              \/ "sambaNTPassword" \in v.attrs \cup v.dropped
              \/ v.noSID \/ "sambaSamAccount" \in ClassesOf(v.leftOff)
         /\ "posixAccount" \in v.classes \cup ClassesOf(v.leftOff) \/ v.missingPosix # {}
<1> DEFINE off == PersonOff(s, p)
           skip == ClassesOf(off)
           first == PersonEntry(s, p, {})
<1>1. /\ OfPerson(s, p, skip, v) /\ v.leftOff = Undeclared(s, p.classes) \cup off
  BY DEF PublishedPerson
<1>2. PICK attrs : /\ PersonAttrs(s, p, skip, attrs)
                   /\ v.attrs \subseteq attrs /\ attrs \subseteq v.attrs \cup v.dropped
  BY DEF PublishedPerson
<1>3. skip \subseteq ClassesOf(v.leftOff)
  <2>1. \A a, b : ClassesOf(a) \subseteq ClassesOf(b \cup a)
    BY DEF ClassesOf
  <2> QED
    BY <1>1, <2>1
<1>4. /\ p.classes \subseteq v.declared \cup ClassesOf(v.leftOff)
      /\ v.declared \subseteq v.classes
      /\ \A l \in v.leftOff : l.why # "unchecked" => l.class \notin v.classes
  <2>1. IsAsked(s, first) /\ first.declared = Carried(s, p.classes, {})
    <3>0. ASSUME NEW none, NEW e, e = PersonEntry(s, p, none)
          PROVE  IsEntry(e) /\ e.checked = FALSE /\ OfPerson(s, p, none, e)
      BY <3>0, PersonFields
    <3>1. IsEntry(first) /\ first.checked = FALSE /\ OfPerson(s, p, {}, first)
      BY Zenon, <3>0
    <3> HIDE DEF first
    <3>2. first.declared = Carried(s, p.classes, {})
      BY Zenon, <3>1 DEF OfPerson
    <3> QED
      BY <3>1, <3>2, FreshIsAsked
  <2>2. off = Unmet(s, Asked(s, first))
    BY DEF PersonOff
  <2>3. StructureOf(p) \subseteq DerivedClasses
    BY DEF StructureOf, DerivedClasses
  <2>4. /\ v.declared = Carried(s, p.classes, skip)
        /\ StructureOf(p) \cup Chain(s.schema, v.declared) \subseteq v.classes
        /\ v.classes \subseteq StructureOf(p) \cup (Derivable \ skip)
                               \cup Chain(s.schema, v.declared)
    BY Zenon, <1>1 DEF OfPerson
  <2>5. Chain(s.schema, v.declared) \subseteq v.classes
    BY <2>4
  <2> HIDE DEF off, first
  <2> QED
    BY <1>1, <2>1, <2>2, <2>3, <2>4, <2>5, NoClassGoesUnsaid
<1> HIDE DEF skip, off
<1>5. /\ p.attrs \subseteq attrs
      /\ p.keys /\ "ldapPublicKey" \notin skip => "sshPublicKey" \in attrs
      /\ WithSamba(s, p, skip) => "sambaNTPassword" \in attrs
  <2>1. p.attrs \subseteq attrs
    BY Zenon, <1>2 DEF PersonAttrs
  <2>2. p.keys /\ "ldapPublicKey" \notin skip => "sshPublicKey" \in attrs
    BY Zenon, <1>2 DEF PersonAttrs, Keyed
  <2>3. WithSamba(s, p, skip) => "sambaNTPassword" \in attrs
    BY <1>2 DEF PersonAttrs
  <2> QED
    BY Zenon, <2>1, <2>2, <2>3
<1>6. v.noSID = (Hashed(s, p, skip) /\ ~ WithSamba(s, p, skip))
  BY Zenon, <1>1 DEF OfPerson
<1>7. /\ v.missingPosix = PosixMust \ p.attrs
      /\ "posixAccount" \notin skip /\ PosixMust \subseteq p.attrs => "posixAccount" \in v.classes
  <2>1. v.missingPosix = PosixMust \ p.attrs
    BY Zenon, <1>1 DEF OfPerson
  <2>2. "posixAccount" \notin skip /\ PosixMust \subseteq p.attrs => "posixAccount" \in v.classes
    BY Zenon, <1>1 DEF OfPerson
  <2> QED
    BY <2>1, <2>2
<1>8. p.keys => "sshPublicKey" \in v.attrs \cup v.dropped
                \/ "ldapPublicKey" \in ClassesOf(v.leftOff)
  BY <1>2, <1>3, <1>5
<1>9. s.cfg.ntHash /\ p.nt =>
        \/ "sambaNTPassword" \in v.attrs \cup v.dropped
        \/ v.noSID \/ "sambaSamAccount" \in ClassesOf(v.leftOff)
  BY <1>2, <1>3, <1>5, <1>6 DEF Hashed
<1>10. "posixAccount" \in v.classes \cup ClassesOf(v.leftOff) \/ v.missingPosix # {}
  BY <1>3, <1>7
<1>11. p.attrs \subseteq v.attrs \cup v.dropped
  BY <1>2, <1>5
<1> QED
  BY Zenon, <1>4, <1>8, <1>9, <1>10, <1>11

\* And for the entry of a group.
LEMMA GroupLosesNothingUnsaid ==
  ASSUME NEW s, Graph(s.schema), \A c \in s.declared : Declarable(s.schema, c),
         NEW g, OfKind(s.schema, GroupStructureOf(g), "AUXILIARY") = {},
         NEW v, PublishedGroup(s, g, v)
  PROVE  /\ g.classes \subseteq v.declared \cup ClassesOf(v.leftOff)
         /\ v.declared \subseteq v.classes
         /\ g.attrs \subseteq v.attrs \cup v.dropped
         /\ \A l \in v.leftOff : l.why # "unchecked" => l.class \notin v.classes
<1> DEFINE off == GroupOff(s, g)
           skip == ClassesOf(off)
           first == GroupEntryFrom(s, g, {})
<1>1. /\ OfGroup(s, g, skip, v) /\ v.leftOff = Undeclared(s, g.classes) \cup off
  BY DEF PublishedGroup
<1>2. g.attrs \subseteq v.attrs \cup v.dropped
  BY DEF PublishedGroup, GroupAttrs
<1>3. IsAsked(s, first) /\ first.declared = Carried(s, g.classes, {})
  <2>0. ASSUME NEW none, NEW e, e = GroupEntryFrom(s, g, none)
        PROVE  IsEntry(e) /\ e.checked = FALSE /\ OfGroup(s, g, none, e)
    BY <2>0, GroupFields
  <2>1. IsEntry(first) /\ first.checked = FALSE /\ OfGroup(s, g, {}, first)
    BY Zenon, <2>0
  <2> HIDE DEF first
  <2>2. first.declared = Carried(s, g.classes, {})
    BY Zenon, <2>1 DEF OfGroup
  <2> QED
    BY <2>1, <2>2, FreshIsAsked
<1>4. off = Unmet(s, Asked(s, first))
  BY DEF GroupOff
<1>5. GroupStructureOf(g) \subseteq DerivedClasses
  BY DEF GroupStructureOf, DerivedClasses
<1>6. /\ v.declared = Carried(s, g.classes, skip)
      /\ v.classes = GroupStructureOf(g) \cup Chain(s.schema, v.declared)
  BY Zenon, <1>1 DEF OfGroup
<1>7. /\ Chain(s.schema, v.declared) \subseteq v.classes
      /\ v.classes \subseteq GroupStructureOf(g) \cup (Derivable \ skip)
                             \cup Chain(s.schema, v.declared)
  BY <1>6
<1> HIDE DEF off, first
<1>8. /\ g.classes \subseteq v.declared \cup ClassesOf(v.leftOff)
      /\ v.declared \subseteq v.classes
      /\ \A l \in v.leftOff : l.why # "unchecked" => l.class \notin v.classes
  BY <1>1, <1>3, <1>4, <1>5, <1>6, <1>7, NoClassGoesUnsaid
<1> QED
  BY <1>2, <1>8

------------------------------------------------------------------------------
\* A schema stands alone in which no class but a structural one names a
\* structural superclass: what is above an auxiliary class is found one
\* definition at a time, as Builds does below a structural one.
LEMMA DefinitionsStandAlone ==
  ASSUME NEW sch, Graph(sch),
         \A c \in DOMAIN sch.class : sch.class[c].kind # "STRUCTURAL" =>
           OfKind(sch, sch.class[c].sup, "STRUCTURAL") = {}
  PROVE  StandAlone(sch)
<1> DEFINE others == {c \in DOMAIN sch.class : sch.class[c].kind # "STRUCTURAL"}
<1>1. ClosedUnder(sch, others)
  BY DEF Graph, ClosedUnder, OfKind
<1> SUFFICES ASSUME NEW c \in OfKind(sch, DOMAIN sch.class, "AUXILIARY")
             PROVE  OfKind(sch, Chain(sch, {c}), "STRUCTURAL") = {}
  BY DEF StandAlone
<1>2. {c} \cap DOMAIN sch.class \subseteq others
  BY DEF OfKind
<1>3. \A d \in others : sch.class[d].kind # "STRUCTURAL"
  OBVIOUS
<1> HIDE DEF others
<1>4. Chain(sch, {c}) \subseteq others
  BY <1>1, <1>2, ChainIsClosure
<1> QED
  BY <1>3, <1>4 DEF OfKind

\* Then auxiliary classes bring in no structural class.
LEMMA AuxiliariesAddNothing ==
  ASSUME NEW sch, Graph(sch), StandAlone(sch), NEW classes,
         \A c \in classes \cap DOMAIN sch.class : sch.class[c].kind = "AUXILIARY"
  PROVE  OfKind(sch, Chain(sch, classes), "STRUCTURAL") = {}
<1> SUFFICES ASSUME NEW c \in OfKind(sch, Chain(sch, classes), "STRUCTURAL") PROVE FALSE
  OBVIOUS
<1>1. c \in Chain(sch, classes) /\ c \in DOMAIN sch.class /\ sch.class[c].kind = "STRUCTURAL"
  BY DEF OfKind
<1>2. \E set \in {Chain(sch, {d}) : d \in classes \cap DOMAIN sch.class} : c \in set
  BY Zenon, <1>1, ChainIsUnion
<1>3. PICK d \in classes \cap DOMAIN sch.class : c \in Chain(sch, {d})
  BY Zenon, <1>2
<1>4. d \in OfKind(sch, DOMAIN sch.class, "AUXILIARY")
  BY DEF OfKind
<1>5. c \in OfKind(sch, Chain(sch, {d}), "STRUCTURAL")
  BY <1>1, <1>3 DEF OfKind
<1> QED
  BY <1>4, <1>5 DEF StandAlone

\* The content rule of an entry is the one of its structural classes.
LEMMA StructuralDecides ==
  ASSUME NEW sch, NEW few, NEW many,
         OfKind(sch, few, "STRUCTURAL") = OfKind(sch, many, "STRUCTURAL")
  PROVE  /\ StructuralOf(sch, few) = StructuralOf(sch, many)
         /\ Ruled(sch, few) <=> Ruled(sch, many)
         /\ ContentRuleOf(sch, few) = ContentRuleOf(sch, many)
<1>1. StructuralOf(sch, few) = StructuralOf(sch, many)
  BY DEF StructuralOf
<1> QED
  BY Zenon, <1>1 DEF Ruled, ContentRuleOf

\* A class no content rule allows one entry, none allows another one with the
\* same structural classes.
LEMMA RuledAgain ==
  ASSUME NEW sch, NEW e, NEW c \in Named(Problems(sch, e), "AuxiliaryNotAllowed"),
         NEW x, OfKind(sch, x.classes, "STRUCTURAL") = OfKind(sch, e.classes, "STRUCTURAL"),
         c \in x.classes
  PROVE  Problems(sch, x) # {}
<1> DEFINE rule == ContentRuleOf(sch, x.classes)
           over == IF Ruled(sch, x.classes)
                   THEN OfKind(sch, x.classes, "AUXILIARY") \ rule.aux ELSE {}
<1>1. /\ Ruled(sch, x.classes) /\ rule = ContentRuleOf(sch, e.classes)
  BY RuledAreUnlisted, StructuralDecides
<1>2. c \in OfKind(sch, x.classes, "AUXILIARY")
  BY RuledAreUnlisted DEF OfKind
<1>3. c \in over
  BY <1>1, <1>2, RuledAreUnlisted
<1>4. Problem("AuxiliaryNotAllowed", over) \subseteq Problems(sch, x)
  BY Zenon DEF Problems
<1> HIDE DEF over
<1>5. Problem("AuxiliaryNotAllowed", over) # {}
  BY <1>3 DEF Problem
<1> QED
  BY <1>4, <1>5

\* An entry without what one of its classes requires has a problem.
LEMMA MissingAgain ==
  ASSUME NEW sch, Graph(sch), NEW x, NEW c \in x.classes,
         NEW a \in MustTypes(sch, {c}), a \notin x.attrs
  PROVE  Problems(sch, x) # {}
<1> SUFFICES ASSUME Problems(sch, x) = {} PROVE FALSE
  OBVIOUS
<1>1. x.classes \subseteq DOMAIN sch.class /\ MustTypes(sch, x.classes) \subseteq x.attrs
  BY NoProblemLeft
<1>2. {c} \cap DOMAIN sch.class \subseteq Chain(sch, x.classes)
  BY ChainIsClosure
<1>3. MustTypes(sch, {c}) \subseteq MustTypes(sch, x.classes)
  BY <1>2, MustIsInherited
<1> QED
  BY <1>1, <1>3

\* The classes authnd derives for a person, and the attributes of the entry of
\* one who has these classes.
DerivedOf(s, p, skip) ==
  {c \in Derivable \ skip :
     CASE c = "posixAccount" -> PosixMust \subseteq p.attrs
       [] c = "ldapPublicKey" -> Keyed(p, skip)
       [] c = "sambaSamAccount" -> WithSamba(s, p, skip)
       [] OTHER -> TRUE}
AttrsOf(s, p, skip, classes) ==
  {"uid"} \cup p.attrs
  \cup {a \in {"cn"} : Allows(s, classes, a)}
  \cup {a \in {"sambaSID", "sambaNTPassword"} : WithSamba(s, p, skip)}
  \cup {a \in {"sshPublicKey"} : Keyed(p, skip)}

\* PersonEntry gives an entry just those.
LEMMA PersonParts ==
  ASSUME NEW s, NEW p, NEW skip, NEW e, e = PersonEntry(s, p, skip)
  PROVE  /\ e.rdn = "uid" /\ e.declared = Carried(s, p.classes, skip)
         /\ e.classes = StructureOf(p) \cup DerivedOf(s, p, skip)
                        \cup Chain(s.schema, Carried(s, p.classes, skip))
         /\ e.attrs = AttrsOf(s, p, skip, e.classes)
<1> DEFINE
      classes == WithDeclared(s, StructureOf(p) \cup DerivedOf(s, p, skip), p.classes, skip)
      attrs == AttrsOf(s, p, skip, classes)
      base == Entry(p.name, "uid", FALSE, classes, attrs)
      rid == IF WithSamba(s, p, skip) /\ "sambaSID" \notin p.attrs
             THEN Rid(s.cfg, p.uid) ELSE NoRid
      noSID == Hashed(s, p, skip) /\ ~ WithSamba(s, p, skip)
      missing == PosixMust \ p.attrs
      carried == Carried(s, p.classes, skip)
      off == Undeclared(s, p.classes)
<1>1. e = [base EXCEPT !.bad = p.bad, !.given = p.attrs, !.large = p.large, !.rid = rid,
                       !.missingPosix = missing, !.noSID = noSID, !.declared = carried,
                       !.leftOff = off]
  BY Zenon DEF PersonEntry, StructureOf, Keyed, WithSamba, Hashed, DerivedOf, AttrsOf, Derivable
<1>2. classes = StructureOf(p) \cup DerivedOf(s, p, skip) \cup Chain(s.schema, carried)
  BY Zenon DEF WithDeclared
<1> HIDE DEF classes, attrs, rid, noSID, missing, carried, off
<1>3. DOMAIN base = Fields /\ base.rdn = "uid" /\ base.classes = classes /\ base.attrs = attrs
  BY DEF Entry, Fields
<1> HIDE DEF base
<1>4. e.rdn = base.rdn /\ e.declared = carried /\ e.classes = base.classes /\ e.attrs = base.attrs
  BY <1>1, <1>3 DEF Fields
<1>5. e.attrs = AttrsOf(s, p, skip, e.classes)
  BY Zenon, <1>3, <1>4 DEF attrs
<1> QED
  BY <1>2, <1>3, <1>4, <1>5 DEF carried

\* GroupEntryFrom gives an entry the name of a group, and attributes that do
\* not depend on what is left off.
LEMMA GroupParts ==
  ASSUME NEW s, NEW g, NEW skip, NEW e, e = GroupEntryFrom(s, g, skip),
         NEW f, f = GroupEntryFrom(s, g, {})
  PROVE  e.rdn = "cn" /\ e.attrs = f.attrs
<1> DEFINE
      class == IF "gidNumber" \in g.attrs THEN "posixGroup"
               ELSE IF g.members THEN "groupOfNames" ELSE "organizationalRole"
      members == IF ~g.members THEN {}
                 ELSE IF class = "posixGroup" THEN {"memberUid"} ELSE {"member"}
      attrs == {"cn"} \cup g.attrs \cup members
      off == Undeclared(s, g.classes)
<1>1. ASSUME NEW some, NEW h, h = GroupEntryFrom(s, g, some)
      PROVE  h.rdn = "cn" /\ h.attrs = attrs
  <2> DEFINE classes == WithDeclared(s, {class}, g.classes, some)
             base == Entry(g.name, "cn", TRUE, classes, attrs)
             carried == Carried(s, g.classes, some)
  <2>1. h = [base EXCEPT !.bad = g.bad, !.given = g.attrs, !.large = g.large,
                         !.declared = carried, !.leftOff = off]
    BY Zenon, <1>1 DEF GroupEntryFrom
  <2> HIDE DEF classes, carried, off, attrs
  <2>2. DOMAIN base = Fields /\ base.rdn = "cn" /\ base.attrs = attrs
    BY DEF Entry, Fields
  <2> HIDE DEF base
  <2> QED
    BY <2>1, <2>2 DEF Fields
<1> HIDE DEF attrs
<1>2. e.rdn = "cn" /\ e.attrs = attrs
  BY Zenon, <1>1
<1>3. f.attrs = attrs
  BY Zenon, <1>1
<1> QED
  BY <1>2, <1>3

\* Nothing an entry has without some classes is missing from the one with them.
LEMMA PersonLosesOnly ==
  ASSUME NEW s, Graph(s.schema), NEW p, NEW skip,
         NEW e, e = PersonEntry(s, p, skip), NEW f, f = PersonEntry(s, p, {})
  PROVE  e.attrs \subseteq f.attrs
<1> DEFINE sch == s.schema
           some == Carried(s, p.classes, skip)
           all == Carried(s, p.classes, {})
<1>0. ASSUME NEW none, NEW h, h = PersonEntry(s, p, none)
      PROVE  /\ h.classes = StructureOf(p) \cup DerivedOf(s, p, none)
                            \cup Chain(sch, Carried(s, p.classes, none))
             /\ h.attrs = AttrsOf(s, p, none, h.classes)
  BY <1>0, PersonParts
<1>1. /\ WithSamba(s, p, skip) => WithSamba(s, p, {})
      /\ Keyed(p, skip) => Keyed(p, {})
  <2>1. WithSamba(s, p, skip) => WithSamba(s, p, {})
    BY Zenon DEF WithSamba, Hashed
  <2>2. Keyed(p, skip) => Keyed(p, {})
    BY Zenon DEF Keyed
  <2> QED
    BY Zenon, <2>1, <2>2
<1>2. DerivedOf(s, p, skip) \subseteq DerivedOf(s, p, {})
  <2> SUFFICES ASSUME NEW c \in DerivedOf(s, p, skip) PROVE c \in DerivedOf(s, p, {})
    OBVIOUS
  <2>1. /\ c \in Derivable /\ c \in Derivable \ {}
        /\ c = "posixAccount" => PosixMust \subseteq p.attrs
    BY DEF DerivedOf
  <2>2. c = "ldapPublicKey" => Keyed(p, {})
    BY <1>1 DEF DerivedOf
  <2>3. c = "sambaSamAccount" => WithSamba(s, p, {})
    BY <1>1 DEF DerivedOf
  <2> QED
    BY <2>1, <2>2, <2>3 DEF DerivedOf
<1>3. some \subseteq all
  BY DEF Carried
<1>4. Graph(sch) /\ some \cap DOMAIN sch.class \subseteq Chain(sch, all)
  BY <1>3, ChainIsClosure
<1>5. e.classes \subseteq f.classes
  <2>1. Chain(sch, some) \subseteq Chain(sch, all)
    <3> HIDE DEF sch, some, all
    <3> QED
      BY <1>4, ChainIsMonotone
  <2>2. e.classes = StructureOf(p) \cup DerivedOf(s, p, skip) \cup Chain(sch, some)
    BY Zenon, <1>0
  <2>3. f.classes = StructureOf(p) \cup DerivedOf(s, p, {}) \cup Chain(sch, all)
    BY Zenon, <1>0
  <2> HIDE DEF sch, some, all
  <2> QED
    BY <1>2, <2>1, <2>2, <2>3
<1>6. Chain(sch, e.classes) \subseteq Chain(sch, f.classes)
  <2> HIDE DEF sch
  <2>1. e.classes \cap DOMAIN sch.class \subseteq Chain(sch, f.classes)
    BY <1>4, <1>5, ChainIsClosure
  <2> QED
    BY <1>4, <2>1, ChainIsMonotone
<1>7. Allows(s, e.classes, "cn") => Allows(s, f.classes, "cn")
  BY <1>6 DEF Allows, MustTypes, MayTypes
<1>8. e.attrs = AttrsOf(s, p, skip, e.classes)
  BY Zenon, <1>0
<1>9. f.attrs = AttrsOf(s, p, {}, f.classes)
  BY Zenon, <1>0
<1>10. AttrsOf(s, p, skip, e.classes) \subseteq AttrsOf(s, p, {}, f.classes)
  BY <1>1, <1>7 DEF AttrsOf
<1> QED
  BY <1>8, <1>9, <1>10

------------------------------------------------------------------------------
\* The classes a server knows are a graph, what it declares and derives of them
\* is auxiliary, and what is auxiliary stands alone.  It derives
\* sambaSamAccount only where the NT hash is published.
ClassesHold(s) ==
  /\ Graph(s.schema) /\ StandAlone(s.schema)
  /\ \A c \in s.declared : Declarable(s.schema, c)
  /\ \A c \in Derivable \cap DOMAIN s.schema.class :
       (c = "sambaSamAccount" => s.cfg.ntHash) => s.schema.class[c].kind = "AUXILIARY"

\* What is carried of the declared classes adds no structural class.
LEMMA CarriedAddNothing ==
  ASSUME NEW s, ClassesHold(s), NEW classes, NEW skip
  PROVE  OfKind(s.schema, Chain(s.schema, Carried(s, classes, skip)), "STRUCTURAL") = {}
<1> DEFINE sch == s.schema
           carried == Carried(s, classes, skip)
<1>1. Graph(sch) /\ StandAlone(sch) /\ \A c \in s.declared : Declarable(sch, c)
  BY Zenon DEF ClassesHold
<1>2. \A c \in carried \cap DOMAIN sch.class : sch.class[c].kind = "AUXILIARY"
  BY <1>1 DEF Carried, Declarable, OfKind
<1> HIDE DEF sch, carried
<1>3. OfKind(sch, Chain(sch, carried), "STRUCTURAL") = {}
  BY <1>1, <1>2, AuxiliariesAddNothing
<1> QED
  BY <1>3 DEF sch, carried

\* However a person is built, their structural classes are the ones of their
\* shape.
LEMMA ShapeOfPerson ==
  ASSUME NEW s, ClassesHold(s), NEW p, NEW skip, NEW e, e = PersonEntry(s, p, skip)
  PROVE  OfKind(s.schema, e.classes, "STRUCTURAL")
           = OfKind(s.schema, StructureOf(p), "STRUCTURAL")
<1> DEFINE chain == Chain(s.schema, Carried(s, p.classes, skip))
           derived == DerivedOf(s, p, skip)
<1>1. e.classes = StructureOf(p) \cup derived \cup chain
  BY PersonParts
<1>2. OfKind(s.schema, chain, "STRUCTURAL") = {}
  BY CarriedAddNothing
<1>3. OfKind(s.schema, derived, "STRUCTURAL") = {}
  <2> SUFFICES ASSUME NEW c \in derived, c \in DOMAIN s.schema.class,
                      s.schema.class[c].kind = "STRUCTURAL"
               PROVE  FALSE
    BY DEF OfKind
  <2>1. c \in Derivable
    BY DEF DerivedOf
  <2>2. c = "sambaSamAccount" => WithSamba(s, p, skip)
    BY DEF DerivedOf
  <2>3. c = "sambaSamAccount" => s.cfg.ntHash
    BY Zenon, <2>2 DEF WithSamba, Hashed
  <2>4. s.schema.class[c].kind = "AUXILIARY"
    BY Zenon, <2>1, <2>3 DEF ClassesHold
  <2> QED
    BY <2>4
<1> HIDE DEF chain, derived
<1> QED
  BY <1>1, <1>2, <1>3 DEF OfKind

\* And those of a group.
LEMMA ShapeOfGroup ==
  ASSUME NEW s, ClassesHold(s), NEW g, NEW skip, NEW e, e = GroupEntryFrom(s, g, skip)
  PROVE  OfKind(s.schema, e.classes, "STRUCTURAL")
           = OfKind(s.schema, GroupStructureOf(g), "STRUCTURAL")
<1> DEFINE chain == Chain(s.schema, Carried(s, g.classes, skip))
<1>0. OfGroup(s, g, skip, e)
  BY GroupFields
<1>1. e.classes = GroupStructureOf(g) \cup chain
  BY Zenon, <1>0 DEF OfGroup
<1>2. OfKind(s.schema, chain, "STRUCTURAL") = {}
  BY CarriedAddNothing
<1> HIDE DEF chain
<1> QED
  BY <1>1, <1>2 DEF OfKind

\* An entry would fail with a class it was found not to carry, if it has no
\* attribute more than the one that was asked, and no other shape: the class is
\* ruled out again, or one above it, or a MUST of it is missing again.
LEMMA LeftOffWouldFail ==
  ASSUME NEW s, ClassesHold(s), NEW first, IsAsked(s, first),
         first.declared \subseteq s.declared,
         NEW l \in Unmet(s, Asked(s, first)),
         NEW x, Chain(s.schema, {l.class}) \subseteq x.classes, x.attrs \subseteq first.attrs,
         OfKind(s.schema, x.classes, "STRUCTURAL")
           = OfKind(s.schema, first.classes, "STRUCTURAL")
  PROVE  Problems(s.schema, x) # {}
<1> DEFINE sch == s.schema
           a == Asked(s, first)
           c == l.class
           ruled == Named(a.checkedErr, "AuxiliaryNotAllowed")
           missing == Named(a.checkedErr, "MissingRequired")
           short == Short(s, a, missing)
<1>1. /\ a.checkedErr = Problems(sch, a) /\ a.attrs = first.attrs
      /\ a.classes = first.classes /\ a.declared = first.declared
  BY AskedIsAsked DEF Same, Lasting, Fields
<1>2. c \in ClassesOf(Unmet(s, a))
  BY DEF ClassesOf
<1>3. Graph(sch) /\ \A d \in s.declared : d \in DOMAIN sch.class
  <2>1. Graph(sch) /\ \A d \in s.declared : Declarable(sch, d)
    BY Zenon DEF ClassesHold
  <2> QED
    BY <2>1 DEF Declarable, OfKind
<1>4. OfKind(sch, x.classes, "STRUCTURAL") = OfKind(sch, a.classes, "STRUCTURAL")
  BY <1>1
<1>5. Chain(sch, {c}) \subseteq x.classes
  OBVIOUS
<1> HIDE DEF sch, a, c
<1>6. c \in ruled \cup Below(s, a, ruled) \cup short
  BY <1>2, UnmetClasses
<1>7. ASSUME NEW y \in ruled, y \in x.classes PROVE Problems(sch, x) # {}
  <2>1. y \in Named(Problems(sch, a), "AuxiliaryNotAllowed")
    BY <1>1, <1>7
  <2> QED
    BY <1>4, <1>7, <2>1, RuledAgain
<1>8. c \in DOMAIN sch.class => c \in x.classes
  BY <1>3, <1>5, ChainIsClosure
<1>9. CASE c \in ruled
  <2>1. c \in Named(Problems(sch, a), "AuxiliaryNotAllowed")
    BY <1>1, <1>9
  <2>2. c \in OfKind(sch, a.classes, "AUXILIARY")
    BY Zenon, <2>1, RuledAreUnlisted
  <2>3. c \in x.classes
    BY <1>8, <2>2 DEF OfKind
  <2> QED
    BY <1>7, <1>9, <2>3 DEF sch
<1>10. CASE c \in Below(s, a, ruled)
  <2>1. PICK y \in Chain(sch, {c}) : y \in ruled
    BY <1>10 DEF Below, Above, sch
  <2> QED
    BY <1>5, <1>7, <2>1 DEF sch
<1>11. CASE c \in short
  <2>1. c \in a.declared /\ MustTypes(sch, {c}) \cap missing # {}
    BY <1>11 DEF short, Short, sch
  <2>2. PICK m \in MustTypes(sch, {c}) : m \in missing
    BY <2>1
  <2>3. m \in Named(Problems(sch, a), "MissingRequired")
    BY <1>1, <2>2
  <2>4. m \notin a.attrs
    BY Zenon, <2>3, VerdictsSay
  <2>5. m \notin x.attrs
    BY <1>1, <2>4
  <2>6. c \in x.classes
    BY <1>1, <1>3, <1>8, <2>1
  <2>7. Problems(sch, x) # {}
    BY <1>3, <2>2, <2>5, <2>6, MissingAgain
  <2> QED
    BY <2>7 DEF sch
<1> QED
  BY <1>6, <1>9, <1>10, <1>11 DEF sch

\* An entry fails with any class that it was rebuilt without.
LEMMA RebuiltForCause ==
  ASSUME NEW s, ClassesHold(s), NEW classes,
         NEW first, IsEntry(first), first.checked = FALSE,
         first.declared = Carried(s, classes, {}),
         NEW off, off = Unmet(s, Asked(s, first)),
         NEW e, e.leftOff = Undeclared(s, classes), e.attrs \subseteq first.attrs,
         OfKind(s.schema, e.classes, "STRUCTURAL")
           = OfKind(s.schema, first.classes, "STRUCTURAL"),
         NEW v, Survives(s, v, e, off), NEW l \in v.leftOff, l.why # "unchecked",
         NEW x, x = [v EXCEPT !.classes = @ \cup Chain(s.schema, {l.class})]
  PROVE  Problems(s.schema, x) # {}
<1> DEFINE sch == s.schema
           c == l.class
           chain == Chain(sch, {c})
<1>1. Graph(sch) /\ StandAlone(sch) /\ \A d \in s.declared : Declarable(sch, d)
  BY Zenon DEF ClassesHold
<1>2. /\ IsEntry(v) /\ v.leftOff = e.leftOff \cup off /\ v.classes = e.classes
      /\ v.attrs \subseteq e.attrs
  BY DEF Survives, Lasting, Fields
<1>3. l \in off
  BY <1>2 DEF Undeclared, LeftOff
<1>4. IsAsked(s, first) /\ first.declared \subseteq s.declared
  BY FreshIsAsked DEF Carried
<1>5. OfKind(sch, chain, "STRUCTURAL") = {}
  <2>1. c \in ClassesOf(Unmet(s, Asked(s, first)))
    BY <1>3 DEF ClassesOf
  <2> HIDE DEF c
  <2>2. c \in first.declared \/ c \in OfKind(sch, first.classes, "AUXILIARY")
    BY <1>4, <2>1, UnmetAreListed
  <2>3. \A d \in {c} \cap DOMAIN sch.class : sch.class[d].kind = "AUXILIARY"
    BY <1>1, <1>4, <2>2 DEF Declarable, OfKind
  <2> HIDE DEF sch
  <2> QED
    BY <1>1, <2>3, AuxiliariesAddNothing
<1>6. x.classes = v.classes \cup chain /\ x.attrs = v.attrs
  <2>1. DOMAIN v = Fields
    BY <1>2 DEF IsEntry
  <2> HIDE DEF chain
  <2>2. x = [v EXCEPT !.classes = @ \cup chain]
    BY DEF chain
  <2> QED
    BY <2>1, <2>2 DEF Fields
<1>7. OfKind(sch, x.classes, "STRUCTURAL") = OfKind(sch, first.classes, "STRUCTURAL")
  <2>1. OfKind(sch, e.classes, "STRUCTURAL") = OfKind(sch, first.classes, "STRUCTURAL")
    OBVIOUS
  <2> HIDE DEF chain, sch
  <2>2. OfKind(sch, x.classes, "STRUCTURAL") = OfKind(sch, v.classes, "STRUCTURAL")
    BY <1>5, <1>6 DEF OfKind
  <2> QED
    BY <1>2, <2>1, <2>2
<1>8. Chain(s.schema, {l.class}) \subseteq x.classes /\ x.attrs \subseteq first.attrs
  BY <1>2, <1>6
<1> QED
  BY <1>3, <1>4, <1>7, <1>8, LeftOffWouldFail

\* What a person is published without, they could not be published with.
LEMMA PersonLeftOffForCause ==
  ASSUME NEW s, ClassesHold(s), NEW p, NEW v, v = PlacedAndValidated(s, PersonBuilt(s, p)),
         NEW l \in v.leftOff, l.why # "unchecked",
         NEW x, x = [v EXCEPT !.classes = @ \cup Chain(s.schema, {l.class})]
  PROVE  Problems(s.schema, x) # {}
<1> DEFINE sch == s.schema
           off == PersonOff(s, p)
           e == PersonEntry(s, p, ClassesOf(off))
           first == PersonEntry(s, p, {})
<1>0. ASSUME NEW none, NEW h, h = PersonEntry(s, p, none)
      PROVE  /\ IsEntry(h) /\ h.checked = FALSE /\ h.leftOff = Undeclared(s, p.classes)
             /\ h.declared = Carried(s, p.classes, none)
             /\ OfKind(sch, h.classes, "STRUCTURAL") = OfKind(sch, StructureOf(p), "STRUCTURAL")
  <2>1. IsEntry(h) /\ h.checked = FALSE /\ h.leftOff = Undeclared(s, p.classes)
    BY Zenon, <1>0, PersonFields
  <2>2. h.declared = Carried(s, p.classes, none)
    <3> HIDE DEF off, e, first
    <3> QED
      BY <1>0, PersonParts
  <2>3. OfKind(sch, h.classes, "STRUCTURAL") = OfKind(sch, StructureOf(p), "STRUCTURAL")
    BY Zenon, <1>0, ShapeOfPerson
  <2> QED
    BY <2>1, <2>2, <2>3
<1>1. /\ IsEntry(first) /\ first.checked = FALSE
      /\ first.declared = Carried(s, p.classes, {})
      /\ OfKind(sch, first.classes, "STRUCTURAL") = OfKind(sch, StructureOf(p), "STRUCTURAL")
  BY Zenon, <1>0
<1>2. /\ e.leftOff = Undeclared(s, p.classes)
      /\ OfKind(sch, e.classes, "STRUCTURAL") = OfKind(sch, StructureOf(p), "STRUCTURAL")
  BY Zenon, <1>0
<1>3. Rebuilds(s, PersonBuilt(s, p), e, off) /\ off = Unmet(s, Asked(s, first))
  BY PersonRebuilt DEF PersonOff
<1>4. e.attrs \subseteq first.attrs
  <2>1. Graph(sch)
    BY Zenon DEF ClassesHold
  <2> HIDE DEF off
  <2> QED
    BY <2>1, PersonLosesOnly
<1> HIDE DEF off, e, first
<1>5. Survives(s, v, e, off)
  BY <1>3, RebuiltSurvives
<1> QED
  BY <1>1, <1>2, <1>3, <1>4, <1>5, RebuiltForCause

\* Nor a group.
LEMMA GroupLeftOffForCause ==
  ASSUME NEW s, ClassesHold(s), NEW g, NEW v, v = PlacedAndValidated(s, GroupBuilt(s, g)),
         NEW l \in v.leftOff, l.why # "unchecked",
         NEW x, x = [v EXCEPT !.classes = @ \cup Chain(s.schema, {l.class})]
  PROVE  Problems(s.schema, x) # {}
<1> DEFINE sch == s.schema
           off == GroupOff(s, g)
           e == GroupEntryFrom(s, g, ClassesOf(off))
           first == GroupEntryFrom(s, g, {})
<1>0. ASSUME NEW none, NEW h, h = GroupEntryFrom(s, g, none)
      PROVE  /\ IsEntry(h) /\ h.checked = FALSE /\ h.leftOff = Undeclared(s, g.classes)
             /\ h.declared = Carried(s, g.classes, none)
             /\ OfKind(sch, h.classes, "STRUCTURAL")
                  = OfKind(sch, GroupStructureOf(g), "STRUCTURAL")
  <2>1. IsEntry(h) /\ h.checked = FALSE /\ h.leftOff = Undeclared(s, g.classes)
        /\ OfGroup(s, g, none, h)
    BY <1>0, GroupFields
  <2>2. h.declared = Carried(s, g.classes, none)
    BY Zenon, <2>1 DEF OfGroup
  <2> QED
    BY <1>0, <2>1, <2>2, ShapeOfGroup
<1>1. /\ IsEntry(first) /\ first.checked = FALSE
      /\ first.declared = Carried(s, g.classes, {})
      /\ OfKind(sch, first.classes, "STRUCTURAL")
           = OfKind(sch, GroupStructureOf(g), "STRUCTURAL")
  BY Zenon, <1>0
<1>2. /\ e.leftOff = Undeclared(s, g.classes)
      /\ OfKind(sch, e.classes, "STRUCTURAL") = OfKind(sch, GroupStructureOf(g), "STRUCTURAL")
  BY Zenon, <1>0
<1>3. Rebuilds(s, GroupBuilt(s, g), e, off) /\ off = Unmet(s, Asked(s, first))
  BY GroupRebuilt DEF GroupOff
<1>4. e.attrs \subseteq first.attrs
  <2> HIDE DEF off
  <2> QED
    BY GroupParts
<1> HIDE DEF off, e, first
<1>5. Survives(s, v, e, off)
  BY <1>3, RebuiltSurvives
<1> QED
  BY <1>1, <1>2, <1>3, <1>4, <1>5, RebuiltForCause

------------------------------------------------------------------------------
\* GoverningStructureRule asks of an entry its structural class and its RDN.
LEMMA ShapeIsPlaced ==
  ASSUME NEW sch, NEW e, NEW f, NEW superior, e.rdn = f.rdn,
         OfKind(sch, e.classes, "STRUCTURAL") = OfKind(sch, f.classes, "STRUCTURAL")
  PROVE  Misplaced(sch, e, superior) = Misplaced(sch, f, superior)
<1>0. StructuralOf(sch, e.classes) = StructuralOf(sch, f.classes)
  BY StructuralDecides
<1>1. Placing(sch, e, superior) = Placing(sch, f, superior)
  BY <1>0 DEF Placing
<1>2. Governing(sch, e, superior) = Governing(sch, f, superior)
  BY <1>1 DEF Governing
<1> QED
  BY Zenon, <1>1, <1>2 DEF Misplaced

\* A name form is what keeps an entry back only where the tree says so.
LEMMA NameFormsAreTheTrees ==
  ASSUME NEW s, NEW b, IsAsked(s, b), NEW v, v = PlacedAndValidated(s, b),
         Named(v.invalid, "NameFormViolation") # {}
  PROVE  /\ s.tree.rules
         /\ Named(Misplaced(s.schema, v, IF v.group THEN s.tree.groups ELSE s.tree.people),
                  "NameFormViolation") # {}
<1> DEFINE w == Validated(s, b)
           place == Misplaced(s.schema, w, IF w.group THEN s.tree.groups ELSE s.tree.people)
           q == Placed(s, w)
           z == Sized(q)
<1>1. v = z
  BY DEF PlacedAndValidated
<1>2. IsEntry(w) /\ w.invalid = Problems(s.schema, w)
  BY ValidatedSaysWhy
<1> HIDE DEF w
<1>3. Named(q.invalid, "NameFormViolation") # {} /\ v = q
  <2>1. CASE q.invalid # {} \/ ~ q.large
    BY <1>1, <2>1 DEF Sized
  <2>2. CASE q.invalid = {} /\ q.large
    <3>1. v = [q EXCEPT !.invalid = Problem("TooLarge", {q.rdn})]
      BY <1>1, <2>2 DEF Sized
    <3>2. DOMAIN q = Fields
      BY <1>2 DEF Placed, IsEntry
    <3> HIDE DEF q
    <3>3. v.invalid = Problem("TooLarge", {q.rdn})
      BY <3>1, <3>2 DEF Fields
    <3>4. Named(v.invalid, "NameFormViolation") = {}
      BY <3>3 DEF Named, Problem
    <3> QED
      BY <3>4
  <2> QED
    BY <2>1, <2>2
<1>4. CASE w.invalid # {} \/ ~ s.tree.rules
  <2>1. q = w
    BY <1>4 DEF Placed
  <2>2. \A c : c \notin Named(w.invalid, "NameFormViolation")
    BY Zenon, <1>2, VerdictsSay
  <2> QED
    BY <1>3, <2>1, <2>2
<1>5. CASE w.invalid = {} /\ s.tree.rules
  <2>1. q = [w EXCEPT !.invalid = place]
    BY <1>5 DEF Placed
  <2> HIDE DEF place, q
  <2>2. /\ q.invalid = place /\ q.classes = w.classes /\ q.rdn = w.rdn /\ q.group = w.group
    BY <1>2, <2>1 DEF IsEntry, Fields
  <2>3. \A superior : Misplaced(s.schema, q, superior) = Misplaced(s.schema, w, superior)
    BY <2>2, MisplacedReads
  <2>4. place = Misplaced(s.schema, q, IF q.group THEN s.tree.groups ELSE s.tree.people)
    BY <2>2, <2>3 DEF place
  <2> QED
    BY Zenon, <1>3, <1>5, <2>2, <2>4
<1> QED
  BY <1>4, <1>5

\* So a name form refuses no entry that has the RDN and the structural classes
\* of a shape that it does not refuse.
LEMMA ShapesCover ==
  ASSUME NEW s, NEW b, IsAsked(s, b), NEW v, v = PlacedAndValidated(s, b),
         NEW shape, OfKind(s.schema, v.classes, "STRUCTURAL")
                      = OfKind(s.schema, shape, "STRUCTURAL"),
         NEW rule, rule = (IF v.group THEN s.tree.groups ELSE s.tree.people),
         NEW shapes, shape \in shapes,
         s.tree.rules => ~ RefusedBelow(s.schema, rule, v.rdn, shapes)
  PROVE  Named(v.invalid, "NameFormViolation") = {}
<1> DEFINE sch == s.schema
           place == Misplaced(sch, v, rule)
           f == [classes |-> shape, rdn |-> v.rdn]
<1> SUFFICES ASSUME Named(v.invalid, "NameFormViolation") # {} PROVE FALSE
  OBVIOUS
<1>1. s.tree.rules /\ Named(place, "NameFormViolation") # {}
  BY NameFormsAreTheTrees
<1>2. place = Misplaced(sch, f, rule)
  <2>1. f.rdn = v.rdn /\ f.classes = shape
    OBVIOUS
  <2> HIDE DEF f, sch
  <2> QED
    BY <2>1, ShapeIsPlaced DEF sch
<1>3. place \in {{}, Problem("NoStructureRule", {v.rdn}), Problem("NameFormViolation", {v.rdn})}
  BY Zenon DEF Misplaced
<1>4. place = Problem("NameFormViolation", {v.rdn})
  <2>1. \A n : Named(Problem("NoStructureRule", {n}), "NameFormViolation") = {}
    BY DEF Named, Problem
  <2>2. Named({}, "NameFormViolation") = {}
    BY DEF Named
  <2> HIDE DEF place
  <2> QED
    BY <1>1, <1>3, <2>1, <2>2
<1>5. Misplaced(sch, f, rule) \in {Misplaced(sch, [classes |-> h, rdn |-> v.rdn], rule) : h \in shapes}
  OBVIOUS
<1> QED
  BY Zenon, <1>1, <1>2, <1>4, <1>5 DEF RefusedBelow

\* The shapes startup asks about are all the ones a person or a group may have.
LEMMA PersonIsPlaced ==
  ASSUME NEW s, ClassesHold(s), NEW p, NEW v, v = PlacedAndValidated(s, PersonBuilt(s, p)),
         s.tree.rules => ~ RefusedBelow(s.schema, s.tree.people, "uid", PersonShapes)
  PROVE  Named(v.invalid, "NameFormViolation") = {}
<1> DEFINE sch == s.schema
           off == PersonOff(s, p)
           e == PersonEntry(s, p, ClassesOf(off))
<1>1. IsEntry(e) /\ e.checked = FALSE /\ OfPerson(s, p, ClassesOf(off), e)
  BY Zenon, PersonFields
<1>2. e.rdn = "uid"
  BY Zenon, PersonParts
<1>3. OfKind(sch, e.classes, "STRUCTURAL") = OfKind(sch, StructureOf(p), "STRUCTURAL")
  BY Zenon, ShapeOfPerson
<1>4. Rebuilds(s, PersonBuilt(s, p), e, off)
  BY PersonRebuilt DEF PersonOff
<1>5. e.group = FALSE
  BY Zenon, <1>1 DEF OfPerson
<1> HIDE DEF off, e
<1>6. Survives(s, v, e, off) /\ IsAsked(s, PersonBuilt(s, p))
  BY <1>4, RebuiltSurvives DEF Rebuilds
<1>7. v.classes = e.classes /\ v.rdn = "uid" /\ v.group = FALSE
  BY <1>2, <1>5, <1>6 DEF Survives, Lasting, Fields
<1>8. StructureOf(p) \in PersonShapes
  BY DEF StructureOf, PersonShapes
<1>9. OfKind(sch, v.classes, "STRUCTURAL") = OfKind(sch, StructureOf(p), "STRUCTURAL")
  BY <1>3, <1>7
<1>10. s.tree.people = IF v.group THEN s.tree.groups ELSE s.tree.people
  BY <1>7
<1>11. s.tree.rules => ~ RefusedBelow(s.schema, s.tree.people, v.rdn, PersonShapes)
  BY Zenon, <1>7
<1> QED
  BY <1>6, <1>8, <1>9, <1>10, <1>11, ShapesCover

\* The same of a group.
LEMMA GroupIsPlaced ==
  ASSUME NEW s, ClassesHold(s), NEW g, NEW v, v = PlacedAndValidated(s, GroupBuilt(s, g)),
         s.tree.rules => ~ RefusedBelow(s.schema, s.tree.groups, "cn", GroupShapes)
  PROVE  Named(v.invalid, "NameFormViolation") = {}
<1> DEFINE sch == s.schema
           off == GroupOff(s, g)
           e == GroupEntryFrom(s, g, ClassesOf(off))
<1>1. IsEntry(e) /\ e.checked = FALSE /\ OfGroup(s, g, ClassesOf(off), e)
  BY GroupFields
<1>2. e.rdn = "cn"
  BY GroupParts
<1>3. OfKind(sch, e.classes, "STRUCTURAL") = OfKind(sch, GroupStructureOf(g), "STRUCTURAL")
  BY Zenon, ShapeOfGroup
<1>4. Rebuilds(s, GroupBuilt(s, g), e, off)
  BY GroupRebuilt DEF GroupOff
<1>5. e.group = TRUE
  BY Zenon, <1>1 DEF OfGroup
<1> HIDE DEF off, e
<1>6. Survives(s, v, e, off) /\ IsAsked(s, GroupBuilt(s, g))
  BY <1>4, RebuiltSurvives DEF Rebuilds
<1>7. v.classes = e.classes /\ v.rdn = "cn" /\ v.group = TRUE
  BY <1>2, <1>5, <1>6 DEF Survives, Lasting, Fields
<1>8. GroupStructureOf(g) \in GroupShapes
  BY DEF GroupStructureOf, GroupShapes
<1>9. OfKind(sch, v.classes, "STRUCTURAL") = OfKind(sch, GroupStructureOf(g), "STRUCTURAL")
  BY <1>3, <1>7
<1>10. s.tree.groups = IF v.group THEN s.tree.groups ELSE s.tree.people
  BY <1>7
<1>11. s.tree.rules => ~ RefusedBelow(s.schema, s.tree.groups, v.rdn, GroupShapes)
  BY Zenon, <1>7
<1> QED
  BY <1>6, <1>8, <1>9, <1>10, <1>11, ShapesCover
=============================================================================
