-------------------------- MODULE QuotaLedgerProofs --------------------------
(***************************************************************************)
(* Proofs about QuotaLedger, for any limit, amounts, outcomes and bounds:  *)
(* the Turns of a Goal never oversubscribe its limit, a report is refused  *)
(* only behind a settled Turn, and a Turn is settled with every run of it  *)
(* over and charged.  The theory of finite sums comes first.               *)
(***************************************************************************)
EXTENDS QuotaLedger, FiniteSetTheorems, WellFoundedInduction, TLAPS

RunRow == [kind : {"source", "worker"}, turn : Nat, st : {"live"} \cup Outcomes,
           attempt : Nat, root : Nat, report : Amounts \cup {None},
           canon : Amounts \cup {None, Gap}, late : BOOLEAN,
           spent : {"none", "committed", "unresolved", "reconciled"}, amt : Nat]
TurnRow == [src : Nat, phase : {0, 1, 3, 5, 6},
            st : {"none", "reserved", "committed", "released"}, reserved : Nat,
            committed : Nat, batch : {"open", "collecting", "done"},
            pend : BOOLEAN, rejected : BOOLEAN]
CoRow == [st : {"queued", "running", "waiting_retry", "blocked"}, cur : Nat,
          act : {"", "retry_worker"}, retryOf : Nat, rounds : Nat]
TodoRow == [st : {"pending", "running", "waiting", "blocked"}, seq : Nat]
SourceSteps == {"admit", "plan", "phases", "wait"}

\* Rows have their shapes, and what they name exists.
Shapes ==
  /\ runs \in Seq(RunRow) /\ turns \in Seq(TurnRow)
  /\ co \in CoRow /\ co.cur \in 0 .. Len(runs)
  /\ co.act = "retry_worker" => co.retryOf \in Ids /\ runs[co.retryOf].kind = "worker"
  /\ todo \in TodoRow /\ todo.seq \in 0 .. Len(turns)

\* A pipeline runs for a run that is over, and plans for a source only.
HooksEnded ==
  \A h \in hooks : /\ h[1] \in Ids /\ ~Live(h[1])
                   /\ h[2] \in SourceSteps => runs[h[1]].kind = "source"

\* A run belongs to one Turn at most: as its one source, or by its key.
Owned ==
  /\ \A r \in Ids : runs[r].turn \in 0 .. Len(turns) /\ (runs[r].kind = "source" <=> runs[r].turn = 0)
  /\ \A t \in Seqs : turns[t].src # 0 => turns[t].src \in Ids /\ runs[turns[t].src].kind = "source"
  /\ \A s, t \in Seqs : turns[s].src = turns[t].src /\ turns[s].src # 0 => s = t

\* A Turn whose plan is not decided has its reservation and its source alone.
Undecided ==
  \A t \in Seqs : turns[t].phase = 0 =>
    Reserved(t) /\ turns[t].src # 0 /\ \A r \in Ids : runs[r].turn # t

\* Evidence of absence stands behind a Turn that is settled.
AbsenceBehind ==
  \A r \in Ids :
    /\ runs[r].late => runs[r].canon # None
    /\ runs[r].canon # None /\ runs[r].report = None =>
         \E t \in Seqs : r \in TurnRuns(t) /\ ~Reserved(t)

\* A run at work has no report yet.
Silent == \A r \in Ids : Live(r) => runs[r].report = None

\* Only the charge of a Turn's run makes an amount.
Charges ==
  \A r \in Ids :
    /\ runs[r].spent \in {"none", "unresolved"} => runs[r].amt = 0
    /\ runs[r].spent # "none" => \E t \in Seqs : r \in TurnRuns(t)

Amt == [r \in Ids |-> runs[r].amt]
\* The sum of f over S.
Over(f, S) == SumFunction([x \in S |-> f[x]])
\* An open Turn has spent what it reserved at most; a settled one has committed
\* what the ledger holds for its runs at most.
Covered ==
  \A t \in Seqs :
    IF Reserved(t) THEN Spend(t) <= turns[t].reserved
    ELSE turns[t].committed <= Over(Amt, TurnRuns(t))

\* The inductive invariant.
LedgerInv ==
  /\ Shapes /\ HooksEnded /\ Owned /\ Undecided
  /\ Silent /\ AbsenceBehind /\ Charges /\ Covered /\ NoOversubscription

-----------------------------------------------------------------------------
(* Sums                                                                     *)

\* A set of natural numbers has a least element.
LEMMA Smallest ==
  ASSUME NEW T \in SUBSET Nat, T # {}
  PROVE  \E n \in T : \A m \in T : n <= m
<1> DEFINE R == OpToRel(<, Nat)
<1>1. \A a, b \in Nat : a < b => <<a, b>> \in R
  BY DEF OpToRel
<1>2. IsWellFoundedOn(R, Nat)
  BY NatLessThanWellFounded
<1> HIDE DEF R
<1>3. PICK n \in T : \A m \in T : <<m, n>> \notin R
  BY <1>2, WFMin
<1>4. \A m \in T : m \in Nat /\ n \in Nat /\ ~(m < n)
  BY <1>1, <1>3
<1> QED
  BY <1>4

\* What holds of a subset once it holds of its proper subsets holds of all.
LEMMA SubsetInduction ==
  ASSUME NEW S, IsFiniteSet(S), NEW P,
         \A U \in SUBSET S : (\A V \in SUBSET U : V # U => V \in P) => U \in P
  PROVE  \A U \in SUBSET S : U \in P
<1> SUFFICES ASSUME NEW W \in SUBSET S, W \notin P PROVE FALSE
  OBVIOUS
<1> DEFINE B == {U \in SUBSET S : U \notin P}
<1>1. B \subseteq FiniteSubsetsOf(S) /\ B # {}
  BY FS_Subset DEF FiniteSubsetsOf
<1>2. PICK U \in B : \A V \in B : <<V, U>> \notin StrictSubsetOrdering(S)
  <2> HIDE DEF B
  <2> QED
    BY <1>1, FS_StrictSubsetOrderingWellFounded, WFMin
<1>3. \A V \in SUBSET U : V # U => V \in P
  BY <1>2 DEF StrictSubsetOrdering
<1> QED
  BY <1>2, <1>3

Pick(S) == CHOOSE x \in S : TRUE
\* The fold behind the sum of f over subsets of S.
IsFold(g, f, S) ==
  g = [s \in SUBSET S |-> IF s = {} THEN 0 ELSE f[Pick(s)] + g[s \ {Pick(s)}]]

LEMMA Unfold ==
  ASSUME NEW f, NEW g, IsFold(g, f, DOMAIN f)
  PROVE  \E h : IsFold(h, f, DOMAIN f) /\ SumFunction(f) = h[DOMAIN f]
<1> DEFINE h == CHOOSE k : k = [s \in SUBSET DOMAIN f |-> IF s = {} THEN 0 ELSE f[Pick(s)] + k[s \ {Pick(s)}]]
<1>1. SumFunction(f) = h[DOMAIN f]
  BY DEF SumFunction, SumFunctionOnSet, FoldFunctionOnSet, MapThenFoldSet, Pick
<1>2. IsFold(h, f, DOMAIN f)
  BY DEF IsFold
<1> QED
  BY <1>1, <1>2

\* One step of the fold, provided that it is one for all proper subsets.
LEMMA UnfoldStep ==
  ASSUME NEW S, NEW f,
         \A V \in SUBSET S : V # S /\ V # {} => Over(f, V) = f[Pick(V)] + Over(f, V \ {Pick(V)}),
         Over(f, {}) = 0, IsFiniteSet(S), S # {}
  PROVE  Over(f, S) = f[Pick(S)] + Over(f, S \ {Pick(S)})
<1> DEFINE e == [x \in S |-> f[x]]
           g == [s \in SUBSET S |-> IF s = S THEN f[Pick(S)] + Over(f, S \ {Pick(S)}) ELSE Over(f, s)]
<1>1. \A s \in SUBSET S : s # {} => Pick(s) \in s
  BY DEF Pick
<1>2. IsFold(g, e, S)
  <2>1. ASSUME NEW s \in SUBSET S, s # {}
        PROVE  g[s] = e[Pick(s)] + g[s \ {Pick(s)}]
    <3>1. s \ {Pick(s)} \in SUBSET S /\ s \ {Pick(s)} # S /\ Pick(s) \in S
      BY <1>1, <2>1
    <3>2. g[s \ {Pick(s)}] = Over(f, s \ {Pick(s)}) /\ e[Pick(s)] = f[Pick(s)]
      BY <3>1
    <3>3. CASE s = S
      BY <3>2, <3>3
    <3>4. CASE s # S
      BY <2>1, <3>2, <3>4
    <3> QED
      BY <3>3, <3>4
  <2>2. g[{}] = 0
    OBVIOUS
  <2> QED
    BY <2>1, <2>2 DEF IsFold
<1>3. DOMAIN e = S /\ SumFunction(e) = Over(f, S)
  BY DEF Over
<1> HIDE DEF g
<1>4. PICK h : IsFold(h, e, S) /\ Over(f, S) = h[S]
  BY <1>2, <1>3, Unfold
<1>5. \A s \in SUBSET S : s # {} => h[s] = e[Pick(s)] + h[s \ {Pick(s)}]
  BY <1>4 DEF IsFold
<1>6. h[{}] = 0
  BY <1>4 DEF IsFold
<1> DEFINE P == {s \in SUBSET S : s # S => h[s] = Over(f, s)}
<1>7. ASSUME NEW U \in SUBSET S, \A V \in SUBSET U : V # U => V \in P PROVE U \in P
  <2>1. CASE U = {}
    BY <1>6, <2>1
  <2>2. CASE U = S
    BY <2>2
  <2>3. CASE U # {} /\ U # S
    <3>1. Pick(U) \in U /\ U \ {Pick(U)} \in SUBSET U /\ U \ {Pick(U)} # U /\ U \ {Pick(U)} # S
      BY <1>1, <2>3
    <3>2. h[U \ {Pick(U)}] = Over(f, U \ {Pick(U)})
      BY <1>7, <3>1
    <3> QED
      BY <1>5, <2>3, <3>1, <3>2
  <2> QED
    BY <2>1, <2>2, <2>3
<1> HIDE DEF P
<1>8. \A s \in SUBSET S : s \in P
  BY <1>7, SubsetInduction
<1>9. S \ {Pick(S)} \in P /\ S \ {Pick(S)} # S /\ Pick(S) \in S
  BY <1>1, <1>8
<1>10. h[S \ {Pick(S)}] = Over(f, S \ {Pick(S)})
  BY <1>9 DEF P
<1> QED
  BY <1>4, <1>5, <1>9, <1>10

LEMMA SumEmpty == ASSUME NEW f PROVE Over(f, {}) = 0
<1> DEFINE e == [x \in {} |-> f[x]]
           g == [s \in SUBSET {} |-> 0]
<1>1. IsFold(g, e, {})
  BY DEF IsFold
<1>2. DOMAIN e = {} /\ Over(f, {}) = SumFunction(e)
  BY DEF Over
<1>3. PICK h : IsFold(h, e, {}) /\ SumFunction(e) = h[{}]
  <2> HIDE DEF g, e
  <2> QED  BY <1>1, <1>2, Unfold
<1> QED
  BY <1>2, <1>3 DEF IsFold

LEMMA SumPick ==
  ASSUME NEW S, IsFiniteSet(S), NEW f
  PROVE  \A U \in SUBSET S : U # {} => Over(f, U) = f[Pick(U)] + Over(f, U \ {Pick(U)})
<1> DEFINE P == {U \in SUBSET S : U # {} => Over(f, U) = f[Pick(U)] + Over(f, U \ {Pick(U)})}
<1>1. ASSUME NEW U \in SUBSET S, \A V \in SUBSET U : V # U => V \in P PROVE U \in P
  <2>1. CASE U = {}
    BY <2>1
  <2>2. CASE U # {}
    <3>1. IsFiniteSet(U) /\ Over(f, {}) = 0
      BY FS_Subset, SumEmpty
    <3>2. \A V \in SUBSET U : V # U /\ V # {} => Over(f, V) = f[Pick(V)] + Over(f, V \ {Pick(V)})
      BY <1>1
    <3>3. Over(f, U) = f[Pick(U)] + Over(f, U \ {Pick(U)})
      BY <2>2, <3>1, <3>2, UnfoldStep
    <3> QED
      BY <3>3
  <2> QED
    BY <2>1, <2>2
<1> HIDE DEF P
<1>2. \A U \in SUBSET S : U \in P
  BY <1>1, SubsetInduction
<1> QED
  BY <1>2 DEF P

\* A sum of integers is one, and may be taken in any order.
LEMMA SumRemove ==
  ASSUME NEW S, IsFiniteSet(S), NEW f, \A x \in S : f[x] \in Int
  PROVE  \A U \in SUBSET S :
           /\ Over(f, U) \in Int
           /\ \A z \in U : Over(f, U) = f[z] + Over(f, U \ {z})
<1> DEFINE P == {U \in SUBSET S : /\ Over(f, U) \in Int
                                  /\ \A z \in U : Over(f, U) = f[z] + Over(f, U \ {z})}
<1>1. ASSUME NEW U \in SUBSET S, \A V \in SUBSET U : V # U => V \in P PROVE U \in P
  <2>1. CASE U = {}
    BY <2>1, SumEmpty
  <2>2. CASE U # {}
    <3> DEFINE y == Pick(U)
    <3>1. y \in U
      BY <2>2 DEF Pick
    <3>2. Over(f, U) = f[y] + Over(f, U \ {y})
      BY <2>2, SumPick
    <3> HIDE DEF y
    <3>3. U \ {y} \in P
      BY <1>1, <3>1
    <3>4. Over(f, U) \in Int
      BY <3>1, <3>2, <3>3
    <3>5. ASSUME NEW z \in U, z # y PROVE Over(f, U) = f[z] + Over(f, U \ {z})
      <4>1. U \ {z} \in P /\ (U \ {y}) \ {z} \in P /\ (U \ {z}) \ {y} = (U \ {y}) \ {z}
        BY <1>1, <3>1
      <4>2. Over(f, U \ {y}) = f[z] + Over(f, (U \ {y}) \ {z})
        BY <3>3, <3>5
      <4>3. Over(f, U \ {z}) = f[y] + Over(f, (U \ {y}) \ {z})
        BY <3>1, <3>5, <4>1
      <4>4. {f[y], f[z], Over(f, (U \ {y}) \ {z}), Over(f, U \ {z}), Over(f, U \ {y})} \subseteq Int
        BY <3>1, <3>3, <4>1
      <4> HIDE DEF P
      <4> QED
        BY <3>2, <4>2, <4>3, <4>4
    <3> QED
      BY <3>2, <3>4, <3>5
  <2> QED
    BY <2>1, <2>2
<1> HIDE DEF P
<1>2. \A U \in SUBSET S : U \in P
  BY <1>1, SubsetInduction
<1> QED
  BY <1>2 DEF P

LEMMA SumType ==
  ASSUME NEW S, IsFiniteSet(S), NEW f, \A x \in S : f[x] \in Int
  PROVE  Over(f, S) \in Int
BY SumRemove

LEMMA SumAdd ==
  ASSUME NEW S, IsFiniteSet(S), NEW z, z \notin S, NEW f, \A x \in S \cup {z} : f[x] \in Int
  PROVE  Over(f, S \cup {z}) = f[z] + Over(f, S)
<1>1. IsFiniteSet(S \cup {z}) /\ (S \cup {z}) \ {z} = S
  BY FS_AddElement
<1> QED
  BY <1>1, SumRemove

LEMMA SumSingle == ASSUME NEW z, NEW f, f[z] \in Int PROVE Over(f, {z}) = f[z]
<1>1. Over(f, {} \cup {z}) = f[z] + Over(f, {}) /\ {} \cup {z} = {z}
  BY FS_EmptySet, SumAdd
<1> QED
  BY <1>1, SumEmpty

LEMMA SumAgree ==
  ASSUME NEW S, NEW f, NEW g, \A x \in S : f[x] = g[x]
  PROVE  Over(f, S) = Over(g, S)
<1>1. [x \in S |-> f[x]] = [x \in S |-> g[x]]
  OBVIOUS
<1> QED
  BY <1>1 DEF Over

\* A sum changes as its one changed summand does.
LEMMA SumUpdate ==
  ASSUME NEW S, IsFiniteSet(S), NEW k \in S, NEW g, NEW h,
         \A x \in S : g[x] \in Int, \A x \in S : h[x] \in Int,
         \A x \in S : x # k => g[x] = h[x]
  PROVE  Over(h, S) = Over(g, S) + h[k] - g[k]
<1>1. Over(g, S) = g[k] + Over(g, S \ {k}) /\ Over(g, S \ {k}) \in Int
  BY SumRemove
<1>2. Over(h, S) = h[k] + Over(h, S \ {k}) /\ Over(h, S \ {k}) \in Int
  BY SumRemove
<1>3. \A x \in S \ {k} : g[x] = h[x]
  OBVIOUS
<1>4. Over(g, S \ {k}) = Over(h, S \ {k})
  BY <1>3, SumAgree
<1>5. g[k] \in Int /\ h[k] \in Int
  OBVIOUS
<1> QED
  BY <1>1, <1>2, <1>4, <1>5

\* Sums grow with what is summed.
LEMMA SumMono ==
  ASSUME NEW S, IsFiniteSet(S), NEW f, NEW g,
         \A x \in S : f[x] \in Int /\ g[x] \in Int /\ f[x] <= g[x]
  PROVE  Over(f, S) <= Over(g, S)
<1> DEFINE P == {U \in SUBSET S : Over(f, U) <= Over(g, U)}
<1>1. ASSUME NEW U \in SUBSET S, \A V \in SUBSET U : V # U => V \in P PROVE U \in P
  <2>1. CASE U = {}
    BY <2>1, SumEmpty
  <2>2. ASSUME NEW z \in U PROVE U \in P
    <3>1. U \ {z} \in P
      BY <1>1
    <3>2. /\ Over(f, U) = f[z] + Over(f, U \ {z}) /\ Over(g, U) = g[z] + Over(g, U \ {z})
          /\ Over(f, U \ {z}) \in Int /\ Over(g, U \ {z}) \in Int
      BY SumRemove
    <3> QED
      BY <3>1, <3>2
  <2> QED
    BY <2>1, <2>2
<1> HIDE DEF P
<1>2. S \in P
  BY <1>1, SubsetInduction
<1> QED
  BY <1>2 DEF P

\* The sum of two sets without a common element.
LEMMA SumUnion ==
  ASSUME NEW S, IsFiniteSet(S), NEW T, IsFiniteSet(T), S \cap T = {},
         NEW f, \A x \in S \cup T : f[x] \in Int
  PROVE  Over(f, S \cup T) = Over(f, S) + Over(f, T)
<1> DEFINE P == {U \in SUBSET S : Over(f, U \cup T) = Over(f, U) + Over(f, T)}
<1>1. ASSUME NEW U \in SUBSET S, \A V \in SUBSET U : V # U => V \in P PROVE U \in P
  <2>1. CASE U = {}
    <3>1. U \cup T = T /\ Over(f, U) = 0 /\ Over(f, T) \in Int
      BY <2>1, SumEmpty, SumType
    <3>3. Over(f, U \cup T) = Over(f, T)
      BY <3>1
    <3>2. Over(f, U \cup T) = Over(f, U) + Over(f, T)
      <4> HIDE DEF P
      <4> QED  BY <3>1, <3>3
    <3> QED
      BY <3>2
  <2>2. ASSUME NEW z \in U PROVE U \in P
    <3>1. U \ {z} \in P /\ IsFiniteSet(S \cup T) /\ (U \cup T) \ {z} = (U \ {z}) \cup T
      BY <1>1, FS_Union
    <3>2. /\ Over(f, U) = f[z] + Over(f, U \ {z})
          /\ Over(f, U \cup T) = f[z] + Over(f, (U \ {z}) \cup T)
          /\ Over(f, U \ {z}) \in Int /\ Over(f, T) \in Int /\ f[z] \in Int
      BY <3>1, SumRemove, SumType
    <3>3. Over(f, (U \ {z}) \cup T) = Over(f, U \ {z}) + Over(f, T)
      BY <3>1
    <3>4. Over(f, U \cup T) = Over(f, U) + Over(f, T)
      <4> HIDE DEF P
      <4> QED  BY <3>2, <3>3
    <3> QED
      BY <3>4
  <2> QED
    BY <2>1, <2>2
<1> HIDE DEF P
<1>2. S \in P
  BY <1>1, SubsetInduction
<1> QED
  BY <1>2 DEF P

LEMMA SumNat ==
  ASSUME NEW S, IsFiniteSet(S), NEW f, \A x \in S : f[x] \in Nat
  PROVE  Over(f, S) \in Nat
<1> DEFINE P == {U \in SUBSET S : Over(f, U) \in Nat}
<1>1. ASSUME NEW U \in SUBSET S, \A V \in SUBSET U : V # U => V \in P PROVE U \in P
  <2>1. CASE U = {}
    BY <2>1, SumEmpty
  <2>2. ASSUME NEW z \in U PROVE U \in P
    <3>1. U \ {z} \in P /\ Over(f, U) = f[z] + Over(f, U \ {z})
      BY <1>1, SumRemove
    <3>2. Over(f, U) \in Nat
      BY <3>1
    <3> QED
      BY <3>2
  <2> QED
    BY <2>1, <2>2
<1> HIDE DEF P
<1>2. S \in P
  BY <1>1, SubsetInduction
<1> QED
  BY <1>2 DEF P

LEMMA SumSubset ==
  ASSUME NEW S, IsFiniteSet(S), NEW T \in SUBSET S, NEW f, \A x \in S : f[x] \in Nat
  PROVE  Over(f, T) \in Nat /\ Over(f, S) \in Nat /\ Over(f, T) <= Over(f, S)
<1>1. IsFiniteSet(T) /\ IsFiniteSet(S \ T) /\ T \cup (S \ T) = S /\ T \cap (S \ T) = {}
  BY FS_Subset
<1>2. Over(f, T \cup (S \ T)) = Over(f, T) + Over(f, S \ T)
  BY <1>1, SumUnion
<1>3. Over(f, T) \in Nat /\ Over(f, S \ T) \in Nat
  BY <1>1, SumNat
<1>4. Over(f, S) = Over(f, T) + Over(f, S \ T)
  BY <1>1, <1>2
<1> QED
  BY <1>3, <1>4

\* What the parts of a set sum up to at most, the set does.
LEMMA SumOfParts ==
  ASSUME NEW S, IsFiniteSet(S), NEW c, \A t \in S : c[t] \in Nat,
         NEW W, IsFiniteSet(W), NEW f, \A x \in W : f[x] \in Nat,
         NEW R, \A t \in S : R[t] \in SUBSET W /\ c[t] <= Over(f, R[t]),
         \A s, t \in S : s # t => R[s] \cap R[t] = {}
  PROVE  Over(c, S) <= Over(f, W)
<1> DEFINE Parts(U) == UNION {R[t] : t \in U}
           P == {U \in SUBSET S : Over(c, U) <= Over(f, Parts(U))}
<1>1. ASSUME NEW U \in SUBSET S, \A V \in SUBSET U : V # U => V \in P PROVE U \in P
  <2>1. CASE U = {}
    <3>1. Parts(U) = {} /\ Over(c, U) = 0 /\ Over(f, {}) = 0
      BY <2>1, SumEmpty
    <3> QED
      BY <3>1
  <2>2. ASSUME NEW z \in U PROVE U \in P
    <3>1. U \ {z} \in P /\ Over(c, U) = c[z] + Over(c, U \ {z}) /\ Over(c, U \ {z}) \in Int
      BY <1>1, SumRemove
    <3>2. Parts(U) = Parts(U \ {z}) \cup R[z] /\ Parts(U \ {z}) \cap R[z] = {}
      OBVIOUS
    <3>3. Parts(U \ {z}) \subseteq W /\ R[z] \subseteq W
      OBVIOUS
    <3>4. Over(f, Parts(U)) = Over(f, Parts(U \ {z})) + Over(f, R[z])
      <4> HIDE DEF Parts
      <4>1. IsFiniteSet(Parts(U \ {z})) /\ IsFiniteSet(R[z])
        BY <3>3, FS_Subset
      <4>2. \A x \in Parts(U \ {z}) \cup R[z] : f[x] \in Int
        BY <3>3
      <4> QED
        BY <3>2, <4>1, <4>2, SumUnion
    <3>5. Over(f, Parts(U \ {z})) \in Nat /\ Over(f, R[z]) \in Nat
      <4> HIDE DEF Parts
      <4> QED
        BY <3>3, SumSubset
    <3> HIDE DEF Parts
    <3> QED
      BY <3>1, <3>4, <3>5
  <2> QED
    BY <2>1, <2>2
<1>2. Parts(S) \in SUBSET W
  OBVIOUS
<1> HIDE DEF P
<1>3. S \in P
  BY <1>1, SubsetInduction
<1> HIDE DEF Parts
<1>4. Over(c, S) <= Over(f, Parts(S)) /\ Over(c, S) \in Nat
  BY <1>3, SumNat DEF P
<1>5. Over(f, Parts(S)) <= Over(f, W) /\ Over(f, Parts(S)) \in Nat /\ Over(f, W) \in Nat
  BY <1>2, SumSubset
<1> QED
  BY <1>4, <1>5

LEMMA SumPlus ==
  ASSUME NEW S, IsFiniteSet(S), NEW f, NEW g, NEW h,
         \A x \in S : f[x] \in Int /\ g[x] \in Int /\ h[x] = f[x] + g[x]
  PROVE  Over(h, S) = Over(f, S) + Over(g, S)
<1> DEFINE P == {U \in SUBSET S : Over(h, U) = Over(f, U) + Over(g, U)}
<1>1. ASSUME NEW U \in SUBSET S, \A V \in SUBSET U : V # U => V \in P PROVE U \in P
  <2>1. CASE U = {}
    <3>1. Over(h, U) = Over(f, U) + Over(g, U)
      BY <2>1, SumEmpty
    <3> QED
      BY <3>1
  <2>2. ASSUME NEW z \in U PROVE U \in P
    <3>1. U \ {z} \in P
      BY <1>1
    <3>2. /\ Over(f, U) = f[z] + Over(f, U \ {z}) /\ Over(g, U) = g[z] + Over(g, U \ {z})
          /\ Over(f, U \ {z}) \in Int /\ Over(g, U \ {z}) \in Int
      BY SumRemove
    <3>3. Over(h, U) = h[z] + Over(h, U \ {z}) /\ h[z] = f[z] + g[z] /\ f[z] \in Int /\ g[z] \in Int
      BY SumRemove
    <3>4. Over(h, U \ {z}) = Over(f, U \ {z}) + Over(g, U \ {z})
      BY <3>1
    <3>5. Over(h, U) = Over(f, U) + Over(g, U)
      <4> HIDE DEF P
      <4> QED  BY <3>2, <3>3, <3>4
    <3> QED
      BY <3>5
  <2> QED
    BY <2>1, <2>2
<1> HIDE DEF P
<1>2. S \in P
  BY <1>1, SubsetInduction
<1> QED
  BY <1>2 DEF P

LEMMA SumZero ==
  ASSUME NEW S, IsFiniteSet(S), NEW f, \A x \in S : f[x] = 0
  PROVE  Over(f, S) = 0
<1>1. \A x \in S : f[x] \in Int /\ f[x] \in Nat
  OBVIOUS
<1> DEFINE P == {U \in SUBSET S : Over(f, U) = 0}
<1>2. ASSUME NEW U \in SUBSET S, \A V \in SUBSET U : V # U => V \in P PROVE U \in P
  <2>1. CASE U = {}
    BY <2>1, SumEmpty
  <2>2. ASSUME NEW z \in U PROVE U \in P
    <3>1. U \ {z} \in P /\ Over(f, U) = f[z] + Over(f, U \ {z})
      BY <1>1, <1>2, SumRemove
    <3>2. Over(f, U) = 0
      BY <3>1
    <3> QED
      BY <3>2
  <2> QED
    BY <2>1, <2>2
<1> HIDE DEF P
<1>3. S \in P
  BY <1>2, SubsetInduction
<1> QED
  BY <1>3 DEF P

\* Summands that are zero change no sum.
LEMMA SumWiden ==
  ASSUME NEW T, IsFiniteSet(T), NEW S \in SUBSET T, NEW f, NEW g,
         \A x \in S : f[x] \in Int, \A x \in S : g[x] = f[x], \A x \in T \ S : g[x] = 0
  PROVE  Over(g, T) = Over(f, S)
<1>1. IsFiniteSet(S) /\ IsFiniteSet(T \ S) /\ S \cup (T \ S) = T /\ S \cap (T \ S) = {}
  BY FS_Subset
<1>2. \A x \in S \cup (T \ S) : g[x] \in Int
  OBVIOUS
<1>3. Over(g, S \cup (T \ S)) = Over(g, S) + Over(g, T \ S)
  BY <1>1, <1>2, SumUnion
<1>4. Over(g, T \ S) = 0
  BY <1>1, SumZero
<1>5. Over(g, S) = Over(f, S)
  BY SumAgree
<1>6. Over(f, S) \in Int
  BY <1>1, SumType
<1>7. Over(g, T) = Over(g, S) + Over(g, T \ S)
  BY <1>1, <1>3
<1> QED
  BY <1>4, <1>5, <1>6, <1>7

-----------------------------------------------------------------------------
(* Charging the runs of a Turn                                              *)

LEMMA Lengths ==
  ASSUME Shapes
  PROVE  /\ Len(runs) \in Nat /\ Ids = 1 .. Len(runs) /\ IsFiniteSet(Ids)
         /\ Len(turns) \in Nat /\ Seqs = 1 .. Len(turns) /\ IsFiniteSet(Seqs)
         /\ \A t : TurnRuns(t) \in SUBSET Ids /\ IsFiniteSet(TurnRuns(t))
<1>1. Len(runs) \in Nat /\ Len(turns) \in Nat
  BY DEF Shapes
<1>2. IsFiniteSet(Ids) /\ IsFiniteSet(Seqs)
  BY <1>1, FS_Interval DEF Ids, Seqs
<1>3. \A t : TurnRuns(t) \in SUBSET Ids
  BY DEF TurnRuns
<1> QED
  BY <1>1, <1>2, <1>3, FS_Subset DEF Ids, Seqs

LEMMA Rows ==
  ASSUME Shapes
  PROVE  /\ \A r \in Ids : runs[r] \in RunRow
         /\ \A t \in Seqs : turns[t] \in TurnRow
BY DEF Shapes, Ids, Seqs

\* A run after another takes what fits into what is left of a budget m.
Takes(g, n, b, S, c, m) ==
  g = [r \in 0 .. n |-> IF r = 0 THEN b
                        ELSE g[r - 1] + (IF r \in S /\ (c[r] >= 0 /\ g[r - 1] + c[r] <= m) THEN c[r] ELSE 0)]

LEMMA TakesExists ==
  ASSUME NEW n \in Nat, NEW b, NEW S, NEW c, NEW m
  PROVE  \E g : Takes(g, n, b, S, c, m)
<1> DEFINE B == {k \in Nat : ~\E g : Takes(g, k, b, S, c, m)}
<1> SUFFICES ASSUME B # {} PROVE FALSE
  OBVIOUS
<1>1. PICK k \in B : \A j \in B : k <= j
  <2> HIDE DEF B
  <2>1. B \in SUBSET Nat
    BY DEF B
  <2> QED
    BY <2>1, Smallest
<1>2. CASE k = 0
  <2> DEFINE g == [r \in 0 .. 0 |-> b]
  <2>1. Takes(g, 0, b, S, c, m)
    BY DEF Takes
  <2> QED
    BY <1>1, <1>2, <2>1
<1>3. CASE k # 0
  <2>1. k \in Nat /\ k - 1 \in Nat /\ k - 1 \notin B
    BY <1>1, <1>3
  <2>2. PICK h : Takes(h, k - 1, b, S, c, m)
    BY <2>1
  <2> DEFINE step(r, v) == v + (IF r \in S /\ (c[r] >= 0 /\ v + c[r] <= m) THEN c[r] ELSE 0)
             g == [r \in 0 .. k |-> IF r = k THEN step(k, h[k - 1]) ELSE h[r]]
  <2>3. h = [r \in 0 .. k - 1 |-> IF r = 0 THEN b ELSE step(r, h[r - 1])]
    BY <2>2 DEF Takes
  <2>4. \A r \in 0 .. k : g[r] = IF r = 0 THEN b ELSE step(r, g[r - 1])
    <3> HIDE DEF step
    <3>1. g[0] = b
      BY <1>3, <2>1, <2>3
    <3>2. ASSUME NEW r \in 1 .. k PROVE g[r] = step(r, g[r - 1])
      <4>1. g[r - 1] = h[r - 1]
        BY <2>1
      <4>2. CASE r = k
        BY <4>1, <4>2, <2>1
      <4>3. CASE r # k
        <5>1. r \in 0 .. k - 1 /\ r # 0 /\ r \in 0 .. k
          BY <2>1, <4>3
        <5>2. h[r] = step(r, h[r - 1])
          BY <2>3, <5>1
        <5>3. g[r] = h[r]
          BY <4>3, <5>1
        <5> QED
          BY <4>1, <5>2, <5>3
      <4> QED
        BY <4>2, <4>3
    <3>3. \A r \in 0 .. k : r = 0 \/ r \in 1 .. k
      BY <2>1
    <3> HIDE DEF g
    <3> QED
      BY <3>1, <3>2, <3>3
  <2>5. g = [r \in 0 .. k |-> IF r = 0 THEN b ELSE step(r, g[r - 1])]
    <3> HIDE DEF step
    <3> QED
      BY <2>4
  <2>6. Takes(g, k, b, S, c, m)
    BY <2>5 DEF Takes
  <2> QED
    BY <1>1, <2>6
<1> QED
  BY <1>2, <1>3

\* What a run is charged.
Com == [r \in Ids |-> IF runs[r].spent = "committed" THEN runs[r].amt ELSE 0]

LEMMA SpentOver ==
  ASSUME NEW rows, NEW S, NEW f,
         \A x \in S : f[x] = IF rows[x].spent = "committed" THEN rows[x].amt ELSE 0
  PROVE  Spent(rows, S) = Over(f, S)
<1>1. [x \in S |-> f[x]] = [r \in S |-> IF rows[r].spent = "committed" THEN rows[r].amt ELSE 0]
  OBVIOUS
<1> QED
  BY <1>1 DEF Spent, Over

LEMMA SpendOver ==
  ASSUME NEW t PROVE Spend(t) = Over(Com, TurnRuns(t))
<1>1. \A x \in TurnRuns(t) : Com[x] = IF runs[x].spent = "committed" THEN runs[x].amt ELSE 0
  BY DEF Com, TurnRuns
<1> QED
  BY <1>1, SpentOver DEF Spend

LEMMA CanonType ==
  ASSUME QuotaAssumption, NEW c \in Amounts \cup {None, Gap}
  PROVE  c \in Int /\ (c >= 0 => c \in Nat)
<1>1. Amounts \subseteq Nat /\ None \in Int /\ Gap \in Int /\ ~(None >= 0) /\ ~(Gap >= 0)
  BY QuotaAssumption DEF QuotaAssumption, None, Gap
<1>2. CASE c \in Amounts
  BY <1>1, <1>2
<1>3. CASE c \in {None, Gap}
  BY <1>1, <1>3
<1> QED
  BY <1>2, <1>3

\* What becomes of the row of a run that a sweep looks at.
SameButCharge(x, y) ==
  /\ y \in RunRow
  /\ y.kind = x.kind /\ y.turn = x.turn /\ y.st = x.st /\ y.attempt = x.attempt
  /\ y.root = x.root /\ y.report = x.report /\ y.late = x.late
\* Its canonical usage is frozen, and it is charged or recorded as a gap.
AsSeen(x, c) == [x EXCEPT !.canon = c]
AsUnresolved(x, c) == [x EXCEPT !.canon = c, !.spent = "unresolved"]
AsCommitted(x, c) == [x EXCEPT !.canon = c, !.spent = "committed", !.amt = c]

LEMMA RowSeen ==
  ASSUME NEW x \in RunRow, NEW c \in Amounts \cup {None, Gap}, NEW y, y = AsSeen(x, c)
  PROVE  SameButCharge(x, y) /\ y.canon = c /\ y.spent = x.spent /\ y.amt = x.amt
BY DEF SameButCharge, RunRow, AsSeen

LEMMA RowUnresolved ==
  \A x \in RunRow, c \in Amounts \cup {None, Gap} : \A y : y = AsUnresolved(x, c) =>
    SameButCharge(x, y) /\ y.canon = c /\ y.spent = "unresolved" /\ y.amt = x.amt
<1> SUFFICES ASSUME NEW x \in RunRow, NEW c \in Amounts \cup {None, Gap}, NEW y, y = AsUnresolved(x, c)
             PROVE  SameButCharge(x, y) /\ y.canon = c /\ y.spent = "unresolved" /\ y.amt = x.amt
  OBVIOUS
<1> DEFINE z == [x EXCEPT !.canon = c]
<1>1. y = [z EXCEPT !.spent = "unresolved"]
  BY DEF AsUnresolved
<1>2. SameButCharge(x, z) /\ z.canon = c /\ z.spent = x.spent /\ z.amt = x.amt
  BY RowSeen DEF AsSeen
<1> HIDE DEF z
<1> QED
  BY <1>1, <1>2 DEF SameButCharge, RunRow

LEMMA RowCommitted ==
  ASSUME NEW x \in RunRow, NEW c \in Amounts \cup {None, Gap}, c \in Nat,
         NEW y, y = AsCommitted(x, c)
  PROVE  SameButCharge(x, y) /\ y.canon = c /\ y.spent = "committed" /\ y.amt = c
<1> DEFINE z == [x EXCEPT !.canon = c]
           v == [z EXCEPT !.spent = "committed"]
<1>1. y = [v EXCEPT !.amt = c]
  BY DEF AsCommitted
<1>2. SameButCharge(x, z) /\ z.canon = c /\ z.spent = x.spent /\ z.amt = x.amt
  BY RowSeen DEF AsSeen
<1> HIDE DEF z
<1>3. SameButCharge(x, v) /\ v.canon = c /\ v.spent = "committed" /\ v.amt = x.amt
  BY <1>2 DEF SameButCharge, RunRow
<1> HIDE DEF v
<1> QED
  BY <1>1, <1>3 DEF SameButCharge, RunRow

\* Charging the runs S of Turn t touches their rows only, but for the canonical
\* usage, and keeps the Turn within its reservation.
ChargeStep(t, S, cn, rows) ==
  /\ rows \in Seq(RunRow) /\ Len(rows) = Len(runs)
  /\ \A r \in Ids :
       /\ SameButCharge(runs[r], rows[r]) /\ rows[r].canon = cn[r]
       /\ r \notin S => rows[r].spent = runs[r].spent /\ rows[r].amt = runs[r].amt
       /\ r \in S => \/ rows[r].spent = "unresolved" /\ rows[r].amt = runs[r].amt
                     \/ rows[r].spent = "committed" /\ rows[r].amt \in Nat
  /\ Spend(t) <= turns[t].reserved => Spent(rows, TurnRuns(t)) <= turns[t].reserved
LEMMA ChargedOn ==
  ASSUME QuotaAssumption, Shapes, NEW t \in Seqs, NEW S \in SUBSET TurnRuns(t),
         \A r \in S : runs[r].spent = "none",
         NEW cn \in [Ids -> Amounts \cup {None, Gap}], NEW rows, rows = Charged(t, S, cn)
  PROVE  ChargeStep(t, S, cn, rows)
<1> DEFINE n == Len(runs)
           m == turns[t].reserved
           T == TurnRuns(t)
           fits(r, before) == cn[r] >= 0 /\ before + cn[r] <= m
           total == CHOOSE g : g = [r \in 0 .. n |->
                      IF r = 0 THEN Spend(t)
                      ELSE g[r - 1] + (IF r \in S /\ fits(r, g[r - 1]) THEN cn[r] ELSE 0)]
<1>1. rows = [r \in Ids |->
       IF r \notin S THEN [runs[r] EXCEPT !.canon = cn[r]]
       ELSE IF fits(r, total[r - 1])
       THEN [runs[r] EXCEPT !.canon = cn[r], !.spent = "committed", !.amt = cn[r]]
       ELSE [runs[r] EXCEPT !.canon = cn[r], !.spent = "unresolved"]]
  BY DEF Charged
<1>2. n \in Nat /\ Ids = 1 .. n /\ T \in SUBSET Ids /\ IsFiniteSet(T) /\ m \in Nat
  BY Lengths, Rows DEF TurnRow
<1>3. Takes(total, n, Spend(t), S, cn, m)
  <2>1. PICK g : Takes(g, n, Spend(t), S, cn, m)
    BY <1>2, TakesExists
  <2> QED
    BY <2>1 DEF Takes
<1> HIDE DEF total
<1>4. \A r \in 1 .. n : total[r] = total[r - 1] + (IF r \in S /\ fits(r, total[r - 1]) THEN cn[r] ELSE 0)
  <2>1. \A r \in 1 .. n : r \in 0 .. n /\ r # 0
    BY <1>2
  <2> QED
    BY <1>3, <2>1 DEF Takes
<1>5. total[0] = Spend(t)
  <2>1. 0 \in 0 .. n
    BY <1>2
  <2> QED
    BY <1>3, <2>1 DEF Takes
<1>6. ASSUME NEW r \in Ids
      PROVE  /\ SameButCharge(runs[r], rows[r]) /\ rows[r].canon = cn[r]
             /\ r \notin S => rows[r].spent = runs[r].spent /\ rows[r].amt = runs[r].amt
             /\ r \in S => IF fits(r, total[r - 1])
                           THEN rows[r].spent = "committed" /\ rows[r].amt = cn[r] /\ cn[r] \in Nat
                           ELSE rows[r].spent = "unresolved" /\ rows[r].amt = runs[r].amt
  <2>1. runs[r] \in RunRow /\ cn[r] \in Amounts \cup {None, Gap}
    BY Rows
  <2>2. fits(r, total[r - 1]) => cn[r] \in Nat
    BY <2>1, CanonType
  <2> HIDE DEF fits
  <2>3. CASE r \notin S
    <3>1. rows[r] = AsSeen(runs[r], cn[r])
      BY <1>1, <2>3 DEF AsSeen
    <3>2. /\ SameButCharge(runs[r], rows[r]) /\ rows[r].canon = cn[r]
          /\ rows[r].spent = runs[r].spent /\ rows[r].amt = runs[r].amt
      BY <2>1, <3>1, RowSeen
    <3> QED
      BY <2>3, <3>2
  <2>4. CASE r \in S /\ fits(r, total[r - 1])
    <3>1. rows[r] = AsCommitted(runs[r], cn[r]) /\ cn[r] \in Nat
      BY <1>1, <2>2, <2>4 DEF AsCommitted
    <3>2. /\ SameButCharge(runs[r], rows[r]) /\ rows[r].canon = cn[r]
          /\ rows[r].spent = "committed" /\ rows[r].amt = cn[r]
      BY <2>1, <3>1, RowCommitted
    <3> QED
      BY <2>4, <3>1, <3>2
  <2>5. CASE r \in S /\ ~fits(r, total[r - 1])
    <3>1. rows[r] = AsUnresolved(runs[r], cn[r])
      BY <1>1, <2>5 DEF AsUnresolved
    <3>2. \A y : y = AsUnresolved(runs[r], cn[r]) =>
            /\ SameButCharge(runs[r], y) /\ y.canon = cn[r]
            /\ y.spent = "unresolved" /\ y.amt = runs[r].amt
      BY <2>1, RowUnresolved
    <3>3. SameButCharge(runs[r], rows[r]) /\ rows[r].canon = cn[r]
      BY <3>1, <3>2
    <3>4. rows[r].spent = "unresolved"
      BY <3>1, <3>2
    <3>5. rows[r].amt = runs[r].amt
      BY <3>1, <3>2
    <3> QED
      BY <2>5, <3>3, <3>4, <3>5
  <2> QED
    BY <2>3, <2>4, <2>5
<1>7. \A r \in Ids : rows[r] \in RunRow /\ rows[r].amt \in Nat /\ cn[r] \in Int
  <2>1. \A r \in Ids : rows[r] \in RunRow
    BY <1>6 DEF SameButCharge
  <2>2. \A r \in Ids : cn[r] \in Int
    BY CanonType
  <2> QED
    BY <2>1, <2>2 DEF RunRow
<1>8. rows \in Seq(RunRow) /\ Len(rows) = Len(runs)
  <2>1. rows = [r \in 1 .. n |-> rows[r]] /\ \A r \in 1 .. n : rows[r] \in RunRow
    BY <1>1, <1>2, <1>7
  <2>2. rows \in [1 .. n -> RunRow]
    BY <2>1
  <2> QED
    BY <1>2, <2>2
<1> HIDE DEF fits
<1>11. ASSUME Spend(t) <= m PROVE Spent(rows, T) <= m
  <2> DEFINE f == [k \in 0 .. n |-> [q \in T |-> IF rows[q].spent = "committed" /\ (q <= k \/ q \notin S) THEN rows[q].amt ELSE 0]]
             Q(k) == total[k] \in Int /\ total[k] <= m /\ total[k] = Over(f[k], T)
             B == {k \in 0 .. n : ~Q(k)}
  <2>10. \A k \in 0 .. n : \A q \in T :
           f[k][q] = IF rows[q].spent = "committed" /\ (q <= k \/ q \notin S) THEN rows[q].amt ELSE 0
    OBVIOUS
  <2> HIDE DEF f
  <2>11. \A q \in T : q \in Ids /\ q \in Nat /\ q > 0 /\ rows[q].amt \in Int
    BY <1>2, <1>7
  <2>12. 0 \in 0 .. n /\ n \in 0 .. n
    BY <1>2
  <2>1. \A k \in 0 .. n : \A q \in T : f[k][q] \in Int
    BY <2>10, <2>11
  <2>2. Q(0)
    <3>1. \A q \in T : f[0][q] = Com[q]
      <4> SUFFICES ASSUME NEW q \in T PROVE f[0][q] = Com[q]
        OBVIOUS
      <4>1. q \in Ids /\ ~(q <= 0)
        BY <2>11
      <4>2. CASE q \in S
        BY <4>1, <4>2, <2>10, <2>12 DEF Com
      <4>3. CASE q \notin S
        <5>1. rows[q].spent = runs[q].spent /\ rows[q].amt = runs[q].amt
          BY <4>1, <4>3, <1>6
        <5> QED
          BY <4>1, <4>3, <5>1, <2>10, <2>12 DEF Com
      <4> QED
        BY <4>2, <4>3
    <3>2. Over(f[0], T) = Over(Com, T) /\ Spend(t) = Over(Com, T)
      <4> QED
        BY <3>1, SumAgree, SpendOver
    <3>3. Over(f[0], T) \in Int
      <4>1. \A q \in T : f[0][q] \in Int
        BY <1>2, <2>1
      <4> QED
        BY <1>2, <4>1, SumType
    <3> QED
      BY <1>5, <1>11, <3>2, <3>3
  <2>3. ASSUME NEW k \in 1 .. n, Q(k - 1) PROVE Q(k)
    <3>1. k - 1 \in 0 .. n /\ k \in 0 .. n /\ k \in Ids
      BY <1>2
    <3>2. CASE k \in S /\ fits(k, total[k - 1])
      <4>1. total[k] = total[k - 1] + cn[k] /\ k \in T /\ cn[k] \in Int
        BY <1>4, <1>7, <3>1, <3>2
      <4>2. f[k][k] = cn[k] /\ f[k - 1][k] = 0
        BY <1>6, <2>10, <3>1, <3>2, <4>1
      <4>3. ASSUME NEW q \in T, q # k PROVE f[k - 1][q] = f[k][q]
        <5>1. q <= k <=> q <= k - 1
          BY <1>2, <2>11, <4>3
        <5> QED
          BY <5>1, <2>10, <3>1
      <4>4. \A q \in T : f[k - 1][q] \in Int /\ f[k][q] \in Int /\ (q # k => f[k - 1][q] = f[k][q])
        BY <2>1, <3>1, <4>3
      <4>5. Over(f[k], T) = Over(f[k - 1], T) + f[k][k] - f[k - 1][k]
        <5> DEFINE g == f[k - 1]
                   h == f[k]
        <5>1. \A q \in T : g[q] \in Int
          BY <4>4
        <5>2. \A q \in T : h[q] \in Int
          BY <4>4
        <5>3. \A q \in T : q # k => g[q] = h[q]
          BY <4>4
        <5>4. k \in T /\ IsFiniteSet(T)
          BY <1>2, <4>1
        <5> HIDE DEF g, h, T
        <5>5. Over(h, T) = Over(g, T) + h[k] - g[k]
          BY <5>1, <5>2, <5>3, <5>4, SumUpdate
        <5> QED
          BY <5>5 DEF g, h
      <4>6. total[k - 1] + cn[k] <= m
        BY <3>2 DEF fits
      <4> QED
        BY <2>3, <4>1, <4>2, <4>5, <4>6
    <3>3. CASE ~(k \in S /\ fits(k, total[k - 1]))
      <4>1. total[k] = total[k - 1]
        BY <1>4, <2>3, <3>3
      <4>2. ASSUME NEW q \in T PROVE f[k - 1][q] = f[k][q]
        <5>1. q # k => (q <= k <=> q <= k - 1)
          BY <1>2, <2>11
        <5>2. CASE q # k
          BY <5>1, <5>2, <2>10, <3>1
        <5>3. CASE q = k /\ q \in S
          <6>1. rows[q].spent = "unresolved"
            BY <1>6, <3>1, <3>3, <5>3
          <6> QED
            BY <6>1, <2>10, <3>1
        <5>4. CASE q = k /\ q \notin S
          BY <5>4, <2>10, <3>1
        <5> QED
          BY <5>2, <5>3, <5>4
      <4>3. Over(f[k], T) = Over(f[k - 1], T)
        BY <4>2, SumAgree
      <4> QED
        BY <2>3, <4>1, <4>3
    <3> QED
      BY <3>2, <3>3
  <2> HIDE DEF Q
  <2>4. B = {}
    <3> SUFFICES ASSUME B # {} PROVE FALSE
      OBVIOUS
    <3>1. B \in SUBSET Nat
      BY <1>2
    <3>2. PICK k \in B : \A j \in B : k <= j
      <4> HIDE DEF B
      <4> QED
        BY <3>1, Smallest
    <3>3. k # 0 /\ k \in 1 .. n /\ k - 1 \in 0 .. n /\ k - 1 \notin B
      BY <1>2, <2>2, <3>2
    <3> QED
      BY <2>3, <3>2, <3>3
  <2>5. Q(n)
    BY <1>2, <2>4
  <2>6. \A q \in T : f[n][q] = IF rows[q].spent = "committed" THEN rows[q].amt ELSE 0
    <3>1. \A q \in T : q <= n
      BY <1>2
    <3> QED
      BY <2>10, <2>12, <3>1
  <2>7. Spent(rows, T) = Over(f[n], T)
    <3> QED
      BY <2>6, SpentOver
  <2> QED
    BY <2>5, <2>7 DEF Q
<1>12. \A r \in Ids :
         /\ SameButCharge(runs[r], rows[r]) /\ rows[r].canon = cn[r]
         /\ r \notin S => rows[r].spent = runs[r].spent /\ rows[r].amt = runs[r].amt
         /\ r \in S => \/ rows[r].spent = "unresolved" /\ rows[r].amt = runs[r].amt
                       \/ rows[r].spent = "committed" /\ rows[r].amt \in Nat
  BY <1>6
<1> QED
  BY <1>8, <1>11, <1>12 DEF ChargeStep

-----------------------------------------------------------------------------
(* The sweep                                                                *)

\* What becomes of the receipt of the swept Turn.
AtPhase(x, p) == [x EXCEPT !.phase = p]
AsSettled(x, n, p) ==
  [[x EXCEPT !.st = IF n > 0 THEN "committed" ELSE "released", !.committed = n] EXCEPT !.phase = p]

LEMMA TurnFields ==
  ASSUME NEW x \in TurnRow, NEW p \in {0, 1, 3, 5, 6}, NEW y, y = AtPhase(x, p)
  PROVE  /\ y \in TurnRow /\ y.phase = p /\ y.src = x.src /\ y.st = x.st
         /\ y.reserved = x.reserved /\ y.committed = x.committed
BY DEF TurnRow, AtPhase

IsSettled(y, x, n, p) ==
  /\ y \in TurnRow /\ y.phase = p /\ y.src = x.src /\ y.st \in {"committed", "released"}
  /\ y.reserved = x.reserved /\ y.committed = n
LEMMA TurnClosed ==
  ASSUME NEW x \in TurnRow, NEW n \in Nat, NEW p \in {0, 1, 3, 5, 6}
  PROVE  IsSettled(AsSettled(x, n, p), x, n, p)
<1> DEFINE v == IF n > 0 THEN "committed" ELSE "released"
           z == [x EXCEPT !.st = v]
           w == [z EXCEPT !.committed = n]
           y == AtPhase(w, p)
<1>1. y = AsSettled(x, n, p) /\ v \in {"committed", "released"}
  BY DEF AsSettled, AtPhase
<1> HIDE DEF v
<1>2. /\ z \in TurnRow /\ z.phase = x.phase /\ z.src = x.src /\ z.st = v
      /\ z.reserved = x.reserved
  BY <1>1 DEF TurnRow
<1> HIDE DEF z
<1>3. /\ w \in TurnRow /\ w.phase = x.phase /\ w.src = x.src /\ w.st = v
      /\ w.reserved = x.reserved /\ w.committed = n
  BY <1>2 DEF TurnRow
<1> HIDE DEF w
<1>4. /\ y \in TurnRow /\ y.phase = p /\ y.src = w.src /\ y.st = w.st
      /\ y.reserved = w.reserved /\ y.committed = w.committed
  BY <1>3, TurnFields
<1> HIDE DEF y
<1> QED
  BY <1>1, <1>3, <1>4 DEF IsSettled

\* A sweep leaves the rows alone, or it charges ended runs of the Turn, and
\* closes the Turn only with every run of it over and charged.
SweepCharges(t, phase, rows, turn) ==
  \E D \in SUBSET TurnRuns(t), cn \in [Ids -> Amounts \cup {None, Gap}], closes \in BOOLEAN :
    /\ rows = Charged(t, D, cn)
    /\ \A r \in D : ~Live(r) /\ runs[r].spent = "none"
    /\ Reserved(t) \/ D = {}
    /\ \A r \in Ids : runs[r].canon # None => cn[r] = runs[r].canon
    /\ \A r \in Ids : cn[r] # None /\ runs[r].canon = None /\ runs[r].report = None =>
         closes /\ r \in TurnRuns(t)
    /\ closes => /\ \A r \in TurnRuns(t) : ~Live(r) /\ (runs[r].spent = "none" => r \in D)
                 /\ \E p \in {0, 1, 3, 5, 6} :
                      /\ p # 0
                      /\ turn = IF Reserved(t) THEN AsSettled(turns[t], Spent(rows, TurnRuns(t)), p)
                                ELSE AtPhase(turns[t], p)
    /\ ~closes => turn = AtPhase(turns[t], phase)

LEMMA SweptCases ==
  ASSUME QuotaAssumption, Shapes, NEW t \in Seqs, NEW phase \in {0, 1, 3, 5, 6},
         NEW absent, NEW row, NEW sw, sw = Swept(t, phase, absent, row)
  PROVE  \/ sw.runs = runs /\ sw.turn = AtPhase(turns[t], phase)
         \/ phase # 0 /\ SweepCharges(t, phase, sw.runs, sw.turn)
<1> DEFINE ended == {r \in TurnRuns(t) : ~Live(r)}
           canon == [r \in Ids |-> IF r \in ended /\ runs[r].canon = None
                                   THEN runs[r].report ELSE runs[r].canon]
           uncharged == {r \in ended : runs[r].spent = "none"}
           missing == {r \in ended : canon[r] = None}
           closes == MayClose(t, phase, absent, missing, row)
           D == IF closes THEN uncharged ELSE uncharged \ missing
           cn == [r \in Ids |-> IF r \in missing THEN Evidence(closes) ELSE canon[r]]
           charged == Charged(t, D, cn)
           total == Spent(charged, TurnRuns(t))
           settled == IF Reserved(t)
             THEN [turns[t] EXCEPT !.st = IF total > 0 THEN "committed" ELSE "released", !.committed = total]
             ELSE turns[t]
           nothing == phase \in {0, 6} \/ turns[t].st = "none" \/ (~Reserved(t) /\ D # {})
<1>1. sw = IF nothing
           THEN [runs |-> runs, turn |-> AtPhase(turns[t], phase)]
           ELSE [runs |-> charged,
                 turn |-> IF ~closes THEN AtPhase(turns[t], phase)
                          ELSE AtPhase(settled, IF phase = 5 THEN 6 ELSE phase)]
  BY DEF Swept, AtPhase
<1>2. TurnRuns(t) \in SUBSET Ids /\ \A r \in Ids : runs[r] \in RunRow
  BY Lengths, Rows
<1>3. \A r \in Ids : runs[r].canon \in Amounts \cup {None, Gap} /\ runs[r].report \in Amounts \cup {None, Gap}
  BY <1>2 DEF RunRow
<1>4. D \in SUBSET TurnRuns(t) /\ \A r \in D : ~Live(r) /\ runs[r].spent = "none"
  OBVIOUS
<1>5. closes => \A r \in TurnRuns(t) : ~Live(r) /\ (runs[r].spent = "none" => r \in D)
  BY DEF MayClose
<1>6. cn \in [Ids -> Amounts \cup {None, Gap}]
  BY <1>3 DEF Evidence
<1>7. \A r \in Ids : runs[r].canon # None => cn[r] = runs[r].canon
  OBVIOUS
<1>8. \A r \in Ids : cn[r] # None /\ runs[r].canon = None /\ runs[r].report = None => closes /\ r \in TurnRuns(t)
  BY DEF Evidence
<1>9. CASE nothing
  <2> HIDE DEF nothing, charged, settled, closes
  <2> QED
    BY <1>1, <1>9
<1>10. CASE ~nothing
  <2>1. phase # 0 /\ (Reserved(t) \/ D = {})
    BY <1>10
  <2> HIDE DEF closes, D, cn, nothing
  <2>2. sw.runs = charged
    BY <1>1, <1>10
  <2>3. ~closes => sw.turn = AtPhase(turns[t], phase)
    BY <1>1, <1>10
  <2>4. closes => sw.turn = AtPhase(settled, IF phase = 5 THEN 6 ELSE phase)
    BY <1>1, <1>10
  <2>5. ASSUME closes
        PROVE  \E p \in {0, 1, 3, 5, 6} :
                 /\ p # 0
                 /\ sw.turn = IF Reserved(t) THEN AsSettled(turns[t], Spent(sw.runs, TurnRuns(t)), p)
                              ELSE AtPhase(turns[t], p)
    <3> DEFINE p == IF phase = 5 THEN 6 ELSE phase
    <3>1. p \in {0, 1, 3, 5, 6} /\ p # 0
      BY <2>1
    <3>2. sw.turn = AtPhase(settled, p)
      BY <2>4, <2>5
    <3> HIDE DEF p
    <3>3. CASE ~Reserved(t)
      BY <3>1, <3>2, <3>3
    <3>4. CASE Reserved(t)
      <4>1. AtPhase(settled, p) = AsSettled(turns[t], Spent(sw.runs, TurnRuns(t)), p)
        BY <2>2, <3>4 DEF AtPhase, AsSettled
      <4> QED
        BY <3>1, <3>2, <3>4, <4>1
    <3> QED
      BY <3>3, <3>4
  <2>6. \E close \in BOOLEAN : close <=> closes
    OBVIOUS
  <2> QED
    BY <1>4, <1>5, <1>6, <1>7, <1>8, <2>1, <2>2, <2>3, <2>5, <2>6 DEF SweepCharges
<1> QED
  BY <1>9, <1>10

\* The rows and the receipt after a sweep of Turn t.
SweepStep(t, phase, rows, turn) ==
  /\ rows \in Seq(RunRow) /\ Len(rows) = Len(runs) /\ turn \in TurnRow
  /\ turn.src = turns[t].src /\ turn.reserved = turns[t].reserved
  /\ turn.phase = 0 => phase = 0 /\ turn.st = turns[t].st
  /\ \A r \in Ids : SameButCharge(runs[r], rows[r])
  /\ \A r \in Ids : \/ rows[r].spent = runs[r].spent /\ rows[r].amt = runs[r].amt
                    \/ /\ r \in TurnRuns(t) /\ runs[r].spent = "none"
                       /\ \/ rows[r].spent = "unresolved" /\ rows[r].amt = runs[r].amt
                          \/ rows[r].spent = "committed"
  /\ \A r \in Ids : runs[r].canon # None => rows[r].canon = runs[r].canon
  /\ \A r \in Ids : rows[r].canon # None /\ runs[r].canon = None /\ runs[r].report = None =>
       r \in TurnRuns(t) /\ turn.st # "reserved"
  /\ Spend(t) <= turns[t].reserved => Spent(rows, TurnRuns(t)) <= turns[t].reserved
  /\ turn.st = turns[t].st => turn.committed = turns[t].committed
  /\ turn.st # turns[t].st =>
       /\ Reserved(t) /\ turn.st # "reserved"
       /\ turn.committed = Spent(rows, TurnRuns(t))
       /\ \A r \in TurnRuns(t) : rows[r].st # "live" /\ rows[r].spent # "none"

LEMMA SpentNat ==
  ASSUME NEW rows \in Seq(RunRow), NEW S \in SUBSET (1 .. Len(rows))
  PROVE  IsFiniteSet(S) /\ Spent(rows, S) \in Nat
<1> DEFINE f == [r \in S |-> IF rows[r].spent = "committed" THEN rows[r].amt ELSE 0]
<1>1. IsFiniteSet(S)
  <2>1. Len(rows) \in Nat /\ IsFiniteSet(1 .. Len(rows))
    BY FS_Interval
  <2> QED
    BY <2>1, FS_Subset
<1>2. \A r \in S : f[r] \in Nat
  <2>1. \A r \in S : rows[r] \in RunRow
    OBVIOUS
  <2> QED
    BY <2>1 DEF RunRow
<1>3. Spent(rows, S) = Over(f, S)
  BY SpentOver
<1> HIDE DEF f
<1> QED
  BY <1>1, <1>2, <1>3, SumNat

LEMMA SweptStep ==
  ASSUME QuotaAssumption, Shapes, NEW t \in Seqs, NEW phase \in {0, 1, 3, 5, 6},
         NEW absent, NEW row, NEW sw, sw = Swept(t, phase, absent, row)
  PROVE  SweepStep(t, phase, sw.runs, sw.turn)
<1> DEFINE rows == sw.runs
           turn == sw.turn
<1>1. /\ turns[t] \in TurnRow /\ TurnRuns(t) \in SUBSET Ids
      /\ \A r \in Ids : runs[r] \in RunRow
  BY Lengths, Rows
<1>2. CASE rows = runs /\ turn = AtPhase(turns[t], phase)
  <2>1. /\ turn \in TurnRow /\ turn.phase = phase /\ turn.src = turns[t].src /\ turn.st = turns[t].st
        /\ turn.reserved = turns[t].reserved /\ turn.committed = turns[t].committed
    BY <1>1, <1>2, TurnFields
  <2>2. \A r \in Ids : SameButCharge(runs[r], rows[r])
    BY <1>1, <1>2 DEF SameButCharge
  <2>3. rows \in Seq(RunRow) /\ Len(rows) = Len(runs) /\ Spent(rows, TurnRuns(t)) = Spend(t)
    BY <1>2 DEF Shapes, Spend
  <2> QED
    BY <1>2, <2>1, <2>2, <2>3 DEF SweepStep
<1>3. CASE phase # 0 /\ SweepCharges(t, phase, rows, turn)
  <2>1. PICK D \in SUBSET TurnRuns(t), cn \in [Ids -> Amounts \cup {None, Gap}], closes \in BOOLEAN :
          /\ rows = Charged(t, D, cn)
          /\ \A r \in D : ~Live(r) /\ runs[r].spent = "none"
          /\ Reserved(t) \/ D = {}
          /\ \A r \in Ids : runs[r].canon # None => cn[r] = runs[r].canon
          /\ \A r \in Ids : cn[r] # None /\ runs[r].canon = None /\ runs[r].report = None =>
               closes /\ r \in TurnRuns(t)
          /\ closes => /\ \A r \in TurnRuns(t) : ~Live(r) /\ (runs[r].spent = "none" => r \in D)
                       /\ \E p \in {0, 1, 3, 5, 6} :
                            /\ p # 0
                            /\ turn = IF Reserved(t) THEN AsSettled(turns[t], Spent(rows, TurnRuns(t)), p)
                                      ELSE AtPhase(turns[t], p)
          /\ ~closes => turn = AtPhase(turns[t], phase)
    BY <1>3 DEF SweepCharges
  <2> HIDE DEF rows, turn
  <2>2. /\ rows \in Seq(RunRow) /\ Len(rows) = Len(runs)
        /\ \A r \in Ids :
              /\ SameButCharge(runs[r], rows[r]) /\ rows[r].canon = cn[r]
              /\ r \notin D => rows[r].spent = runs[r].spent /\ rows[r].amt = runs[r].amt
              /\ r \in D => \/ rows[r].spent = "unresolved" /\ rows[r].amt = runs[r].amt
                            \/ rows[r].spent = "committed" /\ rows[r].amt \in Nat
        /\ Spend(t) <= turns[t].reserved => Spent(rows, TurnRuns(t)) <= turns[t].reserved
    BY <2>1, ChargedOn DEF ChargeStep
  <2>3. Spent(rows, TurnRuns(t)) \in Nat
    BY <1>1, <2>2, SpentNat DEF Ids
  <2>4. CASE ~closes \/ ~Reserved(t)
    <3>1. PICK p \in {0, 1, 3, 5, 6} : p # 0 /\ turn = AtPhase(turns[t], p)
      BY <1>3, <2>1, <2>4
    <3>2. /\ turn \in TurnRow /\ turn.phase = p /\ turn.src = turns[t].src /\ turn.st = turns[t].st
          /\ turn.reserved = turns[t].reserved /\ turn.committed = turns[t].committed
      BY <1>1, <3>1, TurnFields
    <3>3. \A r \in Ids : rows[r].canon # None /\ runs[r].canon = None /\ runs[r].report = None =>
            r \in TurnRuns(t) /\ turn.st # "reserved"
      BY <2>1, <2>2, <2>4, <3>2 DEF Reserved
    <3>4. /\ \A r \in Ids : SameButCharge(runs[r], rows[r])
          /\ \A r \in Ids : runs[r].canon # None => rows[r].canon = runs[r].canon
          /\ \A r \in Ids : \/ rows[r].spent = runs[r].spent /\ rows[r].amt = runs[r].amt
                            \/ /\ r \in TurnRuns(t) /\ runs[r].spent = "none"
                               /\ \/ rows[r].spent = "unresolved" /\ rows[r].amt = runs[r].amt
                                  \/ rows[r].spent = "committed"
      BY <2>1, <2>2
    <3> QED
      BY <2>2, <3>1, <3>2, <3>3, <3>4 DEF SweepStep, rows, turn
  <2>5. CASE closes /\ Reserved(t)
    <3>1. PICK p \in {0, 1, 3, 5, 6} : p # 0 /\ turn = AsSettled(turns[t], Spent(rows, TurnRuns(t)), p)
      BY <2>1, <2>5
    <3>2. /\ turn \in TurnRow /\ turn.phase = p /\ turn.src = turns[t].src
          /\ turn.st \in {"committed", "released"}
          /\ turn.reserved = turns[t].reserved /\ turn.committed = Spent(rows, TurnRuns(t))
      <4> DEFINE total == Spent(rows, TurnRuns(t))
      <4>1. total \in Nat /\ turn = AsSettled(turns[t], total, p)
        BY <2>3, <3>1
      <4> HIDE DEF total
      <4>2. IsSettled(turn, turns[t], total, p)
        BY <1>1, <4>1, TurnClosed
      <4> QED
        BY <4>2 DEF total, IsSettled
    <3>3. \A r \in TurnRuns(t) : rows[r].st # "live" /\ rows[r].spent # "none"
      <4> SUFFICES ASSUME NEW r \in TurnRuns(t) PROVE rows[r].st # "live" /\ rows[r].spent # "none"
        OBVIOUS
      <4>1. r \in Ids /\ ~Live(r) /\ (runs[r].spent = "none" => r \in D)
        BY <1>1, <2>1, <2>5
      <4>2. SameButCharge(runs[r], rows[r])
        BY <2>2, <4>1
      <4> QED
        BY <2>2, <4>1, <4>2 DEF SameButCharge, Live
    <3>4. \A r \in Ids : rows[r].canon # None /\ runs[r].canon = None /\ runs[r].report = None =>
            r \in TurnRuns(t) /\ turn.st # "reserved"
      BY <2>1, <2>2, <3>2
    <3>5. /\ \A r \in Ids : SameButCharge(runs[r], rows[r])
          /\ \A r \in Ids : runs[r].canon # None => rows[r].canon = runs[r].canon
          /\ \A r \in Ids : \/ rows[r].spent = runs[r].spent /\ rows[r].amt = runs[r].amt
                            \/ /\ r \in TurnRuns(t) /\ runs[r].spent = "none"
                               /\ \/ rows[r].spent = "unresolved" /\ rows[r].amt = runs[r].amt
                                  \/ rows[r].spent = "committed"
      BY <2>1, <2>2
    <3>6. turn.st # turns[t].st /\ turn.st # "reserved"
      BY <2>5, <3>2 DEF Reserved
    <3> QED
      BY <2>2, <2>5, <3>1, <3>2, <3>3, <3>4, <3>5, <3>6 DEF SweepStep, rows, turn
  <2> QED
    BY <2>4, <2>5
<1> QED
  BY <1>2, <1>3, SweptCases

-----------------------------------------------------------------------------
(* What every step but the admission of a Turn does to the ledger           *)

RunStep(r) ==
  /\ runs'[r].kind = runs[r].kind /\ runs'[r].turn = runs[r].turn
  /\ runs'[r].st = "live" => Live(r) /\ runs'[r].report = runs[r].report
  /\ runs[r].amt <= runs'[r].amt
  /\ runs'[r].spent \in {"none", "unresolved"} => runs'[r].amt = 0
  /\ runs'[r].spent # "none" => runs[r].spent # "none" \/ \E t \in Seqs : r \in TurnRuns(t)
  /\ runs'[r].late => runs'[r].canon # None
  /\ runs'[r].canon # None /\ runs'[r].report = None =>
       \/ runs[r].canon # None /\ runs[r].report = None
       \/ \E t \in Seqs : r \in TurnRuns(t) /\ turns'[t].st # "reserved"

TurnStep(t) ==
  /\ turns'[t].src = turns[t].src /\ turns'[t].reserved = turns[t].reserved
  /\ turns'[t].phase = 0 => turns[t].phase = 0 /\ turns'[t].st = turns[t].st
  /\ turns'[t].st = turns[t].st => turns'[t].committed = turns[t].committed
  /\ Reserved(t) => (Spend(t))' <= turns[t].reserved
  /\ turns'[t].st # turns[t].st =>
       /\ Reserved(t)
       /\ turns'[t].committed = (Spend(t))'
       /\ \A r \in TurnRuns(t) : runs'[r].st # "live" /\ runs'[r].spent # "none"

FreshRun(r) ==
  /\ runs'[r].spent = "none" /\ runs'[r].amt = 0 /\ runs'[r].canon = None
  /\ runs'[r].report = None /\ ~runs'[r].late
  /\ \/ runs'[r].kind = "source" /\ runs'[r].turn = 0
     \/ runs'[r].kind = "worker" /\ runs'[r].turn \in Seqs /\ turns'[runs'[r].turn].phase # 0

\* A control turn has no ledger.
FreshTurn(t) ==
  turns'[t].src = 0 /\ turns'[t].phase = 6 /\ turns'[t].st = "none" /\ turns'[t].committed = 0

Grown ==
  /\ Len(runs) <= Len(runs') /\ \A r \in Ids : RunStep(r)
  /\ \A r \in Ids' \ Ids : FreshRun(r)
  /\ Len(turns') \in {Len(turns), Len(turns) + 1} /\ \A t \in Seqs : TurnStep(t)
  /\ \A t \in Seqs' \ Seqs : FreshTurn(t)

LEMMA LengthsNext ==
  ASSUME Shapes'
  PROVE  /\ Len(runs') \in Nat /\ Ids' = 1 .. Len(runs') /\ IsFiniteSet(Ids')
         /\ Len(turns') \in Nat /\ Seqs' = 1 .. Len(turns') /\ IsFiniteSet(Seqs')
         /\ \A t : TurnRuns(t)' \in SUBSET Ids' /\ IsFiniteSet(TurnRuns(t)')
         /\ \A r \in Ids' : runs'[r] \in RunRow
         /\ \A t \in Seqs' : turns'[t] \in TurnRow
<1>1. Len(runs') \in Nat /\ Len(turns') \in Nat /\ runs' \in Seq(RunRow) /\ turns' \in Seq(TurnRow)
  BY DEF Shapes
<1>2. IsFiniteSet(Ids') /\ IsFiniteSet(Seqs')
  BY <1>1, FS_Interval DEF Ids, Seqs
<1>3. \A t : TurnRuns(t)' \in SUBSET Ids'
  BY DEF TurnRuns
<1> QED
  BY <1>1, <1>2, <1>3, FS_Subset DEF Ids, Seqs

\* Rows keep their places.
LEMMA Places ==
  ASSUME Shapes, Shapes', Grown
  PROVE  /\ Ids \subseteq Ids' /\ Seqs \subseteq Seqs'
         /\ \A t \in Seqs : TurnRuns(t) \subseteq TurnRuns(t)'
         /\ \A t \in Seqs : \A r \in Ids : r \in TurnRuns(t)' => r \in TurnRuns(t)
<1>1. Ids \subseteq Ids' /\ Seqs \subseteq Seqs'
  BY Lengths, LengthsNext DEF Grown
<1>2. ASSUME NEW t \in Seqs, NEW r \in Ids
      PROVE  r \in TurnRuns(t)' <=> r \in TurnRuns(t)
  <2>1. r \in Ids' /\ runs'[r].turn = runs[r].turn /\ turns'[t].src = turns[t].src
    BY <1>1 DEF Grown, RunStep, TurnStep
  <2> QED
    BY <2>1 DEF TurnRuns
<1>3. \A t \in Seqs : TurnRuns(t) \in SUBSET Ids
  BY Lengths
<1> QED
  BY <1>1, <1>2, <1>3

\* A run of two Turns is a run of one.
LEMMA Disjoint ==
  ASSUME Owned, NEW s \in Seqs, NEW t \in Seqs, s # t
  PROVE  TurnRuns(s) \cap TurnRuns(t) = {}
<1> SUFFICES ASSUME NEW r \in TurnRuns(s), r \in TurnRuns(t) PROVE FALSE
  OBVIOUS
<1>1. r \in Ids /\ (r = turns[s].src \/ runs[r].turn = s) /\ (r = turns[t].src \/ runs[r].turn = t)
  BY DEF TurnRuns
<1>2. r # 0 /\ s # 0 /\ t # 0
  BY <1>1 DEF Ids, Seqs
<1>3. \A u \in Seqs : r = turns[u].src => runs[r].turn = 0
  BY <1>1, <1>2 DEF Owned
<1> QED
  BY <1>1, <1>2, <1>3 DEF Owned

LEMMA OwnedStep ==
  ASSUME LedgerInv, Shapes', Grown
  PROVE  Owned'
<1>1. Shapes /\ Owned
  BY DEF LedgerInv
<1>2. /\ Ids \subseteq Ids' /\ Seqs \subseteq Seqs'
      /\ Seqs = 1 .. Len(turns) /\ Seqs' = 1 .. Len(turns') /\ Len(turns) <= Len(turns')
      /\ Len(turns) \in Nat /\ Len(turns') \in Nat
  BY <1>1, Places, Lengths, LengthsNext DEF Grown
<1>3. ASSUME NEW r \in Ids'
      PROVE  runs'[r].turn \in 0 .. Len(turns') /\ (runs'[r].kind = "source" <=> runs'[r].turn = 0)
  <2>1. CASE r \in Ids
    BY <1>1, <1>2, <2>1 DEF Grown, RunStep, Owned
  <2>2. CASE r \notin Ids
    <3>1. FreshRun(r)
      BY <2>2 DEF Grown
    <3>2. CASE runs'[r].kind = "source" /\ runs'[r].turn = 0
      BY <1>2, <3>2
    <3>3. CASE runs'[r].kind = "worker" /\ runs'[r].turn \in Seqs
      BY <1>2, <3>3
    <3> QED
      BY <3>1, <3>2, <3>3 DEF FreshRun
  <2> QED
    BY <2>1, <2>2
<1>4. \A t \in Seqs' : turns'[t].src # 0 => t \in Seqs /\ turns'[t].src = turns[t].src
  BY DEF Grown, TurnStep, FreshTurn
<1>5. \A t \in Seqs' : turns'[t].src # 0 => turns'[t].src \in Ids' /\ runs'[turns'[t].src].kind = "source"
  BY <1>1, <1>2, <1>4 DEF Owned, Grown, RunStep
<1>6. \A s, t \in Seqs' : turns'[s].src = turns'[t].src /\ turns'[s].src # 0 => s = t
  BY <1>1, <1>4 DEF Owned
<1> QED
  BY <1>3, <1>5, <1>6 DEF Owned

LEMMA UndecidedStep ==
  ASSUME LedgerInv, Shapes', Grown
  PROVE  Undecided' /\ Silent'
<1>1. Shapes /\ Undecided /\ Silent
  BY DEF LedgerInv
<1>2. ASSUME NEW t \in Seqs', turns'[t].phase = 0
      PROVE  turns'[t].st = "reserved" /\ turns'[t].src # 0 /\ \A r \in Ids' : runs'[r].turn # t
  <2>1. t \in Seqs
    BY <1>2 DEF Grown, FreshTurn
  <2>2. TurnStep(t)
    BY <2>1 DEF Grown
  <2>3. turns[t].phase = 0 /\ turns'[t].st = turns[t].st /\ turns'[t].src = turns[t].src
    BY <1>2, <2>2 DEF TurnStep
  <2>4. Reserved(t) /\ turns[t].src # 0 /\ \A r \in Ids : runs[r].turn # t
    BY <1>1, <2>1, <2>3 DEF Undecided
  <2>5. \A r \in Ids' : runs'[r].turn # t
    <3> SUFFICES ASSUME NEW r \in Ids', runs'[r].turn = t PROVE FALSE
      OBVIOUS
    <3>1. CASE r \in Ids
      BY <2>4, <3>1 DEF Grown, RunStep
    <3>2. CASE r \notin Ids
      <4>1. FreshRun(r)
        BY <3>2 DEF Grown
      <4> QED
        BY <1>2, <2>1, <4>1 DEF FreshRun, Seqs
    <3> QED
      BY <3>1, <3>2
  <2> QED
    BY <2>3, <2>4, <2>5 DEF Reserved
<1>3. ASSUME NEW r \in Ids', runs'[r].st = "live"
      PROVE  runs'[r].report = None
  <2>1. CASE r \in Ids
    BY <1>1, <1>3, <2>1 DEF Grown, RunStep, Silent, Live
  <2>2. CASE r \notin Ids
    BY <2>2 DEF Grown, FreshRun
  <2> QED
    BY <2>1, <2>2
<1> QED
  BY <1>2, <1>3 DEF Undecided, Silent, Live, Reserved

LEMMA AbsenceStep ==
  ASSUME LedgerInv, Shapes', Grown
  PROVE  AbsenceBehind' /\ Charges'
<1>1. Shapes /\ AbsenceBehind /\ Charges
  BY DEF LedgerInv
<1>2. /\ Ids \subseteq Ids' /\ Seqs \subseteq Seqs'
      /\ \A t \in Seqs : TurnRuns(t) \subseteq TurnRuns(t)'
  BY <1>1, Places
<1>3. \A t \in Seqs : ~Reserved(t) => turns'[t].st # "reserved"
  BY DEF Grown, TurnStep, Reserved
<1>4. ASSUME NEW r \in Ids'
      PROVE  runs'[r].late => runs'[r].canon # None
  <2>1. CASE r \in Ids
    BY <2>1 DEF Grown, RunStep
  <2>2. CASE r \notin Ids
    BY <2>2 DEF Grown, FreshRun
  <2> QED
    BY <2>1, <2>2
<1>5. ASSUME NEW r \in Ids', runs'[r].canon # None, runs'[r].report = None
      PROVE  \E t \in Seqs' : r \in TurnRuns(t)' /\ turns'[t].st # "reserved"
  <2>1. r \in Ids /\ RunStep(r)
    BY <1>5 DEF Grown, FreshRun
  <2>2. PICK t \in Seqs : r \in TurnRuns(t) /\ turns'[t].st # "reserved"
    BY <1>1, <1>3, <1>5, <2>1 DEF RunStep, AbsenceBehind
  <2> QED
    BY <1>2, <2>2
<1>6. ASSUME NEW r \in Ids', runs'[r].spent \in {"none", "unresolved"}
      PROVE  runs'[r].amt = 0
  <2>1. CASE r \in Ids
    BY <1>6, <2>1 DEF Grown, RunStep
  <2>2. CASE r \notin Ids
    BY <2>2 DEF Grown, FreshRun
  <2> QED
    BY <2>1, <2>2
<1>7. ASSUME NEW r \in Ids', runs'[r].spent # "none"
      PROVE  \E t \in Seqs' : r \in TurnRuns(t)'
  <2>1. r \in Ids /\ RunStep(r)
    BY <1>7 DEF Grown, FreshRun
  <2>2. PICK t \in Seqs : r \in TurnRuns(t)
    BY <1>1, <1>7, <2>1 DEF RunStep, Charges
  <2> QED
    BY <1>2, <2>2
<1>8. AbsenceBehind'
  BY <1>4, <1>5 DEF AbsenceBehind, Reserved
<1>9. Charges'
  BY <1>6, <1>7 DEF Charges
<1> QED
  BY <1>8, <1>9

\* What is charged is part of what the amounts sum up to.
LEMMA SpentAmounts ==
  ASSUME NEW rows \in Seq(RunRow), NEW S \in SUBSET (1 .. Len(rows)),
         NEW f, \A x \in S : f[x] = rows[x].amt
  PROVE  Spent(rows, S) \in Nat /\ Over(f, S) \in Nat /\ Spent(rows, S) <= Over(f, S)
<1> DEFINE c == [r \in S |-> IF rows[r].spent = "committed" THEN rows[r].amt ELSE 0]
<1>1. IsFiniteSet(S) /\ Spent(rows, S) \in Nat
  BY SpentNat
<1>2. \A r \in S : rows[r] \in RunRow
  OBVIOUS
<1>3. \A r \in S : rows[r].amt \in Nat
  BY <1>2 DEF RunRow
<1>4. \A r \in S : c[r] \in Int /\ f[r] \in Int /\ c[r] <= f[r]
  BY <1>3
<1>5. Spent(rows, S) = Over(c, S)
  BY SpentOver
<1>6. \A x \in S : f[x] \in Nat
  BY <1>3
<1> HIDE DEF c
<1>7. Over(c, S) <= Over(f, S)
  BY <1>1, <1>4, SumMono
<1>8. Over(f, S) \in Nat
  BY <1>1, <1>6, SumNat
<1> QED
  BY <1>1, <1>5, <1>7, <1>8

LEMMA CoveredStep ==
  ASSUME LedgerInv, Shapes', Grown
  PROVE  Covered'
<1>1. Shapes /\ Covered
  BY DEF LedgerInv
<1> SUFFICES ASSUME NEW t \in Seqs'
             PROVE  IF turns'[t].st = "reserved" THEN (Spend(t))' <= turns'[t].reserved
                    ELSE turns'[t].committed <= Over(Amt', TurnRuns(t)')
  BY DEF Covered, Reserved
<1>2. /\ runs' \in Seq(RunRow) /\ TurnRuns(t)' \in SUBSET (1 .. Len(runs'))
      /\ IsFiniteSet(TurnRuns(t)')
  BY LengthsNext DEF Shapes
<1>3. \A x \in TurnRuns(t)' : Amt'[x] = runs'[x].amt
  BY <1>2 DEF Amt, Ids
<1>4. /\ Over(Amt', TurnRuns(t)') \in Nat
      /\ Spent(runs', TurnRuns(t)') <= Over(Amt', TurnRuns(t)')
  BY <1>2, <1>3, SpentAmounts
<1>5. (Spend(t))' <= Over(Amt', TurnRuns(t)')
  BY <1>4 DEF Spend
<1>6. CASE t \notin Seqs
  BY <1>4, <1>6 DEF Grown, FreshTurn
<1>7. CASE t \in Seqs
  <2>1. TurnStep(t)
    BY <1>7 DEF Grown
  <2>2. CASE Reserved(t)
    BY <1>5, <2>1, <2>2 DEF TurnStep, Reserved
  <2>3. CASE ~Reserved(t)
    <3>1. turns'[t].st # "reserved" /\ turns'[t].committed = turns[t].committed
      BY <2>1, <2>3 DEF TurnStep, Reserved
    <3>2. turns[t].committed <= Over(Amt, TurnRuns(t))
      BY <1>1, <1>7, <2>3 DEF Covered
    <3>3. /\ TurnRuns(t) \subseteq TurnRuns(t)' /\ TurnRuns(t) \in SUBSET Ids
          /\ Ids \subseteq Ids' /\ IsFiniteSet(TurnRuns(t))
      BY <1>1, <1>7, Places, Lengths
    <3>4. \A x \in TurnRuns(t)' : Amt'[x] \in Nat
      <4>1. \A x \in TurnRuns(t)' : runs'[x] \in RunRow
        BY <1>2
      <4> QED
        BY <1>3, <4>1 DEF RunRow
    <3>5. \A x \in TurnRuns(t) : Amt[x] \in Int /\ Amt'[x] \in Int /\ Amt[x] <= Amt'[x]
      <4> SUFFICES ASSUME NEW x \in TurnRuns(t) PROVE Amt[x] \in Int /\ Amt'[x] \in Int /\ Amt[x] <= Amt'[x]
        OBVIOUS
      <4>1. x \in Ids /\ runs[x] \in RunRow /\ Amt[x] = runs[x].amt
        BY <1>1, <3>3, Rows DEF Amt
      <4>2. runs[x].amt <= runs'[x].amt
        BY <4>1 DEF Grown, RunStep
      <4>3. Amt'[x] = runs'[x].amt /\ Amt'[x] \in Nat
        BY <1>3, <3>3, <3>4
      <4>4. runs[x].amt \in Nat
        BY <4>1 DEF RunRow
      <4> QED
        BY <4>1, <4>2, <4>3, <4>4
    <3>6. Over(Amt, TurnRuns(t)) <= Over(Amt', TurnRuns(t))
      BY <3>3, <3>5, SumMono
    <3>7. /\ Over(Amt', TurnRuns(t)) <= Over(Amt', TurnRuns(t)')
          /\ Over(Amt', TurnRuns(t)) \in Nat
      BY <1>2, <3>3, <3>4, SumSubset
    <3>8. Over(Amt, TurnRuns(t)) \in Int
      BY <3>3, <3>5, SumType
    <3>9. turns[t].committed \in Nat
      BY <1>1, <1>7, Rows DEF TurnRow
    <3> QED
      BY <1>4, <3>1, <3>2, <3>6, <3>7, <3>8, <3>9
  <2> QED
    BY <2>2, <2>3
<1> QED
  BY <1>6, <1>7

\* What a Turn holds of the limit: its reservation, and then what it committed.
Held == [t \in Seqs |-> IF Reserved(t) THEN turns[t].reserved ELSE turns[t].committed]

LEMMA HeldOver == NoOversubscription <=> Over(Held, Seqs) <= Limit
<1>1. [x \in Seqs |-> Held[x]] = [t \in Seqs |-> IF Reserved(t) THEN turns[t].reserved ELSE turns[t].committed]
  BY DEF Held
<1> QED
  BY <1>1 DEF NoOversubscription, Over

LEMMA HeldNext == NoOversubscription' <=> Over(Held', Seqs') <= Limit
<1>1. [x \in Seqs' |-> Held'[x]] = [t \in Seqs' |-> IF Reserved(t)' THEN turns'[t].reserved ELSE turns'[t].committed]
  BY DEF Held, Reserved
<1> QED
  BY <1>1 DEF NoOversubscription, Over

LEMMA HeldStep ==
  ASSUME QuotaAssumption, LedgerInv, Shapes', Grown
  PROVE  NoOversubscription'
<1>1. Shapes /\ Over(Held, Seqs) <= Limit
  BY HeldOver DEF LedgerInv
<1>2. /\ Seqs \in SUBSET Seqs' /\ IsFiniteSet(Seqs) /\ IsFiniteSet(Seqs')
      /\ \A t \in Seqs : turns[t] \in TurnRow /\ turns'[t] \in TurnRow
  BY <1>1, Places, Lengths, LengthsNext, Rows
<1> DEFINE d == [t \in Seqs' |-> IF t \in Seqs THEN Held[t] ELSE 0]
<1>3. ASSUME NEW t \in Seqs PROVE Held[t] \in Int /\ Held'[t] \in Int /\ Held'[t] <= Held[t]
  <2>1. /\ turns[t].reserved \in Nat /\ turns[t].committed \in Nat
        /\ turns'[t].reserved \in Nat /\ turns'[t].committed \in Nat
    BY <1>2 DEF TurnRow
  <2>2. TurnStep(t)
    BY DEF Grown
  <2>3. /\ Held[t] = IF turns[t].st = "reserved" THEN turns[t].reserved ELSE turns[t].committed
        /\ Held'[t] = IF turns'[t].st = "reserved" THEN turns'[t].reserved ELSE turns'[t].committed
    BY <1>2 DEF Held, Reserved
  <2> QED
    BY <2>1, <2>2, <2>3 DEF TurnStep, Reserved
<1>4. ASSUME NEW t \in Seqs' \ Seqs PROVE Held'[t] = 0
  BY DEF Grown, FreshTurn, Held, Reserved
<1>5. \A t \in Seqs' : Held'[t] \in Int /\ d[t] \in Int /\ Held'[t] <= d[t]
  BY <1>3, <1>4
<1>6. \A x \in Seqs : Held[x] \in Int
  BY <1>3
<1>7. \A x \in Seqs : d[x] = Held[x]
  BY <1>2
<1>8. \A x \in Seqs' \ Seqs : d[x] = 0
  OBVIOUS
<1> HIDE DEF d
<1>9. Over(d, Seqs') = Over(Held, Seqs)
  BY <1>2, <1>6, <1>7, <1>8, SumWiden
<1>10. Over(Held', Seqs') <= Over(d, Seqs')
  BY <1>2, <1>5, SumMono
<1>11. Over(Held', Seqs') \in Int /\ Over(d, Seqs') \in Int
  <2>1. (\A t \in Seqs' : Held'[t] \in Int) /\ (\A t \in Seqs' : d[t] \in Int)
    BY <1>5
  <2> QED
    BY <1>2, <2>1, SumType
<1>12. Limit \in Int
  BY DEF QuotaAssumption
<1> QED
  BY <1>1, <1>9, <1>10, <1>11, <1>12, HeldNext

\* So such a step preserves the ledger's part of the invariant.
LEMMA LedgerStep ==
  ASSUME QuotaAssumption, LedgerInv, Shapes', HooksEnded', Grown
  PROVE  LedgerInv'
BY OwnedStep, UndecidedStep, AbsenceStep, CoveredStep, HeldStep DEF LedgerInv

-----------------------------------------------------------------------------
(* Kinds of steps                                                           *)

SameTurn(x, y) ==
  /\ y.src = x.src /\ y.reserved = x.reserved /\ y.st = x.st /\ y.committed = x.committed
  /\ y.phase = 0 => x.phase = 0

SameCharge(r) ==
  /\ runs'[r].spent = "committed" <=> runs[r].spent = "committed"
  /\ runs[r].spent = "committed" => runs'[r].amt = runs[r].amt

\* The row of a run that a step leaves alone.
LEMMA SameRow ==
  ASSUME LedgerInv, NEW r \in Ids, runs'[r] = runs[r]
  PROVE  RunStep(r) /\ SameCharge(r)
<1>1. Shapes /\ AbsenceBehind /\ Charges
  BY DEF LedgerInv
<1>2. runs[r].amt \in Nat
  BY <1>1, Rows DEF RunRow
<1> QED
  BY <1>1, <1>2 DEF RunStep, SameCharge, AbsenceBehind, Charges, Live

LEMMA HooksStep ==
  ASSUME LedgerInv, Shapes', Grown,
         \A h \in hooks' \ hooks :
           /\ h[1] \in Ids /\ runs'[h[1]].st # "live"
           /\ h[2] \in SourceSteps => runs'[h[1]].kind = "source"
  PROVE  HooksEnded'
<1>1. Shapes /\ HooksEnded
  BY DEF LedgerInv
<1>2. Ids \subseteq Ids'
  BY <1>1, Places
<1> SUFFICES ASSUME NEW h \in hooks'
             PROVE  /\ h[1] \in Ids' /\ runs'[h[1]].st # "live"
                    /\ h[2] \in SourceSteps => runs'[h[1]].kind = "source"
  BY DEF HooksEnded, Live
<1>3. CASE h \in hooks
  <2>1. h[1] \in Ids /\ runs[h[1]].st # "live" /\ (h[2] \in SourceSteps => runs[h[1]].kind = "source")
    BY <1>1, <1>3 DEF HooksEnded, Live
  <2>2. RunStep(h[1])
    BY <2>1 DEF Grown
  <2> QED
    BY <1>2, <2>1, <2>2 DEF RunStep, Live
<1>4. CASE h \notin hooks
  BY <1>2, <1>4
<1> QED
  BY <1>3, <1>4

\* A step that charges nothing keeps every Turn.
LEMMA QuietStep ==
  ASSUME LedgerInv, Shapes', Len(runs) <= Len(runs'),
         \A r \in Ids : RunStep(r) /\ SameCharge(r), \A r \in Ids' \ Ids : FreshRun(r),
         Len(turns') = Len(turns), \A t \in Seqs : SameTurn(turns[t], turns'[t])
  PROVE  Grown
<1>1. Shapes /\ Covered
  BY DEF LedgerInv
<1>2. /\ Ids \subseteq Ids' /\ Seqs' = Seqs
      /\ \A t : TurnRuns(t) \in SUBSET Ids /\ TurnRuns(t)' \in SUBSET Ids' /\ IsFiniteSet(TurnRuns(t)')
  <2>1. /\ Ids = 1 .. Len(runs) /\ Ids' = 1 .. Len(runs') /\ Seqs = 1 .. Len(turns) /\ Seqs' = 1 .. Len(turns')
        /\ Len(runs) \in Nat /\ Len(runs') \in Nat
    BY <1>1, Lengths, LengthsNext
  <2> QED
    BY <1>1, <2>1, Lengths, LengthsNext
<1>3. ASSUME NEW t \in Seqs PROVE (Spend(t))' = Spend(t)
  <2> DEFINE g == [q \in Ids' |-> IF runs'[q].spent = "committed" THEN runs'[q].amt ELSE 0]
  <2>1. \A q \in TurnRuns(t) : q \in TurnRuns(t)'
    <3> SUFFICES ASSUME NEW q \in TurnRuns(t) PROVE q \in TurnRuns(t)'
      OBVIOUS
    <3>1. q \in Ids /\ q \in Ids' /\ runs'[q].turn = runs[q].turn /\ turns'[t].src = turns[t].src
      BY <1>2 DEF RunStep, SameTurn
    <3> QED
      BY <3>1 DEF TurnRuns
  <2>2. \A q \in TurnRuns(t)' \ TurnRuns(t) : q \in Ids' \ Ids
    <3> SUFFICES ASSUME NEW q \in TurnRuns(t)' \ TurnRuns(t), q \in Ids PROVE FALSE
      BY <1>2
    <3>1. runs'[q].turn = runs[q].turn /\ turns'[t].src = turns[t].src
      BY <1>2 DEF RunStep, SameTurn
    <3> QED
      BY <3>1 DEF TurnRuns
  <2>3. \A q \in TurnRuns(t)' \ TurnRuns(t) : g[q] = 0
    BY <1>2, <2>2 DEF FreshRun
  <2>4. \A q \in TurnRuns(t) : Com[q] \in Int /\ g[q] = Com[q]
    <3> SUFFICES ASSUME NEW q \in TurnRuns(t) PROVE Com[q] \in Int /\ g[q] = Com[q]
      OBVIOUS
    <3>1. q \in Ids /\ q \in Ids' /\ runs[q].amt \in Nat /\ SameCharge(q)
      BY <1>1, <1>2, Rows DEF RunRow
    <3> QED
      BY <3>1 DEF SameCharge, Com
  <2>5. (Spend(t))' = Over(g, TurnRuns(t)')
    <3>1. \A x \in TurnRuns(t)' : g[x] = IF runs'[x].spent = "committed" THEN runs'[x].amt ELSE 0
      BY <1>2
    <3> HIDE DEF g
    <3>2. Spent(runs', TurnRuns(t)') = Over(g, TurnRuns(t)')
      BY <3>1, SpentOver
    <3> QED
      BY <3>2 DEF Spend
  <2> HIDE DEF g
  <2>6. \A q \in TurnRuns(t) : Com[q] \in Int
    BY <2>4
  <2>7. \A q \in TurnRuns(t) : g[q] = Com[q]
    BY <2>4
  <2>8. TurnRuns(t) \in SUBSET TurnRuns(t)' /\ IsFiniteSet(TurnRuns(t)')
    BY <1>2, <2>1
  <2>9. Over(g, TurnRuns(t)') = Over(Com, TurnRuns(t))
    BY <2>3, <2>6, <2>7, <2>8, SumWiden
  <2> QED
    BY <2>5, <2>9, SpendOver
<1>4. ASSUME NEW t \in Seqs PROVE TurnStep(t)
  <2>1. Reserved(t) => Spend(t) <= turns[t].reserved
    BY <1>1 DEF Covered
  <2> QED
    BY <1>3, <2>1 DEF TurnStep, SameTurn
<1> QED
  BY <1>2, <1>4 DEF Grown

\* The sweep of Turn t, whatever else happens to fields that are not the ledger's.
LEMMA SweepGrown ==
  ASSUME LedgerInv, Shapes', NEW t \in Seqs, NEW phase, phase = 0 => turns[t].phase = 0,
         NEW turn, SweepStep(t, phase, runs', turn), SameTurn(turn, turns'[t]),
         \A s \in Seqs : s # t => SameTurn(turns[s], turns'[s]),
         Len(turns') \in {Len(turns), Len(turns) + 1}, \A s \in Seqs' \ Seqs : FreshTurn(s)
  PROVE  Grown
<1>1. Shapes /\ Owned /\ AbsenceBehind /\ Charges /\ Covered /\ Undecided
  BY DEF LedgerInv
<1>2. /\ Ids = 1 .. Len(runs) /\ Ids' = 1 .. Len(runs') /\ Len(runs') = Len(runs) /\ Len(runs) \in Nat
      /\ \A s : TurnRuns(s) \in SUBSET Ids /\ TurnRuns(s)' \in SUBSET Ids'
      /\ \A r \in Ids : runs[r] \in RunRow
  BY <1>1, Lengths, LengthsNext, Rows DEF SweepStep
<1>3. ASSUME NEW r \in Ids PROVE RunStep(r)
  <2>1. /\ SameButCharge(runs[r], runs'[r])
        /\ \/ runs'[r].spent = runs[r].spent /\ runs'[r].amt = runs[r].amt
           \/ /\ r \in TurnRuns(t) /\ runs[r].spent = "none"
              /\ \/ runs'[r].spent = "unresolved" /\ runs'[r].amt = runs[r].amt
                 \/ runs'[r].spent = "committed"
        /\ runs[r].canon # None => runs'[r].canon = runs[r].canon
        /\ runs'[r].canon # None /\ runs[r].canon = None /\ runs[r].report = None =>
             r \in TurnRuns(t) /\ turn.st # "reserved"
    BY DEF SweepStep
  <2>2. /\ runs'[r].kind = runs[r].kind /\ runs'[r].turn = runs[r].turn /\ runs'[r].st = runs[r].st
        /\ runs'[r].report = runs[r].report /\ runs'[r].late = runs[r].late /\ runs'[r] \in RunRow
    BY <2>1 DEF SameButCharge
  <2>3. runs[r].amt \in Nat /\ runs'[r].amt \in Nat
    BY <1>2, <2>2 DEF RunRow
  <2>4. /\ runs[r].spent \in {"none", "unresolved"} => runs[r].amt = 0
        /\ runs[r].late => runs[r].canon # None
    BY <1>1 DEF Charges, AbsenceBehind
  <2>5. runs[r].amt <= runs'[r].amt /\ (runs'[r].spent \in {"none", "unresolved"} => runs'[r].amt = 0)
    BY <2>1, <2>3, <2>4
  <2>6. runs'[r].spent # "none" => runs[r].spent # "none" \/ \E s \in Seqs : r \in TurnRuns(s)
    BY <2>1
  <2>7. /\ runs'[r].late => runs'[r].canon # None
        /\ runs'[r].canon # None /\ runs'[r].report = None =>
             \/ runs[r].canon # None /\ runs[r].report = None
             \/ \E s \in Seqs : r \in TurnRuns(s) /\ turns'[s].st # "reserved"
    BY <2>1, <2>2, <2>4 DEF SameTurn
  <2> QED
    BY <2>2, <2>5, <2>6, <2>7 DEF RunStep, Live
<1>4. ASSUME NEW s \in Seqs PROVE TurnRuns(s)' = TurnRuns(s)
  <2>1. turns'[s].src = turns[s].src
    BY DEF SameTurn, SweepStep
  <2>2. \A r \in Ids : runs'[r].turn = runs[r].turn
    BY <1>3 DEF RunStep
  <2> QED
    BY <1>2, <2>1, <2>2 DEF TurnRuns
<1>5. TurnStep(t)
  <2>1. (Spend(t))' = Spent(runs', TurnRuns(t))
    BY <1>4 DEF Spend
  <2>2. Reserved(t) => Spend(t) <= turns[t].reserved
    BY <1>1 DEF Covered
  <2>3. turns'[t].phase = 0 => turns[t].phase = 0 /\ turns'[t].st = turns[t].st
    <3> SUFFICES ASSUME turns'[t].phase = 0 PROVE turns[t].phase = 0 /\ turns'[t].st = turns[t].st
      OBVIOUS
    <3>1. turn.phase = 0 /\ phase = 0 /\ turns[t].phase = 0
      BY DEF SweepStep, SameTurn
    <3> QED
      BY <3>1 DEF SweepStep, SameTurn
  <2> QED
    BY <2>1, <2>2, <2>3 DEF TurnStep, SweepStep, SameTurn
<1>6. ASSUME NEW s \in Seqs, s # t PROVE TurnStep(s)
  <2>1. SameTurn(turns[s], turns'[s]) /\ (Reserved(s) => Spend(s) <= turns[s].reserved)
    BY <1>1, <1>6 DEF Covered
  <2>2. \A r \in TurnRuns(s) : runs'[r].spent = runs[r].spent /\ runs'[r].amt = runs[r].amt
    <3>1. TurnRuns(s) \cap TurnRuns(t) = {}
      BY <1>1, <1>6, Disjoint
    <3> QED
      BY <1>2, <3>1 DEF SweepStep
  <2>3. [r \in TurnRuns(s) |-> IF runs'[r].spent = "committed" THEN runs'[r].amt ELSE 0]
          = [r \in TurnRuns(s) |-> IF runs[r].spent = "committed" THEN runs[r].amt ELSE 0]
    BY <2>2
  <2>4. Spent(runs', TurnRuns(s)) = Spent(runs, TurnRuns(s))
    BY <2>3 DEF Spent
  <2>5. (Spend(s))' = Spend(s)
    BY <1>4, <2>4 DEF Spend
  <2> QED
    BY <2>1, <2>5 DEF TurnStep, SameTurn
<1>7. \A s \in Seqs : TurnStep(s)
  BY <1>5, <1>6
<1> QED
  BY <1>2, <1>3, <1>7 DEF Grown

-----------------------------------------------------------------------------
(* The actions                                                              *)

CoKept ==
  /\ co' \in CoRow /\ co'.cur \in 0 .. Len(runs')
  /\ co'.act = "retry_worker" => co'.retryOf \in Ids /\ runs[co'.retryOf].kind = "worker"
TodoKept == todo' \in TodoRow /\ todo'.seq \in 0 .. Len(turns')
NewHooks ==
  \A h \in hooks' \ hooks :
    h[1] \in Ids /\ ~Live(h[1]) /\ (h[2] \in SourceSteps => runs[h[1]].kind = "source")

\* What a step other than an admission is to be shown.
Kept == Shapes' /\ HooksEnded' /\ Grown

LEMMA ShapesNext ==
  ASSUME Shapes, runs' \in Seq(RunRow), turns' \in Seq(TurnRow), Len(runs) <= Len(runs'),
         \A r \in Ids : runs'[r].kind = runs[r].kind, CoKept, TodoKept
  PROVE  Shapes'
<1>1. Ids \subseteq Ids'
  <2>1. Len(runs) \in Nat /\ Len(runs') \in Nat
    BY Lengths
  <2> QED
    BY <2>1 DEF Ids
<1> QED
  BY <1>1 DEF Shapes, CoKept, TodoKept

LEMMA HooksNext ==
  ASSUME LedgerInv, Shapes', Grown, \A r \in Ids : ~Live(r) => runs'[r].st # "live", NewHooks
  PROVE  HooksEnded'
<1>1. ASSUME NEW h \in hooks' \ hooks
      PROVE  /\ h[1] \in Ids /\ runs'[h[1]].st # "live"
             /\ h[2] \in SourceSteps => runs'[h[1]].kind = "source"
  <2>1. h[1] \in Ids /\ ~Live(h[1]) /\ (h[2] \in SourceSteps => runs[h[1]].kind = "source")
    BY DEF NewHooks
  <2>2. runs'[h[1]].kind = runs[h[1]].kind
    BY <2>1 DEF Grown, RunStep
  <2> QED
    BY <2>1, <2>2
<1> QED
  BY <1>1, HooksStep

\* New runs that carry no charge, beside rows that are left alone.
LEMMA QuietKept ==
  ASSUME LedgerInv, runs' \in Seq(RunRow), Len(runs) <= Len(runs'),
         \A r \in Ids : runs'[r] = runs[r], \A r \in Ids' \ Ids : FreshRun(r),
         turns' \in Seq(TurnRow), Len(turns') = Len(turns),
         \A t \in Seqs : SameTurn(turns[t], turns'[t]), CoKept, TodoKept, NewHooks
  PROVE  Kept
<1>1. Shapes
  BY DEF LedgerInv
<1>2. Shapes'
  BY <1>1, ShapesNext
<1>3. \A r \in Ids : RunStep(r) /\ SameCharge(r)
  BY SameRow
<1>4. Grown
  BY <1>2, <1>3, QuietStep
<1>5. \A r \in Ids : ~Live(r) => runs'[r].st # "live"
  BY DEF Live
<1> QED
  BY <1>2, <1>4, <1>5, HooksNext DEF Kept

SameLedger == turns' \in Seq(TurnRow) /\ Len(turns') = Len(turns) /\ \A t \in Seqs : SameTurn(turns[t], turns'[t])

LEMMA SameTurns ==
  ASSUME Shapes, UNCHANGED turns PROVE SameLedger
BY DEF SameLedger, SameTurn, Shapes

LEMMA StillKept ==
  ASSUME LedgerInv, UNCHANGED runs, SameLedger, CoKept, TodoKept, NewHooks
  PROVE  Kept
<1>1. runs' \in Seq(RunRow) /\ Len(runs) <= Len(runs') /\ Ids' = Ids
  BY DEF LedgerInv, Shapes, Ids
<1>2. \A r \in Ids : runs'[r] = runs[r]
  OBVIOUS
<1>3. \A r \in Ids' \ Ids : FreshRun(r)
  BY <1>1
<1> QED
  BY <1>1, <1>2, <1>3, QuietKept DEF SameLedger

LEMMA CoFields ==
  ASSUME Shapes
  PROVE  /\ co \in CoRow /\ co.cur \in 0 .. Len(runs) /\ Len(runs) \in Nat /\ Len(turns) \in Nat
         /\ co.act = "retry_worker" => co.retryOf \in Ids /\ runs[co.retryOf].kind = "worker"
         /\ todo \in TodoRow /\ todo.seq \in 0 .. Len(turns)
BY DEF Shapes

LEMMA RunsRows == ASSUME Shapes PROVE Len(runs) \in Nat /\ runs \in Seq(RunRow)
BY DEF Shapes

\* The row takes another state and another run, with its checkpoint or without.
CoMoved(y, x, n) == y \in CoRow /\ y.cur = n /\ y.retryOf = x.retryOf /\ y.act \in {x.act, ""}
CoTo(x, v, n) == [x EXCEPT !.st = v, !.cur = n]
CoCleared(x) == [x EXCEPT !.act = ""]

LEMMA CoMoves ==
  ASSUME NEW x \in CoRow, NEW v \in {"queued", "running", "waiting_retry", "blocked"}, NEW n \in Nat
  PROVE  /\ CoMoved(CoTo(x, v, n), x, n)
         /\ CoCleared(x) \in CoRow /\ CoMoved(CoTo(CoCleared(x), v, n), x, n)
<1>1. CoCleared(x) \in CoRow /\ CoCleared(x).act = "" /\ CoCleared(x).retryOf = x.retryOf
  BY DEF CoCleared, CoRow
<1>2. ASSUME NEW z \in CoRow
      PROVE  /\ CoTo(z, v, n) \in CoRow /\ CoTo(z, v, n).cur = n
             /\ CoTo(z, v, n).act = z.act /\ CoTo(z, v, n).retryOf = z.retryOf
  BY DEF CoTo, CoRow
<1> QED
  BY <1>1, <1>2 DEF CoMoved

\* The checkpoint of such a row is one that was there.
LEMMA CoMovedKept ==
  ASSUME Shapes, NEW n, CoMoved(co', co, n), n \in 0 .. Len(runs')
  PROVE  CoKept
BY CoFields DEF CoKept, CoMoved

\* A fresh run of a Turn, or a source.
NewRow(x, t) ==
  /\ x \in RunRow /\ x.spent = "none" /\ x.amt = 0 /\ x.canon = None /\ x.report = None /\ ~x.late
  /\ x.turn = t /\ (IF t = 0 THEN x.kind = "source" ELSE x.kind = "worker")
Renewed(x, n, m) == [x EXCEPT !.attempt = n, !.root = m]
Rooted(x, m) == [x EXCEPT !.root = m]

LEMMA NewRows ==
  ASSUME Shapes, NEW t \in Nat
  PROVE  /\ t # 0 => NewRow(NewRun("worker", t), t)
         /\ NewRow(NewRun("source", 0), 0)
<1>1. Len(runs) \in Nat
  BY RunsRows
<1>2. ASSUME t # 0 PROVE NewRow(NewRun("worker", t), t)
  BY <1>1, <1>2 DEF NewRow, NewRun, RunRow
<1>3. NewRow(NewRun("source", 0), 0)
  BY <1>1 DEF NewRow, NewRun, RunRow
<1> QED
  BY <1>2, <1>3

LEMMA NewRowsRenewed ==
  ASSUME NEW t, NEW n \in Nat, NEW m \in Nat, NEW x, NewRow(x, t)
  PROVE  NewRow(Renewed(x, n, m), t) /\ NewRow(Rooted(x, m), t)
<1>1. NewRow(Renewed(x, n, m), t)
  BY DEF NewRow, RunRow, Renewed
<1>2. NewRow(Rooted(x, m), t)
  BY DEF NewRow, RunRow, Rooted
<1> QED
  BY <1>1, <1>2

\* One new run, of a Turn whose plan is decided or of none.
LEMMA AppendKept ==
  ASSUME LedgerInv, NEW x, NEW t, NewRow(x, t), t # 0 => t \in Seqs /\ turns'[t].phase # 0,
         runs' = Append(runs, x), SameLedger, CoKept, TodoKept, NewHooks
  PROVE  Kept
<1>1. Shapes
  BY DEF LedgerInv
<1>2. runs \in Seq(RunRow) /\ Len(runs) \in Nat
  BY <1>1, RunsRows
<1>3. /\ runs' \in Seq(RunRow) /\ Len(runs') = Len(runs) + 1
      /\ \A r \in 1 .. Len(runs) : runs'[r] = runs[r]
      /\ runs'[Len(runs) + 1] = x
  <2>1. x \in RunRow
    BY DEF NewRow
  <2> QED
    BY <1>2, <2>1
<1>4. Ids = 1 .. Len(runs) /\ \A r \in Ids' \ Ids : r = Len(runs) + 1
  BY <1>2, <1>3 DEF Ids
<1>5. \A r \in Ids' \ Ids : FreshRun(r)
  <2> SUFFICES ASSUME NEW r, runs'[r] = x PROVE FreshRun(r)
    BY <1>3, <1>4
  <2> QED
    BY DEF FreshRun, NewRow
<1>6. Len(runs) <= Len(runs')
  BY <1>2, <1>3
<1>7. \A r \in Ids : runs'[r] = runs[r]
  BY <1>3, <1>4
<1> QED
  BY <1>3, <1>5, <1>6, <1>7, QuietKept DEF SameLedger

LEMMA AppendLength ==
  ASSUME Shapes, NEW x, NEW t, NewRow(x, t), runs' = Append(runs, x)
  PROVE  Len(runs') = Len(runs) + 1 /\ Len(runs) + 1 \in Nat /\ Len(runs) + 1 \in 0 .. Len(runs')
<1>1. runs \in Seq(RunRow) /\ Len(runs) \in Nat /\ x \in RunRow
  BY RunsRows DEF NewRow
<1>2. Len(runs') = Len(runs) + 1
  BY <1>1
<1> QED
  BY <1>1, <1>2

\* The checkpoint is kept, or forgotten.
LEMMA CoSame ==
  ASSUME Shapes, UNCHANGED co, Len(runs) <= Len(runs'), Len(runs') \in Nat PROVE CoKept
<1>1. Len(runs) \in Nat
  BY DEF Shapes
<1>2. /\ co \in CoRow /\ co.cur \in 0 .. Len(runs)
      /\ co.act = "retry_worker" => co.retryOf \in Ids /\ runs[co.retryOf].kind = "worker"
  BY DEF Shapes
<1>3. co.cur \in 0 .. Len(runs')
  BY <1>1, <1>2
<1> QED
  BY <1>2, <1>3 DEF CoKept

LEMMA TodoSame ==
  ASSUME Shapes, UNCHANGED todo, Len(turns) <= Len(turns'), Len(turns') \in Nat PROVE TodoKept
<1>1. Len(turns) \in Nat
  BY DEF Shapes
<1> QED
  BY <1>1 DEF TodoKept, Shapes, TodoRow

LEMMA BlockKept ==
  ASSUME Shapes, Block, Len(runs') \in Nat, Len(turns') \in Nat, Len(turns) <= Len(turns')
  PROVE  CoKept /\ TodoKept
<1>1. Len(turns) \in Nat
  BY DEF Shapes
<1>2. CoKept
  <2>1. /\ co \in CoRow
        /\ co.act = "retry_worker" => co.retryOf \in Ids /\ runs[co.retryOf].kind = "worker"
    BY DEF Shapes
  <2>2. co' \in CoRow /\ co'.cur = 0 /\ co'.act = co.act /\ co'.retryOf = co.retryOf
    BY <2>1 DEF Block, CoRow
  <2> QED
    BY <2>1, <2>2 DEF CoKept
<1>3. TodoKept
  BY <1>1 DEF TodoKept, Shapes, TodoRow, Block
<1> QED
  BY <1>2, <1>3

LEMMA NoNewHooks == ASSUME hooks' \subseteq hooks PROVE NewHooks
BY DEF NewHooks

LEMMA FirstHooks ==
  ASSUME NEW r \in Ids, ~Live(r), NEW st, hooks' = hooks \cup {FirstStep(r, st)}
  PROVE  NewHooks
<1> DEFINE f == FirstStep(r, st)
<1>1. f[1] = r /\ (f[2] \in SourceSteps => runs[r].kind = "source")
  BY DEF FirstStep, SourceSteps
<1>2. hooks' = hooks \cup {f}
  OBVIOUS
<1> HIDE DEF f
<1> QED
  BY <1>1, <1>2 DEF NewHooks

LEMMA StepHooks ==
  ASSUME LedgerInv, NEW r, NEW step, NEW next, Step(r, step, next),
         next \in SourceSteps => step \in SourceSteps
  PROVE  NewHooks /\ r \in Ids /\ ~Live(r) /\ (step \in SourceSteps => runs[r].kind = "source")
<1> DEFINE h == <<r, step>>
           f == <<r, next>>
<1>1. h \in hooks /\ hooks' = (hooks \ {h}) \cup {f} /\ h[1] = r /\ h[2] = step /\ f[1] = r /\ f[2] = next
  BY DEF Step
<1> HIDE DEF h, f
<1>2. r \in Ids /\ ~Live(r) /\ (step \in SourceSteps => runs[r].kind = "source")
  BY <1>1 DEF LedgerInv, HooksEnded
<1>3. NewHooks
  BY <1>1, <1>2 DEF NewHooks
<1> QED
  BY <1>2, <1>3

LEMMA UnblockKept == ASSUME LedgerInv, Unblock PROVE Kept
<1>1. Shapes
  BY DEF LedgerInv
<1>2. UNCHANGED <<turns, runs, hooks>>
  BY DEF Unblock
<1>3. CoKept
  <2>1. co' \in CoRow /\ co'.cur = co.cur /\ co'.act = co.act /\ co'.retryOf = co.retryOf
    BY <1>1, CoFields DEF Unblock, CoRow
  <2> QED
    BY <1>1, <1>2, <2>1, CoFields DEF CoKept
<1>4. TodoKept
  BY <1>1, <1>2, CoFields DEF Unblock, TodoKept, TodoRow
<1> QED
  BY <1>1, <1>2, <1>3, <1>4, NoNewHooks, SameTurns, StillKept

LEMMA CrashKept == ASSUME LedgerInv, Crash PROVE Kept
<1>1. Shapes /\ UNCHANGED <<turns, runs, todo, co>> /\ hooks' \subseteq hooks
  BY DEF LedgerInv, Crash
<1>2. CoKept /\ TodoKept
  BY <1>1, CoSame, TodoSame, CoFields
<1> QED
  BY <1>1, <1>2, NoNewHooks, SameTurns, StillKept

LEMMA StutterKept == ASSUME LedgerInv, UNCHANGED qvars PROVE Kept
<1>1. Shapes /\ UNCHANGED <<turns, runs, todo, co>> /\ hooks' \subseteq hooks
  BY DEF LedgerInv, qvars
<1>2. CoKept /\ TodoKept
  BY <1>1, CoSame, TodoSame, CoFields
<1> QED
  BY <1>1, <1>2, NoNewHooks, SameTurns, StillKept

\* A source run takes the control line.
LEMMA SourceKept ==
  ASSUME LedgerInv, NEW row, row = co \/ row = CoCleared(co), NewSource(row), SameLedger, TodoKept, NewHooks
  PROVE  Kept
<1>1. Shapes
  BY DEF LedgerInv
<1> DEFINE x == NewRun("source", 0)
<1>2. NewRow(x, 0)
  BY <1>1, NewRows
<1>3. runs' = Append(runs, x) /\ co' = CoTo(row, "running", Len(runs) + 1)
  BY DEF NewSource, CoTo
<1> HIDE DEF x
<1>4. Len(runs) + 1 \in Nat /\ Len(runs) + 1 \in 0 .. Len(runs')
  BY <1>1, <1>2, <1>3, AppendLength
<1>5. CoMoved(co', co, Len(runs) + 1)
  <2>1. co \in CoRow
    BY <1>1, CoFields
  <2> QED
    BY <1>3, <1>4, <2>1, CoMoves
<1>6. CoKept
  BY <1>1, <1>4, <1>5, CoMovedKept
<1> QED
  BY <1>2, <1>3, <1>6, AppendKept

LEMMA StartRetryKept ==
  ASSUME LedgerInv, StartRetry, UNCHANGED <<turns, todo, hooks>>
  PROVE  Kept
<1>1. Shapes /\ Owned /\ Undecided
  BY DEF LedgerInv
<1>2. SameLedger /\ NewHooks
  BY <1>1, SameTurns, NoNewHooks
<1>3. TodoKept
  BY <1>1, TodoSame, CoFields
<1>4. CASE UNCHANGED <<runs, co>>
  <2>1. CoKept
    BY <1>1, <1>4, CoSame, CoFields
  <2> QED
    BY <1>2, <1>3, <1>4, <2>1, StillKept
<1>5. CASE ~UNCHANGED <<runs, co>>
  <2> DEFINE old == runs[co.retryOf]
             y == NewRun("worker", old.turn)
             x == Renewed(y, old.attempt + 1, old.root)
  <2>1. /\ co.act = "retry_worker" /\ runs' = Append(runs, x)
        /\ co' = CoTo(co, "running", Len(runs) + 1)
    BY <1>5 DEF StartRetry, CoTo, Renewed
  <2>2. co.retryOf \in Ids /\ old.kind = "worker" /\ old \in RunRow
    BY <1>1, <2>1, CoFields, Rows
  <2>3. old.turn \in Nat /\ old.attempt + 1 \in Nat /\ old.root \in Nat
    BY <2>2 DEF RunRow
  <2>4. old.turn \in Seqs /\ old.turn # 0
    <3>1. old.turn \in 0 .. Len(turns) /\ old.turn # 0
      BY <1>1, <2>2 DEF Owned
    <3> QED
      BY <1>1, <3>1, CoFields DEF Seqs
  <2>5. turns'[old.turn].phase # 0
    BY <1>1, <2>2, <2>4 DEF Undecided
  <2> HIDE DEF old
  <2>6. NewRow(y, old.turn)
    BY <1>1, <2>3, <2>4, NewRows
  <2> HIDE DEF y
  <2>7. NewRow(x, old.turn)
    BY <2>3, <2>6, NewRowsRenewed
  <2> HIDE DEF x
  <2>8. Len(runs) + 1 \in Nat /\ Len(runs) + 1 \in 0 .. Len(runs')
    BY <1>1, <2>1, <2>7, AppendLength
  <2>9. CoMoved(co', co, Len(runs) + 1)
    <3>1. co \in CoRow /\ co' = CoTo(co, "running", Len(runs) + 1)
      BY <1>1, <2>1, CoFields
    <3> QED
      BY <2>8, <3>1, CoMoves
  <2>10. CoKept
    BY <1>1, <2>8, <2>9, CoMovedKept
  <2> QED
    BY <1>2, <1>3, <2>1, <2>4, <2>5, <2>7, <2>10, AppendKept
<1> QED
  BY <1>4, <1>5

LEMMA StartDecideKept == ASSUME LedgerInv, StartDecide PROVE Kept
<1>1. Shapes /\ UNCHANGED turns
  BY DEF LedgerInv, StartDecide
<1>2. SameLedger
  BY <1>1, SameTurns
<1>3. CASE StartRetry /\ UNCHANGED <<todo, hooks, used>>
  BY <1>1, <1>3, StartRetryKept
<1>4. CASE /\ co.cur # 0 /\ ~Live(co.cur)
           /\ hooks' = hooks \cup {FirstStep(co.cur, runs[co.cur].st)}
           /\ UNCHANGED <<runs, todo, co>>
  <2>1. co.cur \in Ids
    BY <1>1, <1>4, CoFields DEF Ids
  <2>2. NewHooks
    BY <1>4, <2>1, FirstHooks
  <2>3. CoKept /\ TodoKept
    BY <1>1, <1>4, CoSame, TodoSame, CoFields
  <2> QED
    BY <1>2, <1>4, <2>2, <2>3, StillKept
<1>5. CASE NewSource([co EXCEPT !.act = ""]) /\ UNCHANGED todo /\ UNCHANGED <<hooks, used>>
  <2> DEFINE row == CoCleared(co)
  <2>1. NewSource(row) /\ UNCHANGED <<todo, hooks>>
    BY <1>5 DEF CoCleared
  <2> HIDE DEF row
  <2>2. TodoKept /\ NewHooks
    BY <1>1, <2>1, TodoSame, CoFields, NoNewHooks
  <2> QED
    BY <1>2, <2>1, <2>2, SourceKept DEF row
<1>6. CASE Block /\ UNCHANGED runs /\ UNCHANGED <<hooks, used>>
  <2>1. CoKept /\ TodoKept /\ NewHooks
    BY <1>1, <1>6, BlockKept, CoFields, NoNewHooks
  <2> QED
    BY <1>2, <1>6, <2>1, StillKept
<1> QED
  BY <1>3, <1>4, <1>5, <1>6 DEF StartDecide

\* Marks of a receipt that are not the ledger's.
WithBatch(x, v) == [x EXCEPT !.batch = v]
WithPend(x, p) == [x EXCEPT !.pend = p]
WithRejected(x, p) == [x EXCEPT !.rejected = p]

LEMMA TurnMarks ==
  ASSUME NEW x \in TurnRow
  PROVE  /\ \A v \in {"open", "collecting", "done"} : WithBatch(x, v) \in TurnRow /\ SameTurn(x, WithBatch(x, v))
         /\ \A p \in BOOLEAN : WithPend(x, p) \in TurnRow /\ SameTurn(x, WithPend(x, p))
         /\ \A p \in BOOLEAN : WithRejected(x, p) \in TurnRow /\ SameTurn(x, WithRejected(x, p))
         /\ \A p \in {1, 3, 5, 6} : AtPhase(x, p) \in TurnRow /\ SameTurn(x, AtPhase(x, p)) /\ AtPhase(x, p).phase = p
<1>1. \A v \in {"open", "collecting", "done"} : WithBatch(x, v) \in TurnRow /\ SameTurn(x, WithBatch(x, v))
  BY DEF WithBatch, SameTurn, TurnRow
<1>2. \A p \in BOOLEAN : WithPend(x, p) \in TurnRow /\ SameTurn(x, WithPend(x, p))
  BY DEF WithPend, SameTurn, TurnRow
<1>3. \A p \in BOOLEAN : WithRejected(x, p) \in TurnRow /\ SameTurn(x, WithRejected(x, p))
  BY DEF WithRejected, SameTurn, TurnRow
<1>4. \A p \in {1, 3, 5, 6} : AtPhase(x, p) \in TurnRow /\ SameTurn(x, AtPhase(x, p)) /\ AtPhase(x, p).phase = p
  BY DEF AtPhase, SameTurn, TurnRow
<1> QED
  BY <1>1, <1>2, <1>3, <1>4

LEMMA SameTurnTrans ==
  ASSUME NEW x, NEW y, NEW z, SameTurn(x, y), SameTurn(y, z) PROVE SameTurn(x, z)
BY DEF SameTurn

LEMMA TurnsPut ==
  ASSUME Shapes, NEW t \in Seqs, NEW y \in TurnRow, SameTurn(turns[t], y), turns' = [turns EXCEPT ![t] = y]
  PROVE  SameLedger /\ turns'[t] = y
<1>1. turns \in Seq(TurnRow) /\ Len(turns) \in Nat /\ Seqs = 1 .. Len(turns)
  BY DEF Shapes, Seqs
<1>2. turns' \in Seq(TurnRow) /\ Len(turns') = Len(turns) /\ turns'[t] = y
  BY <1>1
<1>3. \A s \in Seqs : s # t => turns'[s] = turns[s]
  BY <1>1
<1>4. \A s \in Seqs : SameTurn(turns[s], turns'[s])
  BY <1>2, <1>3 DEF SameTurn
<1> QED
  BY <1>2, <1>4 DEF SameLedger

LEMMA TurnsMap ==
  ASSUME Shapes, NEW g, \A s \in Seqs : g[s] \in TurnRow /\ SameTurn(turns[s], g[s]),
         turns' = [s \in Seqs |-> g[s]]
  PROVE  SameLedger
<1>1. turns \in Seq(TurnRow) /\ Len(turns) \in Nat /\ Seqs = 1 .. Len(turns)
  BY DEF Shapes, Seqs
<1>2. turns' \in [1 .. Len(turns) -> TurnRow]
  BY <1>1
<1>3. turns' \in Seq(TurnRow) /\ Len(turns') = Len(turns)
  BY <1>1, <1>2
<1>4. \A s \in Seqs : SameTurn(turns[s], turns'[s])
  OBVIOUS
<1> QED
  BY <1>3, <1>4 DEF SameLedger

LEMMA WakeKept == ASSUME LedgerInv, NEW t \in Seqs, Wake(t) PROVE Kept
<1>1. Shapes
  BY DEF LedgerInv
<1>2. SameLedger
  <2>1. turns[t] \in TurnRow /\ turns' = [turns EXCEPT ![t] = WithBatch(turns[t], "done")]
    BY <1>1, Rows DEF Wake, WithBatch
  <2> QED
    BY <1>1, <2>1, TurnMarks, TurnsPut
<1>3. NewSource(co) /\ UNCHANGED <<todo, hooks>>
  BY DEF Wake
<1>4. TodoKept /\ NewHooks
  <2>1. Len(turns') = Len(turns)
    BY <1>2 DEF SameLedger
  <2> QED
    BY <1>1, <1>3, <2>1, TodoSame, CoFields, NoNewHooks
<1> QED
  BY <1>2, <1>3, <1>4, SourceKept

LEMMA ApproveKept == ASSUME LedgerInv, NEW t \in Seqs, Approve(t) PROVE Kept
<1>1. Shapes
  BY DEF LedgerInv
<1>2. turns[t] \in TurnRow /\ t \in Nat /\ t # 0
  BY <1>1, Rows, Lengths
<1> DEFINE y == WithBatch(WithPend(turns[t], FALSE), IF turns[t].batch = "done" THEN "open" ELSE turns[t].batch)
<1>3. y \in TurnRow /\ SameTurn(turns[t], y)
  <2> DEFINE z == WithPend(turns[t], FALSE)
             v == IF turns[t].batch = "done" THEN "open" ELSE turns[t].batch
  <2>1. z \in TurnRow /\ SameTurn(turns[t], z)
    BY <1>2, TurnMarks
  <2>2. v \in {"open", "collecting", "done"}
    BY <1>2 DEF TurnRow
  <2>3. y = WithBatch(z, v)
    OBVIOUS
  <2> HIDE DEF y, z, v
  <2>4. WithBatch(z, v) \in TurnRow /\ SameTurn(z, WithBatch(z, v))
    BY <2>1, <2>2, TurnMarks
  <2> QED
    BY <2>1, <2>3, <2>4, SameTurnTrans
<1>4. turns' = [turns EXCEPT ![t] = y]
  BY <1>1, <1>2 DEF Approve, WithBatch, WithPend, TurnRow
<1> HIDE DEF y
<1>5. SameLedger /\ turns'[t] = y
  BY <1>1, <1>3, <1>4, TurnsPut
<1>6. turns'[t].phase # 0
  <2>1. turns[t].phase >= 3
    BY DEF Approve
  <2> QED
    BY <1>3, <1>5, <2>1 DEF SameTurn
<1>7. UNCHANGED <<todo, co, hooks>> /\ runs' = Append(runs, NewRun("worker", t))
  BY DEF Approve
<1>8. NewRow(NewRun("worker", t), t)
  BY <1>1, <1>2, NewRows
<1>9. Len(runs') = Len(runs) + 1 /\ Len(runs) \in Nat
  BY <1>1, <1>7, <1>8, AppendLength, RunsRows
<1>10. CoKept /\ NewHooks
  <2>1. Len(runs') \in Nat /\ Len(runs) <= Len(runs')
    BY <1>9
  <2> QED
    BY <1>1, <1>7, <2>1, CoSame, NoNewHooks
<1>11. TodoKept
  <2>1. Len(turns') = Len(turns)
    BY <1>5 DEF SameLedger
  <2> QED
    BY <1>1, <1>7, <2>1, TodoSame, CoFields
<1> QED
  BY <1>5, <1>6, <1>7, <1>8, <1>10, <1>11, AppendKept

LEMMA RejectKept == ASSUME LedgerInv, NEW t \in Seqs, Reject(t) PROVE Kept
<1>1. Shapes /\ UNCHANGED <<runs, todo, co, hooks>>
  BY DEF LedgerInv, Reject
<1>2. turns[t] \in TurnRow
  BY <1>1, Rows
<1> DEFINE z == WithPend(turns[t], FALSE)
           y == WithRejected(z, TRUE)
<1>3. turns' = [turns EXCEPT ![t] = y]
  BY <1>1, <1>2 DEF Reject, WithPend, WithRejected, TurnRow
<1>4. z \in TurnRow /\ SameTurn(turns[t], z)
  BY <1>2, TurnMarks
<1> HIDE DEF z
<1>5. y \in TurnRow /\ SameTurn(z, y)
  BY <1>4, TurnMarks
<1> HIDE DEF y
<1>6. SameLedger
  BY <1>1, <1>3, <1>4, <1>5, SameTurnTrans, TurnsPut
<1>7. CoKept /\ NewHooks
  BY <1>1, CoSame, CoFields, NoNewHooks
<1>8. TodoKept
  <2>1. Len(turns') = Len(turns)
    BY <1>6 DEF SameLedger
  <2> QED
    BY <1>1, <2>1, TodoSame, CoFields
<1> QED
  BY <1>1, <1>6, <1>7, <1>8, StillKept

\* One row changes, and nothing is charged.
LEMMA RowKept ==
  ASSUME LedgerInv, NEW r \in Ids, NEW y \in RunRow, runs' = [runs EXCEPT ![r] = y],
         RunStep(r), SameCharge(r), UNCHANGED <<turns, todo, co>>,
         \A h \in hooks' \ hooks :
           /\ h[1] \in Ids /\ runs'[h[1]].st # "live"
           /\ h[2] \in SourceSteps => runs'[h[1]].kind = "source"
  PROVE  Kept
<1>1. Shapes
  BY DEF LedgerInv
<1>2. runs \in Seq(RunRow) /\ Len(runs) \in Nat /\ Ids = 1 .. Len(runs)
  BY <1>1, RunsRows DEF Ids
<1>3. /\ runs' \in Seq(RunRow) /\ Len(runs') = Len(runs) /\ Ids' = Ids
      /\ \A q \in Ids : q # r => runs'[q] = runs[q]
  BY <1>2 DEF Ids
<1>4. \A q \in Ids : RunStep(q) /\ SameCharge(q)
  BY <1>3, SameRow
<1>5. SameLedger
  BY <1>1, SameTurns
<1>6. CoKept /\ TodoKept
  <2>1. Len(runs') \in Nat /\ Len(runs) <= Len(runs')
    BY <1>2, <1>3
  <2> QED
    BY <1>1, <2>1, CoSame, TodoSame, CoFields
<1>7. Shapes'
  <2>1. \A q \in Ids : runs'[q].kind = runs[q].kind
    BY <1>4 DEF RunStep
  <2>2. Len(runs) <= Len(runs')
    BY <1>2, <1>3
  <2> QED
    BY <1>1, <1>3, <1>5, <1>6, <2>1, <2>2, ShapesNext DEF SameLedger
<1>8. Grown
  <2>1. \A q \in Ids' \ Ids : FreshRun(q)
    BY <1>3
  <2>2. Len(runs) <= Len(runs')
    BY <1>2, <1>3
  <2> QED
    BY <1>4, <1>5, <1>7, <2>1, <2>2, QuietStep DEF SameLedger
<1>9. HooksEnded'
  BY <1>7, <1>8, HooksStep
<1> QED
  BY <1>7, <1>8, <1>9 DEF Kept

\* What an end, a report, a refused report and a reconciliation write.
Ended(x, v, a) == [x EXCEPT !.st = v, !.report = a]
Reported(x, a) == [x EXCEPT !.report = a, !.canon = a]
Late(x) == [x EXCEPT !.late = TRUE]
Reconciled(x, a) == [x EXCEPT !.spent = "reconciled", !.amt = a]

LEMMA EndedRow ==
  ASSUME NEW x \in RunRow, NEW v \in Outcomes, NEW a \in Amounts \cup {None}, NEW y, y = Ended(x, v, a)
  PROVE  /\ y \in RunRow /\ y.kind = x.kind /\ y.turn = x.turn /\ y.st = v /\ y.report = a
         /\ y.canon = x.canon /\ y.late = x.late /\ y.spent = x.spent /\ y.amt = x.amt
BY DEF Ended, RunRow

LEMMA ReportedRow ==
  ASSUME QuotaAssumption, NEW x \in RunRow, NEW a \in Amounts, NEW y, y = Reported(x, a)
  PROVE  /\ y \in RunRow /\ y.kind = x.kind /\ y.turn = x.turn /\ y.st = x.st /\ y.report = a
         /\ y.canon = a /\ y.late = x.late /\ y.spent = x.spent /\ y.amt = x.amt
BY DEF Reported, RunRow

LEMMA LateRow ==
  ASSUME NEW x \in RunRow, NEW y, y = Late(x)
  PROVE  /\ y \in RunRow /\ y.kind = x.kind /\ y.turn = x.turn /\ y.st = x.st /\ y.report = x.report
         /\ y.canon = x.canon /\ y.late /\ y.spent = x.spent /\ y.amt = x.amt
BY DEF Late, RunRow

IsReconciled(y, x, a) ==
  /\ y \in RunRow /\ y.kind = x.kind /\ y.turn = x.turn /\ y.st = x.st /\ y.report = x.report
  /\ y.canon = x.canon /\ y.late = x.late /\ y.spent = "reconciled" /\ y.amt = a
LEMMA ReconciledRow ==
  ASSUME NEW x \in RunRow, NEW a \in Nat
  PROVE  IsReconciled(Reconciled(x, a), x, a)
BY DEF Reconciled, RunRow, IsReconciled

LEMMA EndRunKept ==
  ASSUME QuotaAssumption, LedgerInv, NEW r \in Ids, NEW v \in Outcomes, NEW a \in Amounts \cup {None},
         EndRun(r, v, a)
  PROVE  Kept
<1>1. Shapes /\ Silent /\ AbsenceBehind /\ Charges
  BY DEF LedgerInv
<1>2. runs[r] \in RunRow /\ runs \in Seq(RunRow) /\ Ids = 1 .. Len(runs)
  BY <1>1, Rows, RunsRows, Lengths
<1> DEFINE y == Ended(runs[r], v, a)
<1>3. /\ y \in RunRow /\ y.kind = runs[r].kind /\ y.turn = runs[r].turn /\ y.st = v /\ y.report = a
      /\ y.canon = runs[r].canon /\ y.late = runs[r].late /\ y.spent = runs[r].spent /\ y.amt = runs[r].amt
  BY <1>2, EndedRow
<1>4. runs' = [runs EXCEPT ![r] = y] /\ Live(r) /\ UNCHANGED <<turns, todo, co>>
  BY <1>2 DEF EndRun, Ended
<1> HIDE DEF y
<1>5. runs'[r] = y
  BY <1>2, <1>4
<1>6. v # "live"
  BY DEF QuotaAssumption
<1>7. runs[r].amt \in Nat
  BY <1>2 DEF RunRow
<1>8. runs[r].report = None
  BY <1>1, <1>4 DEF Silent
<1>9. RunStep(r)
  BY <1>1, <1>3, <1>5, <1>6, <1>7, <1>8 DEF RunStep, AbsenceBehind, Charges
<1>10. SameCharge(r)
  BY <1>3, <1>5 DEF SameCharge
<1>11. ASSUME NEW h \in hooks' \ hooks
       PROVE  /\ h[1] \in Ids /\ runs'[h[1]].st # "live"
              /\ h[2] \in SourceSteps => runs'[h[1]].kind = "source"
  <2>1. h = FirstStep(r, v)
    BY DEF EndRun
  <2>2. h[1] = r /\ (h[2] \in SourceSteps => runs[r].kind = "source")
    BY <2>1 DEF FirstStep, SourceSteps
  <2> QED
    BY <1>3, <1>5, <1>6, <2>2
<1> QED
  BY <1>3, <1>4, <1>9, <1>10, <1>11, RowKept

LEMMA ReportKept ==
  ASSUME QuotaAssumption, LedgerInv, NEW r \in Ids, NEW a \in Amounts, Report(r, a)
  PROVE  Kept
<1>1. Shapes /\ AbsenceBehind /\ Charges
  BY DEF LedgerInv
<1>2. runs[r] \in RunRow /\ runs \in Seq(RunRow) /\ Ids = 1 .. Len(runs)
  BY <1>1, Rows, RunsRows, Lengths
<1>3. a # None
  BY DEF QuotaAssumption, None
<1>4. ~Live(r) /\ runs[r].report = None /\ UNCHANGED <<turns, todo, co, hooks>>
  BY DEF Report
<1>5. runs[r].amt \in Nat
  BY <1>2 DEF RunRow
<1> DEFINE y == IF runs[r].canon # None THEN Late(runs[r]) ELSE Reported(runs[r], a)
<1>6. runs' = [runs EXCEPT ![r] = y]
  BY <1>2 DEF Report, Late, Reported
<1>7. /\ y \in RunRow /\ y.kind = runs[r].kind /\ y.turn = runs[r].turn /\ y.st = runs[r].st
      /\ y.spent = runs[r].spent /\ y.amt = runs[r].amt
      /\ y.canon # None /\ (y.report = None => runs[r].canon # None)
  <2>1. CASE runs[r].canon # None
    <3>1. y = Late(runs[r])
      BY <2>1
    <3> HIDE DEF y
    <3> QED
      BY <1>2, <2>1, <3>1, LateRow
  <2>2. CASE runs[r].canon = None
    <3>1. y = Reported(runs[r], a)
      BY <2>2
    <3> HIDE DEF y
    <3> QED
      BY <1>2, <1>3, <2>2, <3>1, ReportedRow
  <2> QED
    BY <2>1, <2>2
<1> HIDE DEF y
<1>8. runs'[r] = y
  BY <1>2, <1>6
<1>9. RunStep(r)
  BY <1>1, <1>4, <1>5, <1>7, <1>8 DEF RunStep, AbsenceBehind, Charges, Live
<1>10. SameCharge(r)
  BY <1>7, <1>8 DEF SameCharge
<1> QED
  BY <1>4, <1>6, <1>7, <1>9, <1>10, RowKept

LEMMA ReconcileKept ==
  ASSUME QuotaAssumption, LedgerInv, NEW r \in Ids, NEW a \in Amounts, Reconcile(r, a)
  PROVE  Kept
<1>1. Shapes /\ AbsenceBehind /\ Charges
  BY DEF LedgerInv
<1>2. runs[r] \in RunRow /\ runs \in Seq(RunRow) /\ Ids = 1 .. Len(runs)
  BY <1>1, Rows, RunsRows, Lengths
<1>3. a \in Nat
  BY DEF QuotaAssumption
<1>4. runs[r].spent = "unresolved" /\ UNCHANGED <<turns, todo, co, hooks>>
  BY DEF Reconcile
<1> DEFINE y == Reconciled(runs[r], a)
<1>5. runs' = [runs EXCEPT ![r] = y]
  BY <1>2 DEF Reconcile, Reconciled
<1>6. /\ y \in RunRow /\ y.kind = runs[r].kind /\ y.turn = runs[r].turn /\ y.st = runs[r].st
      /\ y.report = runs[r].report /\ y.canon = runs[r].canon /\ y.late = runs[r].late
      /\ y.spent = "reconciled" /\ y.amt = a
  <2>1. IsReconciled(y, runs[r], a)
    BY <1>2, <1>3, ReconciledRow
  <2> HIDE DEF y
  <2> QED
    BY <2>1 DEF IsReconciled
<1> HIDE DEF y
<1>7. runs'[r] = y
  BY <1>2, <1>5
<1>8. runs[r].amt = 0
  BY <1>1, <1>4 DEF Charges
<1>9. RunStep(r)
  BY <1>1, <1>3, <1>4, <1>6, <1>7, <1>8 DEF RunStep, AbsenceBehind, Charges, Live
<1>10. SameCharge(r)
  BY <1>4, <1>6, <1>7 DEF SameCharge
<1> QED
  BY <1>4, <1>5, <1>6, <1>9, <1>10, RowKept

LEMMA SweepKept ==
  ASSUME LedgerInv, NEW t \in Seqs, NEW phase, phase = 0 => turns[t].phase = 0,
         NEW turn, SweepStep(t, phase, runs', turn), SameTurn(turn, turns'[t]),
         \A s \in Seqs : s # t => SameTurn(turns[s], turns'[s]),
         turns' \in Seq(TurnRow), Len(turns') \in {Len(turns), Len(turns) + 1},
         \A s \in Seqs' \ Seqs : FreshTurn(s), CoKept, TodoKept, NewHooks
  PROVE  Kept
<1>1. Shapes
  BY DEF LedgerInv
<1>2. /\ runs' \in Seq(RunRow) /\ Len(runs') = Len(runs)
      /\ \A r \in Ids : SameButCharge(runs[r], runs'[r])
  BY DEF SweepStep
<1>3. \A r \in Ids : runs'[r].kind = runs[r].kind /\ runs'[r].st = runs[r].st
  BY <1>2 DEF SameButCharge
<1>4. Len(runs) <= Len(runs')
  BY <1>1, <1>2, RunsRows
<1>5. Shapes'
  BY <1>1, <1>2, <1>3, <1>4, ShapesNext
<1>6. Grown
  BY <1>5, SweepGrown
<1>7. \A r \in Ids : ~Live(r) => runs'[r].st # "live"
  BY <1>3 DEF Live
<1>8. HooksEnded'
  BY <1>5, <1>6, <1>7, HooksNext
<1> QED
  BY <1>5, <1>6, <1>8 DEF Kept

\* A sweep, with marks on the receipt that are not the ledger's.
LEMMA SweptKept ==
  ASSUME QuotaAssumption, LedgerInv, NEW t \in Seqs, NEW phase \in {0, 1, 3, 5, 6},
         phase = 0 => turns[t].phase = 0, NEW absent, NEW row, NEW sw, sw = Swept(t, phase, absent, row),
         NEW y \in TurnRow, SameTurn(sw.turn, y), runs' = sw.runs, turns' = [turns EXCEPT ![t] = y],
         UNCHANGED co \/ CoKept, UNCHANGED todo \/ TodoKept, NewHooks
  PROVE  Kept
<1>1. Shapes
  BY DEF LedgerInv
<1>2. SweepStep(t, phase, runs', sw.turn)
  BY <1>1, SweptStep
<1>3. turns \in Seq(TurnRow) /\ Len(turns) \in Nat /\ Seqs = 1 .. Len(turns)
  BY <1>1, Lengths DEF Shapes
<1>4. turns' \in Seq(TurnRow) /\ Len(turns') = Len(turns) /\ turns'[t] = y /\ Seqs' = Seqs
  BY <1>3 DEF Seqs
<1>5. \A s \in Seqs : s # t => SameTurn(turns[s], turns'[s])
  <2>1. \A s \in Seqs : s # t => turns'[s] = turns[s]
    BY <1>3
  <2> QED
    BY <2>1 DEF SameTurn
<1>6. CoKept
  <2>1. Len(runs') = Len(runs) /\ Len(runs) \in Nat
    BY <1>1, <1>2, RunsRows DEF SweepStep
  <2>2. Len(runs) <= Len(runs') /\ Len(runs') \in Nat
    BY <2>1
  <2> QED
    BY <1>1, <2>2, CoSame
<1>7. TodoKept
  <2>1. Len(turns) <= Len(turns') /\ Len(turns') \in Nat
    BY <1>3, <1>4
  <2> QED
    BY <1>1, <2>1, TodoSame
<1>8. \A s \in Seqs' \ Seqs : FreshTurn(s)
  BY <1>4
<1> QED
  BY <1>2, <1>4, <1>5, <1>6, <1>7, <1>8, SweepKept

LEMMA SweptTurn ==
  ASSUME QuotaAssumption, Shapes, NEW t \in Seqs, NEW phase \in {0, 1, 3, 5, 6}, NEW absent, NEW row,
         NEW sw, sw = Swept(t, phase, absent, row)
  PROVE  sw.turn \in TurnRow /\ SameTurn(sw.turn, sw.turn)
<1>1. SweepStep(t, phase, sw.runs, sw.turn)
  BY SweptStep
<1> QED
  BY <1>1 DEF SweepStep, SameTurn

LEMMA SweepAsKept ==
  ASSUME QuotaAssumption, LedgerInv, NEW t \in Seqs, NEW phase \in {0, 1, 3, 5, 6},
         phase = 0 => turns[t].phase = 0, NEW absent, SweepAs(t, phase, absent),
         UNCHANGED co, UNCHANGED todo \/ TodoKept, NewHooks
  PROVE  Kept
<1> DEFINE sw == Swept(t, phase, absent, co)
<1>1. runs' = sw.runs /\ turns' = [turns EXCEPT ![t] = sw.turn]
  BY DEF SweepAs
<1>2. Shapes
  BY DEF LedgerInv
<1>3. sw.turn \in TurnRow /\ SameTurn(sw.turn, sw.turn)
  BY <1>2, SweptTurn
<1>4. sw = Swept(t, phase, absent, co)
  OBVIOUS
<1> HIDE DEF sw
<1> QED
  BY <1>1, <1>3, <1>4, SweptKept

LEMMA PhaseOf == ASSUME Shapes, NEW t \in Seqs PROVE turns[t].phase \in {0, 1, 3, 5, 6}
BY Rows DEF TurnRow

LEMMA StartSweepKept == ASSUME QuotaAssumption, LedgerInv, StartSweep PROVE Kept
<1>1. Shapes /\ UNCHANGED <<todo, co, hooks>> /\ todo.seq # 0
  BY DEF LedgerInv, StartSweep
<1>2. todo.seq \in Seqs
  BY <1>1, CoFields DEF Seqs
<1>3. SweepAs(todo.seq, turns[todo.seq].phase, TRUE)
  BY DEF StartSweep, Sweep
<1>4. turns[todo.seq].phase \in {0, 1, 3, 5, 6} /\ NewHooks
  BY <1>1, <1>2, PhaseOf, NoNewHooks
<1> QED
  BY <1>1, <1>2, <1>3, <1>4, SweepAsKept

LEMMA PhasesKept == ASSUME QuotaAssumption, LedgerInv, NEW r \in Ids, Phases(r) PROVE Kept
<1>1. PICK t \in Turned(r) :
        /\ Step(r, "phases", "wait")
        /\ SweepAs(t, IF turns[t].phase = 3 THEN 5 ELSE turns[t].phase, TRUE)
        /\ UNCHANGED <<todo, co, used>>
  BY DEF Phases
<1>2. t \in Seqs /\ Shapes
  BY DEF Turned, LedgerInv
<1>3. NewHooks
  BY <1>1, StepHooks DEF SourceSteps
<1> DEFINE p == IF turns[t].phase = 3 THEN 5 ELSE turns[t].phase
<1>4. p \in {0, 1, 3, 5, 6} /\ (p = 0 => turns[t].phase = 0)
  <2>1. turns[t].phase \in {0, 1, 3, 5, 6}
    BY <1>2, PhaseOf
  <2> QED
    BY <2>1
<1>5. SweepAs(t, p, TRUE) /\ UNCHANGED <<todo, co>>
  BY <1>1
<1> HIDE DEF p
<1> QED
  BY <1>2, <1>3, <1>4, <1>5, SweepAsKept

LEMMA WaitKept == ASSUME QuotaAssumption, LedgerInv, NEW r \in Ids, Wait(r) PROVE Kept
<1>1. PICK t \in Turned(r) :
        /\ Step(r, "wait", "advance")
        /\ todo' = IF todo.seq = t /\ todo.st = "running" THEN [todo EXCEPT !.st = "waiting"] ELSE todo
        /\ IF todo.seq = t /\ todo.st \in {"pending", "blocked"}
           THEN UNCHANGED <<runs, turns>>
           ELSE Sweep(t, TRUE)
        /\ UNCHANGED <<co, used>>
  BY DEF Wait
<1>2. t \in Seqs /\ Shapes
  BY DEF Turned, LedgerInv
<1>3. NewHooks
  BY <1>1, StepHooks DEF SourceSteps
<1>4. CASE UNCHANGED <<runs, turns>> /\ UNCHANGED todo
  <2>1. CoKept /\ TodoKept /\ SameLedger
    BY <1>1, <1>2, <1>4, CoSame, TodoSame, CoFields, SameTurns
  <2> QED
    BY <1>3, <1>4, <2>1, StillKept
<1>5. CASE Sweep(t, TRUE)
  <2>1. turns[t].phase \in {0, 1, 3, 5, 6} /\ SweepAs(t, turns[t].phase, TRUE)
    BY <1>2, <1>5, PhaseOf DEF Sweep
  <2>2. Len(turns') = Len(turns) /\ Len(turns) \in Nat
    BY <1>2, <2>1, Lengths DEF SweepAs, Shapes
  <2>3. UNCHANGED todo \/ TodoKept
    <3>1. todo \in TodoRow /\ todo.seq \in 0 .. Len(turns')
      BY <1>2, <2>2, CoFields
    <3>2. CASE todo' = [todo EXCEPT !.st = "waiting"]
      BY <3>1, <3>2 DEF TodoKept, TodoRow
    <3> QED
      BY <1>1, <3>2
  <2> QED
    BY <1>1, <1>2, <1>3, <2>1, <2>3, SweepAsKept
<1>6. todo.seq = t /\ todo.st \in {"pending", "blocked"} => UNCHANGED todo
  BY <1>1
<1> QED
  BY <1>1, <1>4, <1>5, <1>6

LEMMA SettleRejectedKept == ASSUME QuotaAssumption, LedgerInv, NEW t \in Seqs, SettleRejected(t) PROVE Kept
<1>1. Shapes /\ UNCHANGED hooks
  BY DEF LedgerInv, SettleRejected
<1> DEFINE sw == Swept(t, turns[t].phase, TRUE, co)
           y == WithRejected(sw.turn, FALSE)
<1>2. turns[t].phase \in {0, 1, 3, 5, 6}
  BY <1>1, PhaseOf
<1>3. sw.turn \in TurnRow
  BY <1>1, <1>2, SweptTurn
<1>4. runs' = sw.runs /\ turns' = [turns EXCEPT ![t] = y]
  BY DEF SettleRejected, WithRejected
<1>5. sw = Swept(t, turns[t].phase, TRUE, co)
  OBVIOUS
<1> HIDE DEF sw
<1>6. y \in TurnRow /\ SameTurn(sw.turn, y)
  BY <1>3, TurnMarks
<1>7. NewHooks
  BY <1>1, NoNewHooks
<1>8. (UNCHANGED co /\ UNCHANGED todo) \/ (CoKept /\ TodoKept)
  <2>1. Len(turns') = Len(turns) /\ Len(turns) \in Nat
    BY <1>1, <1>4, Lengths DEF Shapes
  <2>2. SweepStep(t, turns[t].phase, runs', sw.turn)
    BY <1>1, <1>2, <1>4, <1>5, SweptStep
  <2>3. Len(runs') \in Nat
    BY <1>1, <2>2, RunsRows DEF SweepStep
  <2>4. CASE Block
    <3>1. Len(turns) <= Len(turns') /\ Len(turns') \in Nat
      BY <2>1
    <3> QED
      BY <1>1, <2>3, <2>4, <3>1, BlockKept
  <2> QED
    BY <2>4 DEF SettleRejected
<1> HIDE DEF y
<1> QED
  BY <1>2, <1>4, <1>5, <1>6, <1>7, <1>8, SweptKept

-----------------------------------------------------------------------------
(* The submission of a plan                                                 *)

LEMMA Concat ==
  ASSUME NEW R, NEW s \in Seq(R), NEW n \in Nat, NEW w, \A i \in 1 .. n : w[i] \in R,
         NEW u, u = s \o [i \in 1 .. n |-> w[i]]
  PROVE  /\ u \in Seq(R) /\ Len(u) = Len(s) + n /\ Len(s) \in Nat
         /\ \A i \in 1 .. Len(s) : u[i] = s[i]
         /\ \A i \in 1 .. n : u[Len(s) + i] = w[i]
<1> DEFINE v == [i \in 1 .. n |-> w[i]]
<1>1. v \in Seq(R) /\ Len(v) = n
  <2>1. v \in [1 .. n -> R]
    OBVIOUS
  <2> QED
    BY <2>1
<1>2. u = s \o v /\ \A i \in 1 .. n : v[i] = w[i]
  OBVIOUS
<1> HIDE DEF v
<1> QED
  BY <1>1, <1>2

LEMMA SubmitPlanKept ==
  ASSUME QuotaAssumption, LedgerInv, NEW r, NEW t \in Seqs, NEW n \in 0 .. MaxWorkers, NEW pend \in BOOLEAN,
         SubmitPlan(r, t, n, pend), UNCHANGED co, NewHooks
  PROVE  Kept
<1>1. Shapes /\ UNCHANGED todo
  BY DEF LedgerInv, SubmitPlan
<1>2. /\ n \in Nat /\ t \in Nat /\ t # 0 /\ Len(runs) \in Nat /\ runs \in Seq(RunRow)
      /\ Seqs = 1 .. Len(turns) /\ turns \in Seq(TurnRow) /\ Len(turns) \in Nat
  <2>1. MaxWorkers \in Nat
    BY DEF QuotaAssumption
  <2>2. n \in Nat
    BY <2>1
  <2> QED
    BY <1>1, <2>2, RunsRows, Lengths DEF Shapes
<1> DEFINE w == [i \in 1 .. n |-> Rooted(NewRun("worker", t), Len(runs) + i)]
           g == [s \in Seqs |-> IF s = t THEN WithPend(AtPhase(WithPend(turns[s], FALSE), 3), pend)
                                ELSE WithPend(turns[s], FALSE)]
<1>3. \A i \in 1 .. n : w[i] = Rooted(NewRun("worker", t), Len(runs) + i)
  OBVIOUS
<1>4. runs' = runs \o [i \in 1 .. n |-> w[i]]
  BY DEF SubmitPlan, Rooted
<1>5. turns' = [s \in Seqs |-> g[s]]
  <2>1. turns' = [[s \in Seqs |-> WithPend(turns[s], FALSE)] EXCEPT ![t].phase = 3, ![t].pend = pend]
    BY DEF SubmitPlan, Superseded, WithPend
  <2>2. WithPend(AtPhase(WithPend(turns[t], FALSE), 3), pend)
          = [[WithPend(turns[t], FALSE) EXCEPT !.phase = 3] EXCEPT !.pend = pend]
    BY DEF WithPend, AtPhase
  <2> QED
    BY <2>1, <2>2
<1>6. \A i \in 1 .. n : NewRow(w[i], t)
  <2> SUFFICES ASSUME NEW i \in 1 .. n PROVE NewRow(w[i], t)
    OBVIOUS
  <2>1. NewRow(NewRun("worker", t), t) /\ Len(runs) + i \in Nat /\ 1 \in Nat
    BY <1>1, <1>2, NewRows
  <2>2. NewRow(Rooted(NewRun("worker", t), Len(runs) + i), t)
    BY <2>1, NewRowsRenewed
  <2> QED
    BY <1>3, <2>2
<1>7. \A s \in Seqs : g[s] \in TurnRow /\ SameTurn(turns[s], g[s])
  <2> SUFFICES ASSUME NEW s \in Seqs PROVE g[s] \in TurnRow /\ SameTurn(turns[s], g[s])
    OBVIOUS
  <2> DEFINE a == WithPend(turns[s], FALSE)
             b == AtPhase(a, 3)
             c == WithPend(b, pend)
  <2>1. g[s] = IF s = t THEN c ELSE a
    OBVIOUS
  <2>2. turns[s] \in TurnRow
    BY <1>1, Rows
  <2> HIDE DEF g
  <2>3. a \in TurnRow /\ SameTurn(turns[s], a)
    BY <2>2, TurnMarks
  <2> HIDE DEF a
  <2>4. b \in TurnRow /\ SameTurn(a, b)
    BY <2>3, TurnMarks
  <2> HIDE DEF b
  <2>5. c \in TurnRow /\ SameTurn(b, c)
    BY <2>4, TurnMarks
  <2> HIDE DEF c
  <2> QED
    BY <2>1, <2>3, <2>4, <2>5, SameTurnTrans
<1>8. turns'[t].phase # 0
  <2> DEFINE a == WithPend(turns[t], FALSE)
             b == AtPhase(a, 3)
             c == WithPend(b, pend)
  <2>1. turns'[t] = c
    BY <1>5
  <2>2. turns[t] \in TurnRow
    BY <1>1, Rows
  <2>3. a \in TurnRow
    BY <2>2, TurnMarks
  <2> HIDE DEF a
  <2>4. b \in TurnRow /\ b.phase = 3
    BY <2>3, TurnMarks
  <2> HIDE DEF b
  <2>5. SameTurn(b, c)
    BY <2>4, TurnMarks
  <2> HIDE DEF c
  <2> QED
    BY <2>1, <2>4, <2>5 DEF SameTurn
<1> HIDE DEF w, g
<1>9. SameLedger
  BY <1>1, <1>5, <1>7, TurnsMap
<1>10. \A i \in 1 .. n : w[i] \in RunRow
  BY <1>6 DEF NewRow
<1>11. /\ runs' \in Seq(RunRow) /\ Len(runs') = Len(runs) + n
       /\ \A i \in 1 .. Len(runs) : runs'[i] = runs[i]
       /\ \A i \in 1 .. n : runs'[Len(runs) + i] = w[i]
  BY <1>2, <1>4, <1>10, Concat
<1>12. \A q \in Ids' \ Ids : FreshRun(q)
  <2> SUFFICES ASSUME NEW q \in Ids' \ Ids PROVE FreshRun(q)
    OBVIOUS
  <2> DEFINE i == q - Len(runs)
  <2>1. i \in 1 .. n /\ q = Len(runs) + i
    BY <1>2, <1>11 DEF Ids
  <2>2. runs'[q] = w[i] /\ NewRow(w[i], t)
    BY <1>6, <1>11, <2>1
  <2>3. NewRow(runs'[q], t)
    BY <2>2
  <2> QED
    BY <1>2, <1>8, <2>3 DEF NewRow, FreshRun
<1>13. Len(runs) <= Len(runs') /\ Len(runs') \in Nat
  BY <1>2, <1>11
<1>14. CoKept
  BY <1>1, <1>13, CoSame
<1>15. TodoKept
  <2>1. Len(turns') = Len(turns)
    BY <1>9 DEF SameLedger
  <2> QED
    BY <1>1, <1>2, <2>1, TodoSame
<1>16. \A q \in Ids : runs'[q] = runs[q]
  BY <1>11 DEF Ids
<1> QED
  BY <1>9, <1>11, <1>12, <1>13, <1>14, <1>15, <1>16, QuietKept DEF SameLedger

\* A plan that is given up charges its source run alone, which is all of its Turn.
LEMMA AbortKept ==
  ASSUME QuotaAssumption, LedgerInv, NEW r \in Ids, ~Live(r), NEW t \in Turned(r), turns[t].phase = 0,
         Abort(r, t), UNCHANGED co, NewHooks
  PROVE  Kept
<1>1. Shapes /\ Undecided /\ t \in Seqs /\ turns[t].src = r
  BY DEF LedgerInv, Turned
<1>2. Reserved(t) /\ TurnRuns(t) = {r}
  BY <1>1 DEF Undecided, TurnRuns
<1>3. /\ turns[t] \in TurnRow /\ turns \in Seq(TurnRow) /\ Len(turns) \in Nat /\ Seqs = 1 .. Len(turns)
      /\ \A q \in Ids : runs[q] \in RunRow
      /\ runs \in Seq(RunRow) /\ Len(runs) \in Nat
  BY <1>1, Rows, RunsRows, Lengths DEF Shapes
<1> DEFINE cn == [q \in Ids |-> IF q = r /\ runs[r].canon = None
                                THEN (IF runs[r].report = None THEN Gap ELSE runs[r].report)
                                ELSE runs[q].canon]
           rows == IF runs[r].spent = "none" THEN Charged(t, {r}, cn) ELSE runs
           total == IF rows[r].spent = "committed" THEN rows[r].amt ELSE 0
           turn == AsSettled(turns[t], total, 1)
<1>4. /\ runs' = rows /\ turns' = [turns EXCEPT ![t] = turn]
      /\ todo.seq = t /\ todo' = [todo EXCEPT !.st = "blocked"]
  <2>1. /\ runs' = rows /\ todo.seq = t /\ todo' = [todo EXCEPT !.st = "blocked"]
        /\ turns' = [turns EXCEPT ![t].st = IF total > 0 THEN "committed" ELSE "released", ![t].committed = total,
                                  ![t].phase = 1]
    BY DEF Abort
  <2> HIDE DEF total, rows
  <2>2. turns' = [turns EXCEPT ![t] = turn]
    BY <1>1, <1>3, <2>1 DEF AsSettled
  <2> QED
    BY <2>1, <2>2
<1>5. cn \in [Ids -> Amounts \cup {None, Gap}]
  <2>1. \A q \in Ids : runs[q].canon \in Amounts \cup {None, Gap} /\ runs[q].report \in Amounts \cup {None, Gap}
    BY <1>3 DEF RunRow
  <2> QED
    BY <2>1
<1>6. /\ \A q \in Ids : runs[q].canon # None => cn[q] = runs[q].canon
      /\ \A q \in Ids : cn[q] # None /\ runs[q].canon = None => q = r
  OBVIOUS
<1> HIDE DEF cn
<1>7. /\ rows \in Seq(RunRow) /\ Len(rows) = Len(runs)
      /\ \A q \in Ids : SameButCharge(runs[q], rows[q])
      /\ \A q \in Ids : \/ rows[q].spent = runs[q].spent /\ rows[q].amt = runs[q].amt
                        \/ /\ q \in TurnRuns(t) /\ runs[q].spent = "none"
                           /\ \/ rows[q].spent = "unresolved" /\ rows[q].amt = runs[q].amt
                              \/ rows[q].spent = "committed"
      /\ \A q \in Ids : runs[q].canon # None => rows[q].canon = runs[q].canon
      /\ \A q \in Ids : rows[q].canon # None /\ runs[q].canon = None => q = r
      /\ Spend(t) <= turns[t].reserved => Spent(rows, TurnRuns(t)) <= turns[t].reserved
      /\ rows[r].spent # "none"
  <2>1. CASE runs[r].spent # "none"
    <3>1. rows = runs
      BY <2>1
    <3>2. \A q \in Ids : SameButCharge(runs[q], rows[q])
      BY <1>3, <3>1 DEF SameButCharge
    <3>3. Spent(rows, TurnRuns(t)) = Spend(t)
      BY <3>1 DEF Spend
    <3> HIDE DEF rows
    <3> QED
      BY <1>3, <2>1, <3>1, <3>2, <3>3
  <2>2. CASE runs[r].spent = "none"
    <3> DEFINE S == {r}
    <3>1. rows = Charged(t, S, cn)
      BY <2>2
    <3>2. S \in SUBSET TurnRuns(t) /\ \A q \in S : runs[q].spent = "none"
      BY <1>2, <2>2
    <3>6. \A q : q \in S <=> q = r
      OBVIOUS
    <3> HIDE DEF rows, S
    <3>7. ChargeStep(t, S, cn, rows)
      BY <1>1, <1>5, <3>1, <3>2, ChargedOn
    <3>3. /\ rows \in Seq(RunRow) /\ Len(rows) = Len(runs)
          /\ \A q \in Ids :
                /\ SameButCharge(runs[q], rows[q]) /\ rows[q].canon = cn[q]
                /\ q \notin S => rows[q].spent = runs[q].spent /\ rows[q].amt = runs[q].amt
                /\ q \in S => \/ rows[q].spent = "unresolved" /\ rows[q].amt = runs[q].amt
                              \/ rows[q].spent = "committed" /\ rows[q].amt \in Nat
          /\ Spend(t) <= turns[t].reserved => Spent(rows, TurnRuns(t)) <= turns[t].reserved
      BY <3>7 DEF ChargeStep
    <3>4. \A q \in Ids : \/ rows[q].spent = runs[q].spent /\ rows[q].amt = runs[q].amt
                         \/ /\ q \in TurnRuns(t) /\ runs[q].spent = "none"
                            /\ \/ rows[q].spent = "unresolved" /\ rows[q].amt = runs[q].amt
                               \/ rows[q].spent = "committed"
      BY <1>2, <2>2, <3>3, <3>6
    <3>5. rows[r].spent # "none"
      BY <3>3, <3>6
    <3> QED
      BY <1>6, <3>3, <3>4, <3>5
  <2> QED
    BY <2>1, <2>2
<1> HIDE DEF rows
<1>8. total \in Nat /\ Spent(rows, TurnRuns(t)) = total
  <2> DEFINE f == [q \in {r} |-> total]
  <2>1. total \in Nat
    <3>1. rows[r] \in RunRow
      BY <1>7 DEF SameButCharge
    <3> QED
      BY <3>1 DEF RunRow
  <2>2. \A x \in {r} : f[x] = IF rows[x].spent = "committed" THEN rows[x].amt ELSE 0
    OBVIOUS
  <2>3. f[r] = total
    OBVIOUS
  <2> HIDE DEF f, total
  <2>4. Over(f, {r}) = total
    BY <2>1, <2>3, SumSingle
  <2>5. Spent(rows, {r}) = Over(f, {r})
    BY <2>2, SpentOver
  <2> QED
    BY <1>2, <2>1, <2>4, <2>5
<1> HIDE DEF total
<1>9. IsSettled(turn, turns[t], total, 1)
  BY <1>3, <1>8, TurnClosed
<1> HIDE DEF turn
<1>10. /\ turn \in TurnRow /\ turn.src = turns[t].src /\ turn.reserved = turns[t].reserved
       /\ turn.phase # 0 /\ turn.st \in {"committed", "released"} /\ turn.committed = total
  BY <1>9 DEF IsSettled
<1>11. \A q \in TurnRuns(t) : rows[q].st # "live" /\ rows[q].spent # "none"
  <2>1. SameButCharge(runs[r], rows[r]) /\ rows[r].spent # "none"
    BY <1>7
  <2> QED
    BY <1>2, <2>1 DEF SameButCharge, Live
<1>12. \A q \in Ids : rows[q].canon # None /\ runs[q].canon = None /\ runs[q].report = None =>
         q \in TurnRuns(t) /\ turn.st # "reserved"
  BY <1>2, <1>7, <1>10
<1>13. turn.st # turns[t].st /\ turn.st # "reserved"
  BY <1>2, <1>10 DEF Reserved
<1>14. SweepStep(t, 1, runs', turn)
  BY <1>2, <1>4, <1>7, <1>8, <1>10, <1>11, <1>12, <1>13 DEF SweepStep
<1>15. /\ turns' \in Seq(TurnRow) /\ Len(turns') = Len(turns) /\ turns'[t] = turn /\ Seqs' = Seqs
  BY <1>1, <1>3, <1>4, <1>10 DEF Seqs
<1>16. \A s \in Seqs : s # t => SameTurn(turns[s], turns'[s])
  <2>1. \A s \in Seqs : s # t => turns'[s] = turns[s]
    BY <1>3, <1>4
  <2> QED
    BY <2>1 DEF SameTurn
<1>17. SameTurn(turn, turns'[t])
  BY <1>15 DEF SameTurn
<1>18. CoKept
  <2>1. Len(runs) <= Len(runs') /\ Len(runs') \in Nat
    BY <1>3, <1>4, <1>7
  <2> QED
    BY <1>1, <2>1, CoSame
<1>19. TodoKept
  <2>1. todo \in TodoRow /\ todo.seq \in 0 .. Len(turns')
    BY <1>1, <1>15, CoFields
  <2> QED
    BY <1>4, <2>1 DEF TodoKept, TodoRow
<1>20. \A s \in Seqs' \ Seqs : FreshTurn(s)
  BY <1>15
<1>21. 1 = 0 => turns[t].phase = 0
  OBVIOUS
<1> QED
  BY <1>1, <1>14, <1>15, <1>16, <1>17, <1>18, <1>19, <1>20, <1>21, SweepKept

LEMMA SubmitOrAbortKept ==
  ASSUME QuotaAssumption, LedgerInv, NEW r \in Ids, SubmitOrAbort(r)
  PROVE  Kept
<1>1. PICK t \in Turned(r) :
        /\ IF turns[t].phase > 0
           THEN /\ Step(r, "plan", IF turns[t].phase = 1 THEN "advance" ELSE "phases")
                /\ UNCHANGED <<turns, runs, todo>>
           ELSE \/ /\ Step(r, "plan", "phases")
                   /\ \E n \in 0 .. MaxWorkers, pend \in BOOLEAN : SubmitPlan(r, t, n, pend)
                \/ /\ Step(r, "plan", "advance")
                   /\ Abort(r, t)
        /\ UNCHANGED <<co, used>>
  BY DEF SubmitOrAbort
<1>2. Shapes /\ t \in Seqs /\ turns[t].phase \in {0, 1, 3, 5, 6}
  <2>1. Shapes /\ t \in Seqs
    BY DEF LedgerInv, Turned
  <2> QED
    BY <2>1, PhaseOf
<1>3. PICK next : Step(r, "plan", next)
  BY <1>1
<1>4. NewHooks /\ ~Live(r)
  <2>1. "plan" \in SourceSteps
    BY DEF SourceSteps
  <2> QED
    BY <1>3, <2>1, StepHooks
<1>5. CASE UNCHANGED <<turns, runs, todo>>
  <2>1. CoKept /\ TodoKept /\ SameLedger
    BY <1>1, <1>2, <1>5, CoSame, TodoSame, CoFields, SameTurns
  <2> QED
    BY <1>4, <1>5, <2>1, StillKept
<1>6. CASE \E n \in 0 .. MaxWorkers, pend \in BOOLEAN : SubmitPlan(r, t, n, pend)
  BY <1>1, <1>2, <1>4, <1>6, SubmitPlanKept
<1>7. CASE turns[t].phase = 0 /\ Abort(r, t)
  BY <1>1, <1>2, <1>4, <1>7, AbortKept
<1> QED
  BY <1>1, <1>2, <1>5, <1>6, <1>7

-----------------------------------------------------------------------------
(* The terminal hooks                                                       *)

LEMMA RowsStill ==
  ASSUME LedgerInv, UNCHANGED <<turns, runs>>, NewHooks, CoKept, UNCHANGED todo
  PROVE  Kept
<1>1. Shapes
  BY DEF LedgerInv
<1>2. SameLedger /\ TodoKept
  BY <1>1, SameTurns, TodoSame, CoFields
<1> QED
  BY <1>2, StillKept

LEMMA BlockedStill ==
  ASSUME LedgerInv, UNCHANGED <<turns, runs>>, NewHooks, Block
  PROVE  Kept
<1>1. Shapes
  BY DEF LedgerInv
<1>2. SameLedger /\ CoKept /\ TodoKept
  BY <1>1, SameTurns, BlockKept, CoFields
<1> QED
  BY <1>2, StillKept

\* What a success, a failure and a replan make of the Coordinator row.
CoDone(x) == [x EXCEPT !.cur = 0, !.act = "", !.retryOf = 0, !.rounds = 0]
CoFree(x) == [x EXCEPT !.cur = 0]
CoRetry(x, r) == [x EXCEPT !.st = "waiting_retry", !.cur = 0, !.act = "retry_worker", !.retryOf = r]
CoReplan(x) == [x EXCEPT !.st = "queued", !.cur = 0, !.act = "", !.retryOf = 0, !.rounds = 1]

LEMMA CoOutcomes ==
  ASSUME NEW x \in CoRow, NEW r \in Nat
  PROVE  /\ CoDone(x) \in CoRow /\ CoDone(x).cur = 0 /\ CoDone(x).act = ""
         /\ CoFree(x) \in CoRow /\ CoFree(x).cur = 0 /\ CoFree(x).act = x.act /\ CoFree(x).retryOf = x.retryOf
         /\ CoRetry(x, r) \in CoRow /\ CoRetry(x, r).cur = 0 /\ CoRetry(x, r).retryOf = r
         /\ CoReplan(x) \in CoRow /\ CoReplan(x).cur = 0 /\ CoReplan(x).act = ""
<1>1. CoDone(x) \in CoRow /\ CoDone(x).cur = 0 /\ CoDone(x).act = ""
  BY DEF CoDone, CoRow
<1>2. CoFree(x) \in CoRow /\ CoFree(x).cur = 0 /\ CoFree(x).act = x.act /\ CoFree(x).retryOf = x.retryOf
  BY DEF CoFree, CoRow
<1>3. CoRetry(x, r) \in CoRow /\ CoRetry(x, r).cur = 0 /\ CoRetry(x, r).retryOf = r
  BY DEF CoRetry, CoRow
<1>4. CoReplan(x) \in CoRow /\ CoReplan(x).cur = 0 /\ CoReplan(x).act = ""
  BY DEF CoReplan, CoRow
<1> QED
  BY <1>1, <1>2, <1>3, <1>4

LEMMA CoZeroKept ==
  ASSUME co' \in CoRow, co'.cur = 0, Len(runs') \in Nat,
         co'.act = "retry_worker" => co'.retryOf \in Ids /\ runs[co'.retryOf].kind = "worker"
  PROVE  CoKept
BY DEF CoKept

LEMMA AdvanceSourceKept ==
  ASSUME LedgerInv, NEW r \in Ids, AdvanceSource(r), NewHooks
  PROVE  Kept
<1>1. Shapes /\ UNCHANGED <<turns, runs>>
  BY DEF LedgerInv, AdvanceSource
<1>2. Len(runs') \in Nat /\ 0 \in 0 .. Len(runs') /\ co \in CoRow
  BY <1>1, RunsRows, CoFields
<1>3. CASE UNCHANGED <<co, todo>>
  <2>1. CoKept
    BY <1>1, <1>3, CoSame, CoFields
  <2> QED
    BY <1>1, <1>3, <2>1, RowsStill
<1>4. CASE co' = CoTo(co, "running", 0) /\ UNCHANGED todo
  <2>1. CoMoved(co', co, 0)
    BY <1>2, <1>4, CoMoves
  <2>2. CoKept
    BY <1>1, <1>2, <2>1, CoMovedKept
  <2> QED
    BY <1>1, <1>4, <2>2, RowsStill
<1>5. CASE Block
  BY <1>1, <1>5, BlockedStill
<1>6. CASE co' = CoTo(co, "queued", 0) /\ UNCHANGED todo
  <2>1. CoMoved(co', co, 0)
    BY <1>2, <1>6, CoMoves
  <2>2. CoKept
    BY <1>1, <1>2, <2>1, CoMovedKept
  <2> QED
    BY <1>1, <1>6, <2>2, RowsStill
<1> QED
  BY <1>3, <1>4, <1>5, <1>6 DEF AdvanceSource, CoTo

\* A sequence with one more entry.
LEMMA Appended ==
  ASSUME NEW R, NEW s \in Seq(R), NEW x \in R, NEW u, u = Append(s, x)
  PROVE  /\ u \in Seq(R) /\ Len(u) = Len(s) + 1
         /\ \A i \in 1 .. Len(s) : u[i] = s[i]
         /\ u[Len(s) + 1] = x
OBVIOUS

LEMMA ReplanKept ==
  ASSUME QuotaAssumption, LedgerInv, NEW r \in Ids, runs[r].kind # "source", Replan(r), NewHooks
  PROVE  Kept
<1>1. Shapes /\ Owned
  BY DEF LedgerInv
<1>2. CASE UNCHANGED <<turns, runs, todo, co>>
  <2>1. CoKept
    BY <1>1, <1>2, CoSame, CoFields
  <2> QED
    BY <1>2, <2>1, RowsStill
<1>3. CASE ~UNCHANGED <<turns, runs, todo, co>>
  <2> DEFINE t == runs[r].turn
             row == CoReplan(co)
             sw == Swept(t, turns[t].phase, TRUE, row)
             z == [turns EXCEPT ![t] = sw.turn]
             ctl == [src |-> 0, phase |-> 6, st |-> "none", reserved |-> 0, committed |-> 0,
                     batch |-> "done", pend |-> FALSE, rejected |-> FALSE]
  <2>1. /\ co' = row /\ runs' = sw.runs /\ turns' = Append(z, ctl)
        /\ todo' = [st |-> "pending", seq |-> Len(turns) + 1]
    BY <1>3 DEF Replan, CoReplan
  <2>2. t \in 0 .. Len(turns) /\ t # 0
    BY <1>1 DEF Owned
  <2>3. t \in Seqs /\ Seqs = 1 .. Len(turns) /\ turns \in Seq(TurnRow) /\ Len(turns) \in Nat
    BY <1>1, <2>2, CoFields DEF Seqs, Shapes
  <2> HIDE DEF t
  <2>4. turns[t].phase \in {0, 1, 3, 5, 6}
    BY <1>1, <2>3, PhaseOf
  <2>5. sw = Swept(t, turns[t].phase, TRUE, row)
    OBVIOUS
  <2> HIDE DEF sw
  <2>6. SweepStep(t, turns[t].phase, runs', sw.turn) /\ sw.turn \in TurnRow
    BY <1>1, <2>1, <2>3, <2>4, <2>5, SweptStep, SweptTurn
  <2>7. ctl \in TurnRow /\ ctl.src = 0 /\ ctl.phase = 6 /\ ctl.st = "none" /\ ctl.committed = 0
    BY DEF TurnRow
  <2> HIDE DEF ctl
  <2>8. z \in Seq(TurnRow) /\ Len(z) = Len(turns) /\ z[t] = sw.turn /\ \A s \in Seqs : s # t => z[s] = turns[s]
    BY <2>3, <2>6
  <2> HIDE DEF z
  <2>9. /\ turns' \in Seq(TurnRow) /\ Len(turns') = Len(turns) + 1
        /\ \A s \in Seqs : turns'[s] = z[s]
        /\ turns'[Len(turns) + 1] = ctl
    <3>1. turns' = Append(z, ctl) /\ z \in Seq(TurnRow) /\ ctl \in TurnRow
      BY <2>1, <2>7, <2>8
    <3>2. /\ turns' \in Seq(TurnRow) /\ Len(turns') = Len(z) + 1
          /\ \A i \in 1 .. Len(z) : turns'[i] = z[i]
          /\ turns'[Len(z) + 1] = ctl
      BY <3>1, Appended
    <3>3. Len(z) = Len(turns) /\ Seqs = 1 .. Len(turns)
      BY <2>3, <2>8
    <3> QED
      BY <3>2, <3>3
  <2>10. \A s \in Seqs' \ Seqs : FreshTurn(s)
    <3>1. \A s \in Seqs' \ Seqs : s = Len(turns) + 1
      BY <2>3, <2>9 DEF Seqs
    <3> QED
      BY <2>7, <2>9, <3>1 DEF FreshTurn
  <2>11. SameTurn(sw.turn, turns'[t]) /\ \A s \in Seqs : s # t => SameTurn(turns[s], turns'[s])
    BY <2>3, <2>8, <2>9 DEF SameTurn
  <2>12. CoKept
    <3>1. Len(runs') \in Nat
      BY <1>1, <2>6, RunsRows DEF SweepStep
    <3>2. row \in CoRow /\ row.cur = 0 /\ row.act = ""
      BY <1>1, CoFields, CoOutcomes
    <3> HIDE DEF row
    <3> QED
      BY <2>1, <3>1, <3>2, CoZeroKept
  <2>13. TodoKept
    BY <2>1, <2>3, <2>9 DEF TodoKept, TodoRow
  <2>14. turns[t].phase = 0 => turns[t].phase = 0
    OBVIOUS
  <2> QED
    BY <2>3, <2>6, <2>9, <2>10, <2>11, <2>12, <2>13, <2>14, SweepKept
<1> QED
  BY <1>2, <1>3

LEMMA AdvanceKept ==
  ASSUME QuotaAssumption, LedgerInv, NEW r \in Ids, Advance(r)
  PROVE  Kept
<1>1. Shapes
  BY DEF LedgerInv
<1>2. NewHooks
  <2>1. Step(r, "advance", "settle") /\ "settle" \notin SourceSteps
    BY DEF Advance, SourceSteps
  <2> QED
    BY <2>1, StepHooks
<1>3. CASE runs[r].kind = "source"
  BY <1>2, <1>3, AdvanceSourceKept DEF Advance
<1>4. CASE runs[r].kind # "source"
  <2>1. AdvanceWorker(r) /\ runs[r].kind = "worker" /\ Len(runs) \in Nat /\ co \in CoRow /\ r \in Nat
    <3>1. runs[r] \in RunRow
      BY <1>1, Rows
    <3>2. runs[r].kind = "worker"
      BY <1>4, <3>1 DEF RunRow
    <3>3. r \in Nat
      BY <1>1, RunsRows DEF Ids
    <3> QED
      BY <1>1, <1>4, <3>2, <3>3, CoFields DEF Advance
  <2>2. CASE UNCHANGED <<turns, runs, todo, co>>
    <3>1. CoKept
      BY <1>1, <2>2, CoSame, CoFields
    <3> QED
      BY <1>2, <2>2, <3>1, RowsStill
  <2>3. CASE co' \in {CoDone(co), CoFree(co)} /\ UNCHANGED <<turns, runs, todo>>
    <3> DEFINE IsZero(x) == x \in CoRow /\ x.cur = 0
               Keeps(x) == x.act = "" \/ (x.act = co.act /\ x.retryOf = co.retryOf)
    <3>0. IsZero(CoDone(co)) /\ IsZero(CoFree(co)) /\ Keeps(CoDone(co)) /\ Keeps(CoFree(co))
      BY <2>1, CoOutcomes
    <3>1. co' \in CoRow /\ co'.cur = 0
      <4> HIDE DEF IsZero
      <4>1. IsZero(co')
        BY <2>3, <3>0
      <4> QED
        BY <4>1 DEF IsZero
    <3>2. co'.act = "" \/ (co'.act = co.act /\ co'.retryOf = co.retryOf)
      <4> HIDE DEF Keeps
      <4>1. Keeps(co')
        BY <2>3, <3>0
      <4> QED
        BY <4>1 DEF Keeps
    <3>3. CoKept
      <4>1. co'.act = "retry_worker" => co'.retryOf \in Ids /\ runs[co'.retryOf].kind = "worker"
        BY <1>1, <3>2, CoFields
      <4>2. Len(runs') \in Nat
        BY <2>1, <2>3
      <4> QED
        BY <3>1, <4>1, <4>2, CoZeroKept
    <3> QED
      BY <1>2, <2>3, <3>3, RowsStill
  <2>4. CASE co' = CoRetry(co, r) /\ UNCHANGED <<turns, runs, todo>>
    <3>1. co' \in CoRow /\ co'.cur = 0 /\ co'.retryOf = r
      <4> DEFINE IsRetry(x) == x \in CoRow /\ x.cur = 0 /\ x.retryOf = r
      <4>1. IsRetry(CoRetry(co, r))
        BY <2>1 DEF CoRetry, CoRow
      <4> HIDE DEF IsRetry
      <4>2. IsRetry(co')
        BY <2>4, <4>1
      <4> QED
        BY <4>2 DEF IsRetry
    <3>2. CoKept
      BY <2>1, <2>4, <3>1, CoZeroKept
    <3> QED
      BY <1>2, <2>4, <3>2, RowsStill
  <2>5. CASE Replan(r)
    BY <1>2, <1>4, <2>5, ReplanKept
  <2>6. CASE Block /\ UNCHANGED <<turns, runs>>
    BY <1>2, <2>6, BlockedStill
  <2> QED
    BY <2>1, <2>2, <2>3, <2>4, <2>5, <2>6 DEF AdvanceWorker, CoDone, CoFree, CoRetry
<1> QED
  BY <1>3, <1>4

LEMMA SettleKept ==
  ASSUME QuotaAssumption, LedgerInv, NEW r \in Ids, Settle(r)
  PROVE  Kept
<1>1. Shapes /\ Owned /\ UNCHANGED <<todo, co>> /\ NewHooks
  <2>1. hooks' \subseteq hooks
    BY DEF Settle
  <2> QED
    BY <2>1, NoNewHooks DEF LedgerInv, Settle
<1> DEFINE t == runs[r].turn
           sw == Swept(t, turns[t].phase, FALSE, co)
           rows == IF t = 0 THEN turns ELSE [turns EXCEPT ![t] = sw.turn]
           asks(s) == /\ r \in TurnRuns(s) /\ turns[s].batch = "open"
                      /\ \A q \in TurnRuns(s) : ~Live(q)
                      /\ TurnRuns(s) # {turns[s].src} /\ ~Stopped /\ ~RetryPending
           g == [s \in Seqs |-> IF asks(s) THEN WithBatch(rows[s], "collecting") ELSE rows[s]]
<1>2. runs' = (IF t = 0 THEN runs ELSE sw.runs) /\ turns' = [s \in Seqs |-> g[s]]
  BY DEF Settle, WithBatch
<1>3. \A s \in Seqs : g[s] = WithBatch(rows[s], "collecting") \/ g[s] = rows[s]
  OBVIOUS
<1>4. turns \in Seq(TurnRow) /\ Len(turns) \in Nat /\ Seqs = 1 .. Len(turns) /\ t \in 0 .. Len(turns)
  BY <1>1, Lengths DEF Shapes, Owned
<1> HIDE DEF g, t
<1>5. ASSUME NEW s \in Seqs, rows[s] \in TurnRow PROVE g[s] \in TurnRow /\ SameTurn(rows[s], g[s])
  <2>1. SameTurn(rows[s], rows[s])
    BY DEF SameTurn
  <2>2. WithBatch(rows[s], "collecting") \in TurnRow /\ SameTurn(rows[s], WithBatch(rows[s], "collecting"))
    <3> HIDE DEF rows
    <3> QED
      BY <1>5, TurnMarks
  <2> HIDE DEF rows
  <2> QED
    BY <1>3, <1>5, <2>1, <2>2
<1>6. CASE t = 0
  <2>1. rows = turns /\ runs' = runs
    BY <1>2, <1>6
  <2>2. \A s \in Seqs : g[s] \in TurnRow /\ SameTurn(turns[s], g[s])
    BY <1>1, <1>5, <2>1, Rows
  <2>3. SameLedger
    BY <1>1, <1>2, <2>2, TurnsMap
  <2>4. CoKept
    BY <1>1, <2>1, CoSame, CoFields
  <2>5. TodoKept
    <3>1. Len(turns') = Len(turns)
      BY <2>3 DEF SameLedger
    <3> QED
      BY <1>1, <1>4, <3>1, TodoSame
  <2> QED
    BY <1>1, <2>1, <2>3, <2>4, <2>5, StillKept
<1>7. CASE t # 0
  <2>1. t \in Seqs
    BY <1>4, <1>7
  <2>2. turns[t].phase \in {0, 1, 3, 5, 6}
    BY <1>1, <2>1, PhaseOf
  <2>3. sw = Swept(t, turns[t].phase, FALSE, co)
    OBVIOUS
  <2>4. rows = [turns EXCEPT ![t] = sw.turn] /\ runs' = sw.runs
    BY <1>2, <1>7
  <2> HIDE DEF sw, rows
  <2>5. SweepStep(t, turns[t].phase, runs', sw.turn) /\ sw.turn \in TurnRow
    BY <1>1, <2>1, <2>2, <2>3, <2>4, SweptStep, SweptTurn
  <2>6. rows[t] = sw.turn /\ \A s \in Seqs : s # t => rows[s] = turns[s]
    BY <1>4, <2>1, <2>4
  <2>7. \A s \in Seqs : rows[s] \in TurnRow
    BY <1>1, <2>5, <2>6, Rows
  <2>8. \A s \in Seqs : g[s] \in TurnRow /\ SameTurn(rows[s], g[s])
    BY <1>5, <2>7
  <2>9. turns' \in Seq(TurnRow) /\ Len(turns') = Len(turns) /\ Seqs' = Seqs
    <3>1. turns' \in [1 .. Len(turns) -> TurnRow]
      BY <1>2, <1>4, <2>8
    <3>2. turns' \in Seq(TurnRow) /\ Len(turns') = Len(turns)
      BY <1>4, <3>1
    <3> QED
      BY <1>4, <3>2 DEF Seqs
  <2>10. SameTurn(sw.turn, turns'[t]) /\ \A s \in Seqs : s # t => SameTurn(turns[s], turns'[s])
    BY <1>2, <2>1, <2>6, <2>8
  <2>11. CoKept
    <3>1. Len(runs') = Len(runs) /\ Len(runs) \in Nat
      BY <1>1, <2>5, RunsRows DEF SweepStep
    <3>2. Len(runs) <= Len(runs') /\ Len(runs') \in Nat
      BY <3>1
    <3> QED
      BY <1>1, <3>2, CoSame
  <2>12. TodoKept
    <3>1. Len(turns) <= Len(turns') /\ Len(turns') \in Nat
      BY <1>4, <2>9
    <3> QED
      BY <1>1, <3>1, TodoSame
  <2>13. \A s \in Seqs' \ Seqs : FreshTurn(s)
    BY <2>9
  <2>14. turns[t].phase = 0 => turns[t].phase = 0
    OBVIOUS
  <2> QED
    BY <1>1, <2>1, <2>5, <2>9, <2>10, <2>11, <2>12, <2>13, <2>14, SweepKept
<1> QED
  BY <1>6, <1>7

-----------------------------------------------------------------------------
(* Admission                                                                *)

\* What the closed Turns committed is in what the runs were charged.
LEMMA CommittedCharged ==
  ASSUME LedgerInv
  PROVE  /\ Over(Amt, Ids) \in Nat
         /\ Over([t \in Seqs |-> IF Reserved(t) THEN 0 ELSE turns[t].committed], Seqs) <= Over(Amt, Ids)
<1> DEFINE c == [t \in Seqs |-> IF Reserved(t) THEN 0 ELSE turns[t].committed]
           R == [t \in Seqs |-> TurnRuns(t)]
<1>1. Shapes /\ Owned /\ Covered
  BY DEF LedgerInv
<1>2. IsFiniteSet(Ids) /\ IsFiniteSet(Seqs) /\ \A t : TurnRuns(t) \in SUBSET Ids /\ IsFiniteSet(TurnRuns(t))
  BY <1>1, Lengths
<1>3. \A x \in Ids : Amt[x] \in Nat
  <2> SUFFICES ASSUME NEW x \in Ids PROVE Amt[x] \in Nat
    OBVIOUS
  <2>1. runs[x] \in RunRow /\ Amt[x] = runs[x].amt
    BY <1>1, Rows DEF Amt
  <2> QED
    BY <2>1 DEF RunRow
<1>4. \A t \in Seqs : turns[t].committed \in Nat
  BY <1>1, Rows DEF TurnRow
<1>5. \A t \in Seqs : c[t] \in Nat
  BY <1>4
<1>6. \A t \in Seqs : R[t] \in SUBSET Ids
  BY <1>2
<1>7. ASSUME NEW t \in Seqs PROVE c[t] <= Over(Amt, R[t])
  <2>1. R[t] = TurnRuns(t) /\ IsFiniteSet(TurnRuns(t)) /\ \A x \in TurnRuns(t) : Amt[x] \in Nat
    BY <1>2, <1>3
  <2>2. Over(Amt, TurnRuns(t)) \in Nat
    BY <2>1, SumNat
  <2>3. CASE Reserved(t)
    <3>1. c[t] = 0
      BY <2>3
    <3> QED
      BY <2>1, <2>2, <3>1
  <2>4. CASE ~Reserved(t)
    <3>1. c[t] = turns[t].committed /\ turns[t].committed <= Over(Amt, TurnRuns(t))
      BY <1>1, <2>4 DEF Covered
    <3> QED
      BY <2>1, <3>1
  <2> QED
    BY <2>3, <2>4
<1>8. \A s, t \in Seqs : s # t => R[s] \cap R[t] = {}
  BY <1>1, Disjoint
<1>9. Over(Amt, Ids) \in Nat
  BY <1>2, <1>3, SumNat
<1> HIDE DEF c, R
<1>10. \A t \in Seqs : R[t] \in SUBSET Ids /\ c[t] <= Over(Amt, R[t])
  BY <1>6, <1>7
<1>11. Over(c, Seqs) <= Over(Amt, Ids)
  BY <1>2, <1>3, <1>5, <1>8, <1>10, SumOfParts
<1> QED
  BY <1>9, <1>11 DEF c

\* What is left of the limit may be reserved.
LEMMA RemainingFits ==
  ASSUME QuotaAssumption, LedgerInv
  PROVE  Remaining \in Nat /\ Remaining + Over(Held, Seqs) <= Limit
<1> DEFINE a == [t \in Seqs |-> IF Reserved(t) THEN turns[t].reserved ELSE 0]
           c == [t \in Seqs |-> IF Reserved(t) THEN 0 ELSE turns[t].committed]
<1>1. Shapes /\ Over(Held, Seqs) <= Limit /\ Limit \in Nat
  BY HeldOver DEF LedgerInv, QuotaAssumption
<1>2. IsFiniteSet(Seqs)
  BY <1>1, Lengths
<1>3. \A t \in Seqs : turns[t].reserved \in Nat /\ turns[t].committed \in Nat
  BY <1>1, Rows DEF TurnRow
<1>4. \A t \in Seqs : a[t] \in Nat /\ c[t] \in Nat /\ Held[t] = a[t] + c[t]
  BY <1>3 DEF Held
<1>5. Over(Amt, Ids) \in Nat /\ Over(c, Seqs) <= Over(Amt, Ids)
  BY CommittedCharged
<1>6. SumCommitted = Over(Amt, Ids)
  <2>1. [r \in Ids |-> runs[r].amt] = [x \in Ids |-> Amt[x]]
    BY DEF Amt
  <2> QED
    BY <2>1 DEF SumCommitted, Over
<1>7. SumActiveReserved = Over(a, Seqs)
  <2>1. [t \in Seqs |-> IF Reserved(t) THEN turns[t].reserved ELSE 0] = [x \in Seqs |-> a[x]]
    OBVIOUS
  <2> QED
    BY <2>1 DEF SumActiveReserved, Over
<1> HIDE DEF a, c
<1>8. \A x \in Seqs : a[x] \in Int /\ c[x] \in Int /\ Held[x] = a[x] + c[x]
  BY <1>4
<1>9. Over(Held, Seqs) = Over(a, Seqs) + Over(c, Seqs)
  BY <1>2, <1>8, SumPlus
<1>10. Over(a, Seqs) \in Nat /\ Over(c, Seqs) \in Nat
  BY <1>2, <1>4, SumNat
<1> QED
  BY <1>1, <1>5, <1>6, <1>7, <1>9, <1>10 DEF Remaining

\* One more Turn, with its source run alone.
NewTurn(x, r) ==
  /\ x \in TurnRow /\ x.src = r /\ x.phase = 0 /\ x.st = "reserved"
  /\ x.reserved = Remaining

LEMMA OneTurnMore ==
  ASSUME Shapes, Owned, NEW r \in Ids, NEW x, NewTurn(x, r),
         NEW n, n = Len(turns) + 1, UNCHANGED runs, turns' = Append(turns, x)
  PROVE  /\ turns' \in Seq(TurnRow) /\ Len(turns') = n /\ n \in Nat /\ Ids' = Ids
         /\ n \notin Seqs /\ Seqs' = Seqs \cup {n}
         /\ \A t \in Seqs : turns'[t] = turns[t] /\ TurnRuns(t)' = TurnRuns(t)
         /\ turns'[n] = x /\ TurnRuns(n)' = {r}
<1>1. turns \in Seq(TurnRow) /\ Len(turns) \in Nat /\ Seqs = 1 .. Len(turns) /\ Ids' = Ids
  BY Lengths DEF Shapes, Ids
<1>2. /\ turns' \in Seq(TurnRow) /\ Len(turns') = Len(turns) + 1
      /\ \A t \in 1 .. Len(turns) : turns'[t] = turns[t]
      /\ turns'[Len(turns) + 1] = x
  <2>1. x \in TurnRow
    BY DEF NewTurn
  <2> QED
    BY <1>1, <2>1, Appended
<1>3. n \notin Seqs /\ n \in Nat /\ Seqs' = Seqs \cup {n}
  BY <1>1, <1>2 DEF Seqs
<1>4. ASSUME NEW t \in Seqs PROVE turns'[t] = turns[t] /\ TurnRuns(t)' = TurnRuns(t)
  <2>1. turns'[t] = turns[t]
    BY <1>1, <1>2
  <2> QED
    BY <1>1, <2>1 DEF TurnRuns
<1>5. TurnRuns(n)' = {r}
  <2>1. \A q \in Ids : runs[q].turn # n
    BY <1>1 DEF Owned
  <2>2. turns'[n].src = r
    BY <1>2 DEF NewTurn
  <2> QED
    BY <1>1, <2>1, <2>2 DEF TurnRuns
<1> QED
  BY <1>1, <1>2, <1>3, <1>4, <1>5

LEMMA AdmitTurn ==
  ASSUME QuotaAssumption, LedgerInv, NEW r \in Ids, ~Live(r), runs[r].kind = "source", Turned(r) = {},
         NEW x, NewTurn(x, r), UNCHANGED <<runs, co>>, turns' = Append(turns, x),
         todo' = [st |-> "running", seq |-> Len(turns) + 1], HooksEnded'
  PROVE  LedgerInv' /\ \A t \in Seqs : turns'[t] = turns[t]
<1>1. /\ Shapes /\ Owned /\ Undecided /\ Silent /\ AbsenceBehind /\ Charges /\ Covered
  BY DEF LedgerInv
<1> SUFFICES ASSUME NEW m, m = Len(turns) + 1
             PROVE  LedgerInv' /\ \A t \in Seqs : turns'[t] = turns[t]
  OBVIOUS
<1>2. /\ turns' \in Seq(TurnRow) /\ Len(turns') = m /\ m \in Nat /\ Ids' = Ids
      /\ m \notin Seqs /\ Seqs' = Seqs \cup {m}
      /\ \A t \in Seqs : turns'[t] = turns[t] /\ TurnRuns(t)' = TurnRuns(t)
      /\ turns'[m] = x /\ TurnRuns(m)' = {r}
  BY <1>1, OneTurnMore
<1>3. /\ IsFiniteSet(Seqs) /\ Seqs = 1 .. Len(turns) /\ Len(turns) \in Nat
      /\ \A t : TurnRuns(t) \in SUBSET Ids
  BY <1>1, Lengths
<1>4. runs[r].turn = 0 /\ runs[r].spent = "none" /\ runs[r] \in RunRow /\ r # 0
  <2>1. runs[r].turn = 0
    BY <1>1 DEF Owned
  <2>2. r # 0 /\ \A t \in Seqs : r \notin TurnRuns(t)
    BY <1>3, <2>1, SMTT(30) DEF Turned, TurnRuns, Ids
  <2>3. runs[r].spent = "none"
    BY <1>1, <2>2 DEF Charges
  <2> QED
    BY <1>1, <2>1, <2>2, <2>3, Rows
<1>5. Shapes'
  <2>1. CoKept
    <3>1. Len(runs') \in Nat /\ Len(runs) <= Len(runs')
      BY <1>1, RunsRows
    <3> QED
      BY <1>1, <3>1, CoSame
  <2>2. TodoKept
    BY <1>2 DEF TodoKept, TodoRow
  <2>3. runs' \in Seq(RunRow) /\ Len(runs) <= Len(runs')
    BY <1>1, RunsRows
  <2> QED
    BY <1>1, <1>2, <2>1, <2>2, <2>3, ShapesNext
<1>6. Owned'
  <2>1. ASSUME NEW q \in Ids PROVE runs'[q].turn \in 0 .. m /\ (runs'[q].kind = "source" <=> runs'[q].turn = 0)
    BY <1>1, <1>3 DEF Owned
  <2>2. \A t \in Seqs' : turns'[t].src # 0 => turns'[t].src \in Ids /\ runs[turns'[t].src].kind = "source"
    <3>1. turns'[m].src = r
      BY <1>2 DEF NewTurn
    <3> QED
      BY <1>1, <1>2, <3>1 DEF Owned
  <2>3. \A t \in Seqs : turns'[t].src # r
    BY <1>2 DEF Turned
  <2>4. ASSUME NEW s \in Seqs', NEW t \in Seqs', turns'[s].src = turns'[t].src, turns'[s].src # 0
        PROVE  s = t
    <3>1. turns'[m].src = r
      BY <1>2 DEF NewTurn
    <3>2. CASE s \in Seqs /\ t \in Seqs
      <4>1. turns'[s] = turns[s] /\ turns'[t] = turns[t]
        BY <1>2, <3>2
      <4>2. turns[s].src = turns[t].src /\ turns[s].src # 0
        BY <2>4, <4>1
      <4> QED
        BY <1>1, <3>2, <4>2 DEF Owned
    <3>3. CASE s \in Seqs /\ t = m
      <4>1. turns'[s].src # r
        BY <2>3, <3>3
      <4>2. turns'[s].src = r
        BY <2>4, <3>1, <3>3
      <4> QED
        BY <4>1, <4>2
    <3>4. CASE s = m /\ t \in Seqs
      <4>1. turns'[t].src # r
        BY <2>3, <3>4
      <4>2. turns'[t].src = r
        BY <2>4, <3>1, <3>4
      <4> QED
        BY <4>1, <4>2
    <3> QED
      BY <1>2, <3>2, <3>3, <3>4
  <2> QED
    BY <1>2, <2>1, <2>2, <2>4 DEF Owned
<1>7. Undecided' /\ Silent'
  <2>1. \A q \in Ids : runs[q].turn # m
    BY <1>1, <1>3 DEF Owned
  <2>2. \A t \in Seqs : turns'[t].phase = 0 =>
          turns'[t].st = "reserved" /\ turns'[t].src # 0 /\ \A q \in Ids : runs[q].turn # t
    BY <1>1, <1>2 DEF Undecided, Reserved
  <2>3. turns'[m].st = "reserved" /\ turns'[m].src # 0
    BY <1>2, <1>4 DEF NewTurn
  <2> QED
    <3>1. ASSUME NEW t \in Seqs', turns'[t].phase = 0
          PROVE  turns'[t].st = "reserved" /\ turns'[t].src # 0 /\ \A q \in Ids' : runs'[q].turn # t
      BY <1>2, <2>1, <2>2, <2>3, <3>1
    <3>2. Undecided'
      BY <3>1 DEF Undecided, Reserved
    <3>3. Silent'
      BY <1>1, <1>2 DEF Silent, Live
    <3> QED
      BY <3>2, <3>3
<1>8. AbsenceBehind' /\ Charges'
  <2>1. ASSUME NEW q \in Ids, runs[q].canon # None, runs[q].report = None
        PROVE  \E t \in Seqs' : q \in TurnRuns(t)' /\ turns'[t].st # "reserved"
    <3>1. PICK t \in Seqs : q \in TurnRuns(t) /\ ~Reserved(t)
      BY <1>1, <2>1 DEF AbsenceBehind
    <3>2. t \in Seqs' /\ TurnRuns(t)' = TurnRuns(t) /\ turns'[t] = turns[t]
      BY <1>2
    <3> QED
      BY <3>1, <3>2 DEF Reserved
  <2>2. ASSUME NEW q \in Ids, runs[q].spent # "none"
        PROVE  \E t \in Seqs' : q \in TurnRuns(t)'
    BY <1>1, <1>2, <2>2 DEF Charges
  <2> QED
    BY <1>1, <1>2, <2>1, <2>2 DEF AbsenceBehind, Charges, Reserved
<1>9. Remaining \in Nat /\ Remaining + Over(Held, Seqs) <= Limit
  BY RemainingFits
<1>10. Amt' = Amt
  BY <1>2 DEF Amt
<1>11. Covered'
  <2>1. ASSUME NEW t \in Seqs
        PROVE  (Spend(t))' = Spend(t)
    BY <1>2 DEF Spend
  <2>2. ASSUME NEW t \in Seqs
        PROVE  IF turns'[t].st = "reserved" THEN (Spend(t))' <= turns'[t].reserved
               ELSE turns'[t].committed <= Over(Amt', TurnRuns(t)')
    BY <1>1, <1>2, <1>10, <2>1 DEF Covered, Reserved
  <2>3. (Spend(m))' = 0
    <3> DEFINE z == [q \in {r} |-> 0]
    <3>1. Spent(runs, {r}) = Over(z, {r})
      BY <1>4, SpentOver
    <3>2. Over(z, {r}) = 0
      BY SumSingle
    <3>3. (Spend(m))' = Spent(runs, {r})
      BY <1>2 DEF Spend
    <3> QED
      BY <3>1, <3>2, <3>3
  <2>4. (Spend(m))' <= turns'[m].reserved /\ turns'[m].st = "reserved"
    BY <1>2, <1>9, <2>3 DEF NewTurn
  <2> QED
    BY <1>2, <2>2, <2>4 DEF Covered, Reserved
<1>12. NoOversubscription'
  <2>1. \A t \in Seqs : Held'[t] = Held[t]
    BY <1>2 DEF Held, Reserved
  <2>2. Held'[m] = Remaining
    BY <1>2 DEF Held, Reserved, NewTurn
  <2>3. \A t \in Seqs : Held[t] \in Int
    <3>1. \A t \in Seqs : turns[t].reserved \in Nat /\ turns[t].committed \in Nat
      BY <1>1, Rows DEF TurnRow
    <3> QED
      BY <3>1 DEF Held
  <2>4. \A t \in Seqs \cup {m} : Held'[t] \in Int
    BY <1>9, <2>1, <2>2, <2>3
  <2>5. Over(Held', Seqs \cup {m}) = Held'[m] + Over(Held', Seqs)
    <3>1. m \notin Seqs /\ IsFiniteSet(Seqs)
      BY <1>2, <1>3
    <3> DEFINE g == Held'
    <3>2. \A t \in Seqs \cup {m} : g[t] \in Int
      BY <2>4
    <3> HIDE DEF g
    <3>3. Over(g, Seqs \cup {m}) = g[m] + Over(g, Seqs)
      BY <3>1, <3>2, SumAdd
    <3> QED
      BY <3>3 DEF g
  <2>6. Over(Held', Seqs) = Over(Held, Seqs)
    BY <2>1, SumAgree
  <2>7. Over(Held', Seqs') <= Limit
    BY <1>2, <1>9, <2>2, <2>5, <2>6
  <2> QED
    BY <2>7, HeldNext
<1> QED
  BY <1>2, <1>5, <1>6, <1>7, <1>8, <1>11, <1>12 DEF LedgerInv

\* What a step makes of the reservations it settles.
Closing ==
  \A t \in Seqs : Reserved(t) /\ turns'[t].st # "reserved" =>
    /\ \A r \in TurnRuns(t) : runs'[r].st # "live" /\ runs'[r].spent # "none"
    /\ turns'[t].committed = (Spend(t))'

LEMMA AdmitKept ==
  ASSUME QuotaAssumption, LedgerInv, NEW r \in Ids, Admit(r)
  PROVE  LedgerInv' /\ Closing
<1>1. Shapes
  BY DEF LedgerInv
<1>2. NewHooks /\ ~Live(r) /\ runs[r].kind = "source" /\ UNCHANGED <<runs, co>>
  <2>1. Step(r, "admit", IF Admissible(r) THEN "plan" ELSE "advance") /\ "admit" \in SourceSteps
    BY DEF Admit, SourceSteps
  <2> QED
    BY <2>1, StepHooks DEF Admit
<1>3. CASE UNCHANGED <<turns, todo>>
  <2>1. CoKept
    BY <1>1, <1>2, CoSame, CoFields
  <2>2. TodoKept
    BY <1>1, <1>3, TodoSame, CoFields
  <2>3. SameLedger
    BY <1>1, <1>3, SameTurns
  <2>4. Kept
    BY <1>2, <2>1, <2>2, <2>3, StillKept
  <2>5. LedgerInv'
    BY <2>4, LedgerStep DEF Kept
  <2> QED
    BY <1>3, <2>5 DEF Closing, Reserved
<1>4. CASE ~UNCHANGED <<turns, todo>>
  <2> DEFINE x == [src |-> r, phase |-> 0, st |-> "reserved", reserved |-> Remaining,
                   committed |-> 0, batch |-> "open", pend |-> FALSE, rejected |-> FALSE]
  <2>1. /\ Turned(r) = {} /\ turns' = Append(turns, x)
        /\ todo' = [st |-> "running", seq |-> Len(turns) + 1]
    BY <1>4 DEF Admit
  <2>2. NewTurn(x, r)
    <3>1. Remaining \in Nat /\ r \in Nat
      BY <1>1, RemainingFits, RunsRows DEF Ids
    <3> QED
      BY <3>1 DEF NewTurn, TurnRow
  <2> HIDE DEF x
  <2>3. HooksEnded'
    <3>1. \A q \in Ids : runs'[q] = runs[q] /\ q \in Ids'
      BY <1>2 DEF Ids
    <3>2. \A h \in hooks' : h \in hooks \/ h \in hooks' \ hooks
      OBVIOUS
    <3>3. \A h \in hooks' : h[1] \in Ids /\ ~Live(h[1]) /\ (h[2] \in SourceSteps => runs[h[1]].kind = "source")
      BY <1>2, <3>2 DEF NewHooks, HooksEnded, LedgerInv
    <3> QED
      BY <3>1, <3>3 DEF HooksEnded, Live
  <2>4. LedgerInv' /\ \A t \in Seqs : turns'[t] = turns[t]
    BY <1>2, <2>1, <2>2, <2>3, AdmitTurn
  <2> QED
    BY <2>4 DEF Closing, Reserved
<1> QED
  BY <1>3, <1>4

-----------------------------------------------------------------------------
(* The theorems                                                             *)

LEMMA KeptStep ==
  ASSUME QuotaAssumption, LedgerInv, Kept
  PROVE  LedgerInv' /\ Closing
<1>1. LedgerInv'
  BY LedgerStep DEF Kept
<1>2. ASSUME NEW t \in Seqs, Reserved(t), turns'[t].st # "reserved"
      PROVE  /\ \A r \in TurnRuns(t) : runs'[r].st # "live" /\ runs'[r].spent # "none"
             /\ turns'[t].committed = (Spend(t))'
  <2>1. TurnStep(t) /\ turns'[t].st # turns[t].st
    BY <1>2 DEF Kept, Grown, Reserved
  <2> QED
    BY <2>1 DEF TurnStep
<1> QED
  BY <1>1, <1>2 DEF Closing

LEMMA NextStep ==
  ASSUME QuotaAssumption, LedgerInv, [QNext]_qvars
  PROVE  LedgerInv' /\ Closing
<1>1. CASE StartSweep
  BY <1>1, StartSweepKept, KeptStep
<1>2. CASE StartDecide
  BY <1>2, StartDecideKept, KeptStep
<1>3. CASE Unblock
  BY <1>3, UnblockKept, KeptStep
<1>4. CASE Crash
  BY <1>4, CrashKept, KeptStep
<1>5. ASSUME NEW t \in Seqs, Wake(t) \/ Approve(t) \/ Reject(t) \/ SettleRejected(t)
      PROVE  LedgerInv' /\ Closing
  BY <1>5, WakeKept, ApproveKept, RejectKept, SettleRejectedKept, KeptStep
<1>6. ASSUME NEW r \in Ids, NEW st \in Outcomes, NEW a \in Amounts \cup {None}, EndRun(r, st, a)
      PROVE  LedgerInv' /\ Closing
  BY <1>6, EndRunKept, KeptStep
<1>7. ASSUME NEW r \in Ids, NEW a \in Amounts, Report(r, a) \/ Reconcile(r, a)
      PROVE  LedgerInv' /\ Closing
  BY <1>7, ReportKept, ReconcileKept, KeptStep
<1>8. ASSUME NEW r \in Ids, SubmitOrAbort(r) \/ Phases(r) \/ Wait(r)
      PROVE  LedgerInv' /\ Closing
  BY <1>8, SubmitOrAbortKept, PhasesKept, WaitKept, KeptStep
<1>9. ASSUME NEW r \in Ids, Advance(r) \/ Settle(r)
      PROVE  LedgerInv' /\ Closing
  BY <1>9, AdvanceKept, SettleKept, KeptStep
<1>10. ASSUME NEW r \in Ids, Admit(r) PROVE LedgerInv' /\ Closing
  BY <1>10, AdmitKept
<1>11. CASE UNCHANGED qvars
  BY <1>11, StutterKept, KeptStep
<1> QED
  BY <1>1, <1>2, <1>3, <1>4, <1>5, <1>6, <1>7, <1>8, <1>9, <1>10, <1>11 DEF QNext

LEMMA FirstState == ASSUME QuotaAssumption, QInit PROVE LedgerInv
<1> DEFINE x == [kind |-> "source", turn |-> 0, st |-> "live", attempt |-> 1, root |-> 1,
                 report |-> None, canon |-> None, late |-> FALSE, spent |-> "none", amt |-> 0]
<1>1. x \in RunRow
  BY DEF RunRow
<1>2. runs = <<x>> /\ turns = <<>> /\ hooks = {}
  BY DEF QInit
<1>3. /\ x.kind = "source" /\ x.turn = 0 /\ x.report = None /\ x.canon = None
      /\ ~x.late /\ x.spent = "none" /\ x.amt = 0
  OBVIOUS
<1> HIDE DEF x
<1>4. /\ runs \in Seq(RunRow) /\ Ids = {1} /\ runs[1] = x /\ Len(runs) = 1
      /\ turns \in Seq(TurnRow) /\ Len(turns) = 0 /\ Seqs = {}
  BY <1>1, <1>2 DEF Ids, Seqs
<1>5. Shapes
  <2> DEFINE row == [st |-> "running", cur |-> 1, act |-> "", retryOf |-> 0, rounds |-> 0]
             item == [st |-> "pending", seq |-> 0]
             Zero == 0 .. 0
             One == 0 .. 1
  <2>4. row \in CoRow /\ row.act # "retry_worker" /\ item \in TodoRow
    BY DEF CoRow, TodoRow
  <2>5. row.cur \in One /\ item.seq \in Zero
    OBVIOUS
  <2>6. co = row /\ todo = item
    BY DEF QInit
  <2> HIDE DEF row, item, Zero, One
  <2>1. co \in CoRow /\ co.cur \in 0 .. 1 /\ co.act # "retry_worker"
    BY <2>4, <2>5, <2>6 DEF One
  <2>2. todo \in TodoRow /\ todo.seq \in 0 .. 0
    BY <2>4, <2>5, <2>6 DEF Zero
  <2>3. co.cur \in 0 .. Len(runs) /\ todo.seq \in 0 .. Len(turns)
    BY <1>4, <2>1, <2>2
  <2> QED
    BY <1>4, <2>1, <2>2, <2>3 DEF Shapes
<1>6. HooksEnded /\ Undecided /\ Covered
  BY <1>2, <1>4 DEF HooksEnded, Undecided, Covered
<1>7. Owned
  <2>1. \A r \in Ids : runs[r].turn \in 0 .. Len(turns) /\ (runs[r].kind = "source" <=> runs[r].turn = 0)
    BY <1>3, <1>4
  <2> QED
    BY <1>4, <2>1 DEF Owned
<1>8. Silent /\ AbsenceBehind /\ Charges
  <2>1. \A r \in Ids : /\ runs[r].report = None /\ runs[r].canon = None /\ ~runs[r].late
                       /\ runs[r].spent = "none" /\ runs[r].amt = 0
    BY <1>3, <1>4
  <2> QED
    BY <2>1 DEF Silent, AbsenceBehind, Charges
<1>9. NoOversubscription
  <2>1. Over(Held, Seqs) = 0
    BY <1>4, SumEmpty
  <2> QED
    BY <2>1, HeldOver DEF QuotaAssumption
<1> QED
  BY <1>5, <1>6, <1>7, <1>8, <1>9 DEF LedgerInv

\* The inductive invariant of the ledger: shapes, ownership of runs by Turns,
\* evidence of absence behind settled Turns only, and reservations that cover
\* what is charged against them.
THEOREM LedgerInvariant == QSpec => []LedgerInv
<1>1. QInit => LedgerInv
  BY QuotaAssumption, FirstState
<1>2. LedgerInv /\ [QNext]_qvars => LedgerInv'
  BY QuotaAssumption, NextStep
<1> QED
  BY <1>1, <1>2, PTL DEF QSpec

\* The Turns of a Goal never hold more than its limit, however many are open at
\* once and however their sweeps, reports and adjustments interleave
\* (sqlstore/quota.go, "concurrent Turns cannot oversubscribe").
THEOREM NeverOversubscribed == QSpec => []NoOversubscription
<1>1. LedgerInv => NoOversubscription
  BY DEF LedgerInv
<1> QED
  BY <1>1, LedgerInvariant, PTL

\* A report that is refused with nothing on record comes behind a settled Turn:
\* evidence of absence is never frozen while the Turn is open
\* (bindProviderUsageReport against settleGovernanceTurnQuotaLocked).
THEOREM ReportsKept == QSpec => []NoReportLost
<1>1. LedgerInv => NoReportLost
  BY DEF LedgerInv, AbsenceBehind, NoReportLost
<1> QED
  BY <1>1, LedgerInvariant, PTL

\* A reservation is settled with every run of its Turn over and charged, for the
\* amount the ledger holds for them (settleGovernanceTurnQuotaLocked, and the
\* settlement of a refused plan).
THEOREM SettledCharged == QSpec => ClosesCharged
<1>1. LedgerInv /\ [QNext]_qvars => [Closing]_qvars
  BY QuotaAssumption, NextStep
<1>2. [Closing]_qvars => [\A t \in Seqs : Reserved(t) /\ turns'[t].st # "reserved" =>
       /\ \A r \in TurnRuns(t) : runs'[r].st # "live" /\ runs'[r].spent # "none"
       /\ turns'[t].committed = (Spend(t))']_qvars
  BY DEF Closing
<1> QED
  BY <1>1, <1>2, LedgerInvariant, PTL DEF QSpec, ClosesCharged
=============================================================================
