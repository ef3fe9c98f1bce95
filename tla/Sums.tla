-------------------------------- MODULE Sums ---------------------------------
(***************************************************************************)
(* What adding up does, for finite sets of any size: the sum of nothing is *)
(* zero, and one element more adds its value.                              *)
(*                                                                         *)
(* MapThenSumSet is defined by a recursive function that takes the first   *)
(* element of what is left, so each fact is an induction over subsets.     *)
(* The library's induction theorems take a predicate as a parameter; here  *)
(* the argument is spelled out each time, from a smallest set for which    *)
(* the fact fails.  That such a recursive function exists is proved too    *)
(* (AdderExists): the definition only chooses one.                         *)
(***************************************************************************)
EXTENDS Integers, FiniteSetsExt, FiniteSetTheorems, TLAPS

\* The sum of f over S.
Sum(f, S) == MapThenSumSet(LAMBDA x : f[x], S)

\* The element it takes first.
First(s) == CHOOSE x \in s : TRUE

\* g is the sum of f over each subset of S.
Adds(g, f, S) == g = [s \in SUBSET S |->
                        IF s = {} THEN 0 ELSE f[First(s)] + g[s \ {First(s)}]]

\* What MapThenSumSet adds with.
Adder(f, S) == CHOOSE g : Adds(g, f, S)

LEMMA SumIs == \A f, S : Sum(f, S) = Adder(f, S)[S]
  BY DEF Sum, MapThenSumSet, MapThenFoldSet, Adder, Adds, First

LEMMA FirstIn == \A s : s # {} => First(s) \in s
  BY DEF First

\* Among the subsets of a finite set there is one within which there is no other.
LEMMA Smallest ==
  ASSUME NEW U, IsFiniteSet(U), NEW B, B \subseteq SUBSET U, B # {}
  PROVE  \E s \in B : \A t \in B : t \subseteq s => t = s
<1>1. IsWellFoundedOn(StrictSubsetOrdering(U), FiniteSubsetsOf(U))
  BY FS_StrictSubsetOrderingWellFounded
<1>2. B \subseteq FiniteSubsetsOf(U)
  BY FS_Subset DEF FiniteSubsetsOf
<1>3. \E s \in B : \A t \in B : <<t, s>> \notin StrictSubsetOrdering(U)
  BY <1>1, <1>2, WFMin
<1> QED BY <1>3 DEF StrictSubsetOrdering

\* An adder is determined.
LEMMA AdderUnique ==
  ASSUME NEW f, NEW S, IsFiniteSet(S), NEW g, NEW h, Adds(g, f, S), Adds(h, f, S)
  PROVE  g = h
<1>1. DOMAIN g = SUBSET S /\ DOMAIN h = SUBSET S
  BY DEF Adds
<1>2. \A s \in SUBSET S : g[s] = h[s]
  <2> DEFINE B == {s \in SUBSET S : g[s] # h[s]}
  <2> SUFFICES ASSUME B # {} PROVE FALSE
    OBVIOUS
  <2>1. PICK s \in B : \A t \in B : t \subseteq s => t = s
    <3>1. B \subseteq SUBSET S
      OBVIOUS
    <3> HIDE DEF B
    <3> QED BY <3>1, Smallest
  <2>2. s # {}
    BY <2>1 DEF Adds
  <2>3. First(s) \in s
    BY <2>2, FirstIn
  <2>4. s \ {First(s)} \in SUBSET S /\ s \ {First(s)} # s
    BY <2>1, <2>3
  <2>5. g[s \ {First(s)}] = h[s \ {First(s)}]
    BY <2>1, <2>4
  <2>6. g[s] = f[First(s)] + g[s \ {First(s)}]
    BY <2>1, <2>2 DEF Adds
  <2>7. h[s] = f[First(s)] + h[s \ {First(s)}]
    BY <2>1, <2>2 DEF Adds
  <2> QED BY <2>1, <2>5, <2>6, <2>7
<1>3. g = [s \in SUBSET S |-> g[s]] /\ h = [s \in SUBSET S |-> h[s]]
  BY DEF Adds
<1> QED BY <1>2, <1>3

\* An adder of a set adds its subsets.
LEMMA AdderBelow ==
  ASSUME NEW f, NEW S, NEW g, Adds(g, f, S), NEW T \in SUBSET S
  PROVE  Adds([s \in SUBSET T |-> g[s]], f, T)
<1> DEFINE h == [s \in SUBSET T |-> g[s]]
<1>1. ASSUME NEW s \in SUBSET T
      PROVE  h[s] = IF s = {} THEN 0 ELSE f[First(s)] + h[s \ {First(s)}]
  <2>1. s \in SUBSET S /\ s \ {First(s)} \in SUBSET T
    OBVIOUS
  <2>2. g[s] = IF s = {} THEN 0 ELSE f[First(s)] + g[s \ {First(s)}]
    BY <2>1 DEF Adds
  <2> QED BY <2>1, <2>2
<1>2. h = [s \in SUBSET T |-> h[s]]
  OBVIOUS
<1> HIDE DEF h
<1>3. Adds(h, f, T)
  BY <1>1, <1>2 DEF Adds
<1> QED BY <1>3 DEF h

\* Every finite set has one: it takes its value at a subset from the adder of that.
LEMMA AdderExists ==
  ASSUME NEW f, NEW S, IsFiniteSet(S)
  PROVE  \E g : Adds(g, f, S)
<1> DEFINE B == {T \in SUBSET S : ~ \E g : Adds(g, f, T)}
<1> SUFFICES ASSUME B # {} PROVE FALSE
  OBVIOUS
<1>1. PICK T \in B : \A U \in B : U \subseteq T => U = T
  <2>1. B \subseteq SUBSET S
    OBVIOUS
  <2> HIDE DEF B
  <2> QED BY <2>1, Smallest
<1>2. \A U \in SUBSET T : U # T => Adds(Adder(f, U), f, U)
  BY <1>1 DEF Adder
<1> DEFINE below(s) == s \ {First(s)}
           g == [s \in SUBSET T |->
                   IF s = {} THEN 0 ELSE f[First(s)] + Adder(f, below(s))[below(s)]]
<1>3. ASSUME NEW s \in SUBSET T, s # {} PROVE g[below(s)] = Adder(f, below(s))[below(s)]
  <2>1. First(s) \in s
    BY <1>3, FirstIn
  <2>2. below(s) \in SUBSET T /\ below(s) # T /\ below(s) \in SUBSET S
    BY <2>1
  <2> DEFINE u == below(s)
  <2>3. Adds(Adder(f, u), f, u)
    BY <1>2, <2>2
  <2>4. Adder(f, u)[u] = IF u = {} THEN 0 ELSE f[First(u)] + Adder(f, u)[below(u)]
    BY <2>3 DEF Adds
  <2>5. g[u] = IF u = {} THEN 0 ELSE f[First(u)] + Adder(f, below(u))[below(u)]
    BY <2>2
  <2>6. ASSUME u # {} PROVE Adder(f, u)[below(u)] = Adder(f, below(u))[below(u)]
    <3>1. First(u) \in u /\ below(u) \in SUBSET u /\ below(u) \in SUBSET T /\ below(u) # T
      BY <2>2, <2>6, FirstIn
    <3>2. Adds([x \in SUBSET below(u) |-> Adder(f, u)[x]], f, below(u))
      BY <2>3, <3>1, AdderBelow
    <3>3. Adds(Adder(f, below(u)), f, below(u))
      BY <1>2, <3>1
    <3>4. IsFiniteSet(below(u))
      BY <2>2, FS_Subset
    <3>5. [x \in SUBSET below(u) |-> Adder(f, u)[x]] = Adder(f, below(u))
      BY <3>2, <3>3, <3>4, AdderUnique
    <3> QED BY <3>5
  <2> QED BY <2>4, <2>5, <2>6
<1>4. \A s \in SUBSET T : g[s] = IF s = {} THEN 0 ELSE f[First(s)] + g[s \ {First(s)}]
  BY <1>3
<1>5. g = [s \in SUBSET T |-> g[s]]
  OBVIOUS
<1> HIDE DEF g
<1>6. Adds(g, f, T)
  BY <1>4, <1>5 DEF Adds
<1> QED BY <1>1, <1>6

-----------------------------------------------------------------------------
LEMMA SumEmpty == \A f : Sum(f, {}) = 0
  BY SumIs, AdderExists, FS_EmptySet DEF Adder, Adds

\* By the definition: the first, and the rest.
LEMMA SumFirst ==
  ASSUME NEW f, NEW S, IsFiniteSet(S), S # {}
  PROVE  Sum(f, S) = f[First(S)] + Sum(f, S \ {First(S)})
<1> DEFINE T == S \ {First(S)}
<1>1. Adds(Adder(f, S), f, S)
  BY AdderExists DEF Adder
<1>2. IsFiniteSet(T)
  BY FS_Subset
<1>3. Adds(Adder(f, T), f, T)
  BY <1>2, AdderExists DEF Adder
<1>4. Adds([s \in SUBSET T |-> Adder(f, S)[s]], f, T)
  BY <1>1, AdderBelow
<1>5. [s \in SUBSET T |-> Adder(f, S)[s]] = Adder(f, T)
  BY <1>2, <1>3, <1>4, AdderUnique
<1>6. Adder(f, S)[T] = Adder(f, T)[T]
  BY <1>5
<1>7. Adder(f, S)[S] = f[First(S)] + Adder(f, S)[T]
  BY <1>1 DEF Adds
<1> QED BY <1>6, <1>7, SumIs

\* Whole numbers add up to one.
LEMMA SumIsInt ==
  ASSUME NEW f, NEW S, IsFiniteSet(S), \A x \in S : f[x] \in Int
  PROVE  Sum(f, S) \in Int
<1> DEFINE B == {T \in SUBSET S : Sum(f, T) \notin Int}
<1> SUFFICES ASSUME B # {} PROVE FALSE
  OBVIOUS
<1>1. PICK T \in B : \A U \in B : U \subseteq T => U = T
  <2>1. B \subseteq SUBSET S
    OBVIOUS
  <2> HIDE DEF B
  <2> QED BY <2>1, Smallest
<1>2. T # {}
  BY <1>1, SumEmpty
<1>3. First(T) \in T /\ IsFiniteSet(T)
  BY <1>1, <1>2, FirstIn, FS_Subset
<1>4. Sum(f, T \ {First(T)}) \in Int
  BY <1>1, <1>3
<1>5. Sum(f, T) = f[First(T)] + Sum(f, T \ {First(T)})
  BY <1>2, <1>3, SumFirst
<1>6. f[First(T)] \in Int
  BY <1>1, <1>3
<1> QED BY <1>1, <1>4, <1>5, <1>6

\* One element more, whichever it is.
LEMMA SumAdd ==
  ASSUME NEW f, NEW S, IsFiniteSet(S), NEW x, x \notin S, \A y \in S \union {x} : f[y] \in Int
  PROVE  Sum(f, S \union {x}) = Sum(f, S) + f[x]
<1> DEFINE W == S \union {x}
           B == {T \in SUBSET W : \E z \in W \ T : Sum(f, T \union {z}) # Sum(f, T) + f[z]}
<1>0. IsFiniteSet(W)
  BY FS_AddElement
<1> SUFFICES ASSUME B # {} PROVE FALSE
  OBVIOUS
<1>1. PICK T \in B : \A U \in B : U \subseteq T => U = T
  <2>1. B \subseteq SUBSET W
    OBVIOUS
  <2> HIDE DEF B
  <2> QED BY <1>0, <2>1, Smallest
<1>2. PICK z \in W \ T : Sum(f, T \union {z}) # Sum(f, T) + f[z]
  BY <1>1
<1> DEFINE V == T \union {z}
           y == First(V)
<1>3. y \in V
  BY FirstIn
<1>4. Sum(f, V) = f[y] + Sum(f, V \ {y})
  <2>1. V \subseteq W /\ V # {}
    BY <1>1, <1>2
  <2> HIDE DEF V
  <2>2. IsFiniteSet(V)
    BY <1>0, <2>1, FS_Subset
  <2> QED BY <2>1, <2>2, SumFirst
<1>5. y # z
  <2>1. ASSUME y = z PROVE FALSE
    <3>1. V \ {y} = T
      BY <1>2, <2>1
    <3>2. Sum(f, T) \in Int /\ f[z] \in Int
      BY <1>0, <1>1, <1>2, FS_Subset, SumIsInt
    <3>3. Sum(f, V) = f[z] + Sum(f, T)
      BY <1>4, <2>1, <3>1
    <3> HIDE DEF V
    <3>4. Sum(f, V) = Sum(f, T) + f[z]
      BY <3>2, <3>3
    <3> QED BY <1>2, <3>4 DEF V
  <2> QED BY <2>1
<1> DEFINE R == T \ {y}
<1>6. y \in T /\ R \subseteq T /\ R # T /\ R \in SUBSET W /\ T = R \union {y} /\ V \ {y} = R \union {z}
  BY <1>1, <1>2, <1>3, <1>5
<1>7. Sum(f, R \union {y}) = Sum(f, R) + f[y] /\ Sum(f, R \union {z}) = Sum(f, R) + f[z]
  <2>1. R \notin B
    BY <1>1, <1>6
  <2>2. y \in W \ R /\ z \in W \ R
    BY <1>1, <1>2, <1>6
  <2> QED BY <1>6, <2>1, <2>2
<1>8. Sum(f, R) \in Int /\ f[y] \in Int /\ f[z] \in Int
  BY <1>0, <1>1, <1>2, <1>6, FS_Subset, SumIsInt
<1>9. Sum(f, V) = f[y] + (Sum(f, R) + f[z]) /\ Sum(f, T) = Sum(f, R) + f[y]
  BY <1>4, <1>6, <1>7
<1> HIDE DEF V, R, y
<1>10. Sum(f, V) = Sum(f, T) + f[z]
  BY <1>8, <1>9
<1> QED BY <1>2, <1>10 DEF V

\* Only the values on the set count.
LEMMA SumSame ==
  ASSUME NEW S, IsFiniteSet(S), NEW f, NEW g, \A x \in S : f[x] = g[x]
  PROVE  Sum(f, S) = Sum(g, S)
<1> DEFINE B == {T \in SUBSET S : Sum(f, T) # Sum(g, T)}
<1> SUFFICES ASSUME B # {} PROVE FALSE
  OBVIOUS
<1>1. PICK T \in B : \A U \in B : U \subseteq T => U = T
  <2>1. B \subseteq SUBSET S
    OBVIOUS
  <2> HIDE DEF B
  <2> QED BY <2>1, Smallest
<1>2. T # {}
  BY <1>1, SumEmpty
<1>3. First(T) \in T /\ IsFiniteSet(T)
  BY <1>1, <1>2, FirstIn, FS_Subset
<1>4. Sum(f, T \ {First(T)}) = Sum(g, T \ {First(T)})
  BY <1>1, <1>3
<1>5. Sum(f, T) = f[First(T)] + Sum(f, T \ {First(T)})
  BY <1>2, <1>3, SumFirst
<1>6. Sum(g, T) = g[First(T)] + Sum(g, T \ {First(T)})
  BY <1>2, <1>3, SumFirst
<1>7. f[First(T)] = g[First(T)]
  BY <1>1, <1>3
<1> QED BY <1>1, <1>4, <1>5, <1>6, <1>7

\* Of natural numbers, more come to no less.
LEMMA SumGrows ==
  ASSUME NEW f, NEW S, IsFiniteSet(S), \A x \in S : f[x] \in Nat, NEW T \in SUBSET S
  PROVE  Sum(f, T) <= Sum(f, S)
<1> DEFINE B == {U \in SUBSET S : T \subseteq U /\ ~(Sum(f, T) <= Sum(f, U))}
<1> SUFFICES ASSUME B # {} PROVE FALSE
  OBVIOUS
<1>1. PICK U \in B : \A V \in B : V \subseteq U => V = U
  <2>1. B \subseteq SUBSET S
    OBVIOUS
  <2> HIDE DEF B
  <2> QED BY <2>1, Smallest
<1>2. IsFiniteSet(T) /\ Sum(f, T) \in Int
  BY FS_Subset, SumIsInt
<1>3. U # T
  BY <1>1, <1>2
<1>4. PICK x \in U : x \notin T
  BY <1>1, <1>3
<1> DEFINE R == U \ {x}
<1>5. R \in SUBSET S /\ T \subseteq R /\ R \subseteq U /\ R # U /\ x \notin R /\ U = R \union {x}
  BY <1>1, <1>4
<1>6. Sum(f, T) <= Sum(f, R)
  BY <1>1, <1>5
<1> HIDE DEF R
<1>7. IsFiniteSet(R) /\ \A y \in R \union {x} : f[y] \in Int
  BY <1>1, <1>5, FS_Subset
<1>8. Sum(f, U) = Sum(f, R) + f[x] /\ Sum(f, R) \in Int
  BY <1>5, <1>7, SumAdd, SumIsInt
<1>9. f[x] \in Nat
  BY <1>1, <1>4
<1> QED BY <1>1, <1>2, <1>6, <1>8, <1>9

\* Without one of its elements.
LEMMA SumWithout ==
  ASSUME NEW f, NEW S, IsFiniteSet(S), \A y \in S : f[y] \in Int, NEW x \in S
  PROVE  Sum(f, S \ {x}) = Sum(f, S) - f[x]
<1> DEFINE T == S \ {x}
<1>1. S = T \union {x} /\ x \notin T
  OBVIOUS
<1>2. IsFiniteSet(T) /\ \A y \in T \union {x} : f[y] \in Int
  BY FS_Subset
<1> HIDE DEF T
<1>3. Sum(f, S) = Sum(f, T) + f[x] /\ Sum(f, T) \in Int /\ f[x] \in Int
  BY <1>1, <1>2, SumAdd, SumIsInt
<1> QED BY <1>3 DEF T

\* What g makes of the elements of S.
ImageOf(g, S) == {g[x] : x \in S}

\* The elements may change, as long as they stay apart and keep their values.
LEMMA SumImage ==
  ASSUME NEW S, IsFiniteSet(S), NEW f, NEW h, NEW g,
         \A x, y \in S : g[x] = g[y] => x = y,
         \A x \in S : f[x] \in Int /\ h[g[x]] = f[x]
  PROVE  IsFiniteSet(ImageOf(g, S)) /\ Sum(h, ImageOf(g, S)) = Sum(f, S)
<1> DEFINE Image(T) == {g[x] : x \in T}
           Good(T) == IsFiniteSet(Image(T)) /\ Sum(h, Image(T)) = Sum(f, T)
           B == {T \in SUBSET S : ~Good(T)}
<1> SUFFICES ASSUME B # {} PROVE FALSE
  <2>1. ImageOf(g, S) = Image(S)
    BY DEF ImageOf
  <2>2. ~Good(S) => S \in B
    OBVIOUS
  <2> HIDE DEF B, Image
  <2> QED BY <2>1, <2>2
<1>1. PICK T \in B : \A U \in B : U \subseteq T => U = T
  <2>1. B \subseteq SUBSET S
    OBVIOUS
  <2> HIDE DEF B
  <2> QED BY <2>1, Smallest
<1>2. T # {}
  <2>1. Image({}) = {}
    OBVIOUS
  <2>2. Good({})
    <3> HIDE DEF Image
    <3> QED BY <2>1, SumEmpty, FS_EmptySet
  <2> HIDE DEF Good
  <2> QED BY <1>1, <2>2
<1>3. PICK y \in T : TRUE
  BY <1>2
<1> DEFINE R == T \ {y}
<1>4. R \in SUBSET S /\ R \subseteq T /\ R # T /\ y \in S /\ y \notin R /\ T = R \union {y}
  BY <1>1
<1>5. Good(R)
  <2> HIDE DEF Good
  <2> QED BY <1>1, <1>4
<1>6. Image(T) = Image(R) \union {g[y]} /\ g[y] \notin Image(R)
  BY <1>4
<1>7. IsFiniteSet(R)
  <2> HIDE DEF R
  <2> QED BY <1>4, FS_Subset
<1>8. \A z \in Image(R) \union {g[y]} : h[z] \in Int
  BY <1>4
<1>9. \A z \in R \union {y} : f[z] \in Int
  BY <1>4
<1> HIDE DEF R, Image
<1>10. Sum(h, Image(T)) = Sum(h, Image(R)) + h[g[y]]
  BY <1>5, <1>6, <1>8, SumAdd
<1>11. Sum(f, T) = Sum(f, R) + f[y]
  BY <1>4, <1>7, <1>9, SumAdd
<1>12. h[g[y]] = f[y]
  BY <1>4
<1>13. IsFiniteSet(Image(T))
  BY <1>5, <1>6, FS_AddElement
<1> QED BY <1>1, <1>5, <1>10, <1>11, <1>12, <1>13
=============================================================================
