---------------------------- MODULE SumTheorems ----------------------------
(***************************************************************************)
(* Facts about SumFunctionOnSet(f, S), the sum of f[x] over the elements   *)
(* of a finite set: loads in percent, days of leave and hours of a week    *)
(* are such sums.  The operator is a fold, that is a recursive function    *)
(* that takes an arbitrary element away at a time.  It is shown to be the  *)
(* size of the area under f less the size of the area above it, and what   *)
(* a reader expects of a sum follows from the cardinality of finite sets.  *)
(***************************************************************************)
EXTENDS FiniteSetTheorems, TLAPS

\* The equation of the fold, and the function it chooses.
Chosen(T) == CHOOSE x \in T : TRUE

Recurs(f, S, g) ==
  g = [T \in SUBSET S |-> IF T = {} THEN 0 ELSE f[Chosen(T)] + g[T \ {Chosen(T)}]]

Partial(f, S) == CHOOSE g : Recurs(f, S, g)

LEMMA Unfold ==
  ASSUME NEW f, NEW S
  PROVE  SumFunctionOnSet(f, S) = Partial(f, S)[S]
BY DEF SumFunctionOnSet, FoldFunctionOnSet, MapThenFoldSet, Partial, Recurs, Chosen

-----------------------------------------------------------------------------
(* Areas *)

\* The unit squares between a function and the axis.
Area(f, T) == UNION {{x} \X (1 .. f[x]) : x \in T}

Gain(n) == IF n > 0 THEN n ELSE 0

Opposite(f, T) == [x \in T |-> - f[x]]

Net(f, T) == Cardinality(Area(f, T)) - Cardinality(Area(Opposite(f, T), T))

LEMMA StripSize ==
  ASSUME NEW x, NEW n \in Int
  PROVE  IsFiniteSet({x} \X (1 .. n)) /\ Cardinality({x} \X (1 .. n)) = Gain(n)
<1>1. IsFiniteSet({x}) /\ Cardinality({x}) = 1
  BY FS_Singleton
<1>2. IsFiniteSet(1 .. n) /\ Cardinality(1 .. n) = Gain(n)
  BY FS_Interval DEF Gain
<1>3. /\ IsFiniteSet({x} \X (1 .. n))
      /\ Cardinality({x} \X (1 .. n)) = Cardinality({x}) * Cardinality(1 .. n)
  BY <1>1, <1>2, FS_Product
<1> QED BY <1>1, <1>2, <1>3 DEF Gain

LEMMA AreaFinite ==
  ASSUME NEW f, NEW T, IsFiniteSet(T), \A x \in T : f[x] \in Int
  PROVE  IsFiniteSet(Area(f, T)) /\ Cardinality(Area(f, T)) \in Nat
<1> DEFINE strips == {{x} \X (1 .. f[x]) : x \in T}
<1>1. [x \in T |-> {x} \X (1 .. f[x])] \in Surjection(T, strips)
  BY DEF Surjection
<1>2. IsFiniteSet(strips)
  BY <1>1, FS_Surjection
<1>3. \A s \in strips : IsFiniteSet(s)
  BY StripSize
<1>4. IsFiniteSet(UNION strips)
  BY <1>2, <1>3, FS_UNION
<1> QED BY <1>4, FS_CardinalityType DEF Area

LEMMA AreaGrows ==
  ASSUME NEW f, NEW T, IsFiniteSet(T), \A x \in T : f[x] \in Int, NEW x \in T
  PROVE  Cardinality(Area(f, T)) = Gain(f[x]) + Cardinality(Area(f, T \ {x}))
<1> DEFINE strip == {x} \X (1 .. f[x])
           rest == Area(f, T \ {x})
<1>1. IsFiniteSet(T \ {x})
  BY FS_RemoveElement
<1>2. IsFiniteSet(rest) /\ Cardinality(rest) \in Nat
  BY <1>1, AreaFinite
<1>3. IsFiniteSet(strip) /\ Cardinality(strip) = Gain(f[x])
  BY StripSize
<1>4. Area(f, T) = strip \cup rest
  BY DEF Area
<1>5. strip \cap rest = {}
  BY DEF Area
<1> HIDE DEF strip, rest
<1>6. Cardinality(strip \cup rest) = Cardinality(strip) + Cardinality(rest) - Cardinality({})
  BY <1>2, <1>3, <1>5, FS_Union
<1>7. Gain(f[x]) \in Nat
  BY DEF Gain
<1> QED BY <1>2, <1>3, <1>4, <1>6, <1>7, FS_EmptySet DEF rest

LEMMA NetGrows ==
  ASSUME NEW f, NEW T, IsFiniteSet(T), \A x \in T : f[x] \in Int
  PROVE  /\ Net(f, T) \in Int
         /\ \A x \in T : Net(f, T) = f[x] + Net(f, T \ {x})
<1> DEFINE d == Opposite(f, T)
<1>1. \A x \in T : d[x] = - f[x] /\ d[x] \in Int
  BY DEF Opposite
<1>2. Net(f, T) \in Int
  BY <1>1, AreaFinite DEF Net
<1>3. ASSUME NEW x \in T PROVE Net(f, T) = f[x] + Net(f, T \ {x})
  <2>1. IsFiniteSet(T \ {x})
    BY FS_RemoveElement
  <2>2. Cardinality(Area(f, T)) = Gain(f[x]) + Cardinality(Area(f, T \ {x}))
    BY AreaGrows
  <2> HIDE DEF d
  <2>3. Cardinality(Area(d, T)) = Gain(d[x]) + Cardinality(Area(d, T \ {x}))
    BY <1>1, AreaGrows
  <2>4. Area(d, T \ {x}) = Area(Opposite(f, T \ {x}), T \ {x})
    BY <1>1 DEF Area, Opposite
  <2>5. Gain(f[x]) - Gain(d[x]) = f[x]
    BY <1>1 DEF Gain
  <2>6. /\ Cardinality(Area(f, T \ {x})) \in Nat
        /\ Cardinality(Area(d, T \ {x})) \in Nat
        /\ Gain(f[x]) \in Nat /\ Gain(d[x]) \in Nat
    BY <1>1, <2>1, AreaFinite DEF Gain
  <2> QED BY <2>2, <2>3, <2>4, <2>5, <2>6 DEF Net, d
<1> QED BY <1>2, <1>3

LEMMA NetEmpty == ASSUME NEW f PROVE Net(f, {}) = 0
<1>1. \A g : Area(g, {}) = {}
  BY DEF Area
<1> QED BY <1>1, FS_EmptySet DEF Net

-----------------------------------------------------------------------------
(* The fold computes the area *)

\* The areas solve the equation of the fold, and nothing else does: a
\* smallest set where another solution differed would refute itself.
LEMMA SumIsNet ==
  ASSUME NEW f, NEW S, IsFiniteSet(S), \A x \in S : f[x] \in Int
  PROVE  SumFunctionOnSet(f, S) = Net(f, S)
<1>1. \A T \in SUBSET S : /\ IsFiniteSet(T)
                          /\ \A x \in T : f[x] \in Int
                          /\ T # {} => Chosen(T) \in T
  BY FS_Subset DEF Chosen
<1> DEFINE areas == [T \in SUBSET S |-> Net(f, T)]
<1>2. Recurs(f, S, areas)
  <2>1. ASSUME NEW T \in SUBSET S
        PROVE  Net(f, T) = IF T = {} THEN 0 ELSE f[Chosen(T)] + Net(f, T \ {Chosen(T)})
    BY <1>1, NetGrows, NetEmpty
  <2>2. ASSUME NEW T \in SUBSET S PROVE T \ {Chosen(T)} \in SUBSET S
    OBVIOUS
  <2> QED BY <2>1, <2>2 DEF Recurs
<1> HIDE DEF areas
<1> DEFINE g == Partial(f, S)
<1>3. Recurs(f, S, g)
  BY <1>2 DEF Partial
<1> HIDE DEF g
<1> DEFINE wrong == {T \in SUBSET S : g[T] # Net(f, T)}
<1>4. ASSUME wrong # {} PROVE FALSE
  <2>1. IsWellFoundedOn(StrictSubsetOrdering(S), SUBSET S)
    BY FS_StrictSubsetOrderingWellFounded, FS_FiniteSubsetsOfFinite
  <2>2. wrong \subseteq SUBSET S
    OBVIOUS
  <2> HIDE DEF wrong
  <2>3. PICK T \in wrong : \A U \in wrong : <<U, T>> \notin StrictSubsetOrdering(S)
    BY <1>4, <2>1, <2>2, WFMin
  <2> USE DEF wrong
  <2>4. T \in SUBSET S /\ g[T] # Net(f, T)
    OBVIOUS
  <2>5. g[T] = IF T = {} THEN 0 ELSE f[Chosen(T)] + g[T \ {Chosen(T)}]
    BY <1>3, <2>4 DEF Recurs
  <2>6. T # {}
    BY <2>4, <2>5, NetEmpty
  <2> DEFINE U == T \ {Chosen(T)}
  <2>7. U \in SUBSET S /\ <<U, T>> \in StrictSubsetOrdering(S)
    BY <1>1, <2>4, <2>6 DEF StrictSubsetOrdering
  <2>8. g[U] = Net(f, U)
    BY <2>3, <2>7
  <2>9. Net(f, T) = f[Chosen(T)] + Net(f, U)
    BY <1>1, <2>4, <2>6, NetGrows
  <2> QED BY <2>4, <2>5, <2>6, <2>8, <2>9
<1>5. g[S] = Net(f, S)
  BY <1>4
<1> QED BY <1>5, Unfold DEF g

-----------------------------------------------------------------------------
(* What a sum is *)

\* A sum of integers is an integer; nothing sums up to 0; and any element
\* may be taken out first.
THEOREM SumInt ==
  ASSUME NEW f, NEW S, IsFiniteSet(S), \A x \in S : f[x] \in Int
  PROVE  SumFunctionOnSet(f, S) \in Int
BY SumIsNet, NetGrows

LEMMA SumEmpty == ASSUME NEW f PROVE SumFunctionOnSet(f, {}) = 0
BY SumIsNet, NetEmpty, FS_EmptySet

LEMMA SumTakeOut ==
  ASSUME NEW f, NEW S, IsFiniteSet(S), \A x \in S : f[x] \in Int, NEW x \in S
  PROVE  SumFunctionOnSet(f, S) = f[x] + SumFunctionOnSet(f, S \ {x})
<1>1. IsFiniteSet(S \ {x})
  BY FS_RemoveElement
<1>2. SumFunctionOnSet(f, S \ {x}) = Net(f, S \ {x})
  BY <1>1, SumIsNet
<1> QED BY <1>2, SumIsNet, NetGrows

\* Only the values on the set matter.
LEMMA SumSame ==
  ASSUME NEW f, NEW g, NEW S, IsFiniteSet(S), \A x \in S : f[x] \in Int /\ g[x] = f[x]
  PROVE  SumFunctionOnSet(g, S) = SumFunctionOnSet(f, S)
<1>1. Area(g, S) = Area(f, S)
  BY DEF Area
<1>2. Opposite(g, S) = Opposite(f, S)
  BY DEF Opposite
<1>3. SumFunctionOnSet(g, S) = Net(g, S) /\ SumFunctionOnSet(f, S) = Net(f, S)
  BY SumIsNet
<1> QED BY <1>1, <1>2, <1>3 DEF Net

\* An element joins the set; the others keep their values.
LEMMA SumPutIn ==
  ASSUME NEW f, NEW g, NEW S, IsFiniteSet(S), \A x \in S : f[x] \in Int /\ g[x] = f[x],
         NEW e, e \notin S, g[e] \in Int
  PROVE  SumFunctionOnSet(g, S \cup {e}) = SumFunctionOnSet(f, S) + g[e]
<1> DEFINE T == S \cup {e}
<1>1. IsFiniteSet(T) /\ e \in T /\ T \ {e} = S /\ \A x \in T : g[x] \in Int
  BY FS_AddElement
<1> HIDE DEF T
<1>2. SumFunctionOnSet(g, T) = g[e] + SumFunctionOnSet(g, S)
  BY <1>1, SumTakeOut
<1>3. SumFunctionOnSet(g, S) = SumFunctionOnSet(f, S) /\ SumFunctionOnSet(f, S) \in Int
  BY SumSame, SumInt
<1> QED BY <1>2, <1>3 DEF T

\* The value of one element changes.
LEMMA SumChange ==
  ASSUME NEW f, NEW g, NEW S, IsFiniteSet(S), \A x \in S : f[x] \in Int,
         NEW e \in S, g[e] \in Int, \A x \in S \ {e} : g[x] = f[x]
  PROVE  SumFunctionOnSet(g, S) = SumFunctionOnSet(f, S) - f[e] + g[e]
<1>1. IsFiniteSet(S \ {e})
  BY FS_RemoveElement
<1>2. SumFunctionOnSet(f, S) = f[e] + SumFunctionOnSet(f, S \ {e})
  BY SumTakeOut
<1>3. SumFunctionOnSet(g, S) = g[e] + SumFunctionOnSet(g, S \ {e})
  BY SumTakeOut
<1>4. /\ SumFunctionOnSet(g, S \ {e}) = SumFunctionOnSet(f, S \ {e})
      /\ SumFunctionOnSet(f, S \ {e}) \in Int
  BY <1>1, SumSame, SumInt
<1> QED BY <1>2, <1>3, <1>4

\* Sums of natural numbers grow with the set and with the values.
LEMMA SumNatIsArea ==
  ASSUME NEW f, NEW S, IsFiniteSet(S), \A x \in S : f[x] \in Nat
  PROVE  SumFunctionOnSet(f, S) = Cardinality(Area(f, S))
<1>1. \A x \in S : 1 .. Opposite(f, S)[x] = {}
  BY DEF Opposite
<1>2. Area(Opposite(f, S), S) = {}
  BY <1>1 DEF Area
<1>3. Cardinality(Area(f, S)) \in Nat
  BY AreaFinite
<1> QED BY <1>2, <1>3, SumIsNet, FS_EmptySet DEF Net

LEMMA SumNat ==
  ASSUME NEW f, NEW S, IsFiniteSet(S), \A x \in S : f[x] \in Nat
  PROVE  SumFunctionOnSet(f, S) \in Nat
BY SumNatIsArea, AreaFinite

\* A sum of naturals is at most another sum of naturals over a set that has
\* every element counted in the first, with at least its value.
THEOREM SumMonotone ==
  ASSUME NEW f, NEW S, IsFiniteSet(S), \A x \in S : f[x] \in Nat,
         NEW g, NEW T, IsFiniteSet(T), \A x \in T : g[x] \in Nat,
         \A x \in S : f[x] = 0 \/ (x \in T /\ f[x] <= g[x])
  PROVE  SumFunctionOnSet(f, S) <= SumFunctionOnSet(g, T)
<1>1. Area(f, S) \subseteq Area(g, T)
  <2>1. ASSUME NEW x \in S PROVE {x} \X (1 .. f[x]) \subseteq Area(g, T)
    <3>1. CASE f[x] = 0
      BY <3>1
    <3>2. CASE x \in T /\ f[x] <= g[x]
      <4>1. 1 .. f[x] \subseteq 1 .. g[x]
        BY <3>2
      <4> QED BY <3>2, <4>1 DEF Area
    <3> QED BY <3>1, <3>2
  <2> QED BY <2>1 DEF Area
<1>2. IsFiniteSet(Area(g, T))
  BY AreaFinite
<1>3. Cardinality(Area(f, S)) <= Cardinality(Area(g, T))
  BY <1>1, <1>2, FS_Subset
<1> QED BY <1>3, SumNatIsArea

\* Two sets without a common element.
LEMMA SumApart ==
  ASSUME NEW f, NEW S, IsFiniteSet(S), NEW T, IsFiniteSet(T), S \cap T = {},
         \A x \in S \cup T : f[x] \in Nat
  PROVE  SumFunctionOnSet(f, S \cup T) = SumFunctionOnSet(f, S) + SumFunctionOnSet(f, T)
<1>1. IsFiniteSet(S \cup T)
  BY FS_Union
<1>2. Area(f, S \cup T) = Area(f, S) \cup Area(f, T) /\ Area(f, S) \cap Area(f, T) = {}
  BY DEF Area
<1>3. /\ IsFiniteSet(Area(f, S)) /\ IsFiniteSet(Area(f, T))
      /\ Cardinality(Area(f, S)) \in Nat /\ Cardinality(Area(f, T)) \in Nat
  BY AreaFinite
<1>4. ASSUME NEW A, NEW B, IsFiniteSet(A), IsFiniteSet(B), A \cap B = {}
      PROVE  Cardinality(A \cup B) = Cardinality(A) + Cardinality(B)
  <2>1. Cardinality(A \cup B) = Cardinality(A) + Cardinality(B) - Cardinality({})
    BY <1>4, FS_Union
  <2>2. Cardinality({}) = 0 /\ Cardinality(A) \in Nat /\ Cardinality(B) \in Nat
    BY <1>4, FS_EmptySet, FS_CardinalityType
  <2> QED BY <2>1, <2>2
<1>5. Cardinality(Area(f, S) \cup Area(f, T)) = Cardinality(Area(f, S)) + Cardinality(Area(f, T))
  BY <1>2, <1>3, <1>4
<1>6. /\ SumFunctionOnSet(f, S \cup T) = Cardinality(Area(f, S \cup T))
      /\ SumFunctionOnSet(f, S) = Cardinality(Area(f, S))
      /\ SumFunctionOnSet(f, T) = Cardinality(Area(f, T))
  BY <1>1, SumNatIsArea
<1> QED BY <1>2, <1>5, <1>6
=============================================================================
