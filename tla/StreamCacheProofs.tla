--------------------------- MODULE StreamCacheProofs ---------------------------
(***************************************************************************)
(* Proofs about the stream cache: for any tracks, formats, chunks, clients *)
(* and writes, and any order of opens, reads, fetches, writes, evictions,  *)
(* changes and restarts, the row a client reads from stays until it leaves *)
(* (RowStays), a set bit has its bytes (BitHasBytes), and on a disk that   *)
(* does not fail no file is left that no row counts (NoStrayFile).  Where  *)
(* a track's formats are of one size, a row's bytes are those of its set   *)
(* chunks (BytesAreCounted), and the bytes held and those being written    *)
(* never pass the cap (CapHolds).                                          *)
(*                                                                         *)
(* The first rests on who waits on what: a fetch has those waiting on it,  *)
(* so its track has players and is never forgotten.  The others rest on    *)
(* what a write may still count on: while its track was not forgotten the  *)
(* row is of its format, and the file it opened is the one at its path.    *)
(* The cap rests on the count, which is of natural numbers: what is        *)
(* forgotten makes room, and what lands was counted while it was written.  *)
(***************************************************************************)
EXTENDS StreamCache, FiniteSetTheorems, WellFoundedInduction, TLAPS

----------------------------------------------------------------------------
(* Sums                                                                    *)
(* The sum of a function over a finite set is a recursive function over    *)
(* its subsets. The induction is by inclusion: a set of counterexamples    *)
(* would have a least one (WFMin).                                         *)

Pick(S) == CHOOSE x \in S : TRUE

(* One step of the sum: what it is of each subset, by what it is of those  *)
(* with one element less.                                                  *)
Step(f, g, S) ==
    [T \in SUBSET S |-> IF T = {} THEN 0 ELSE f[Pick(T)] + g[T \ {Pick(T)}]]

Sums(f, S) == CHOOSE g : g = Step(f, g, S)

(* The sum over a set is what the recursive function is of that set.       *)
LEMMA SumIsRecursive ==
    ASSUME NEW f, NEW S
    PROVE  SumFunctionOnSet(f, S) = Sums(f, S)[S]
  BY DEF SumFunctionOnSet, FoldFunctionOnSet, MapThenFoldSet, Sums, Step, Pick

(* A set of subsets of a finite set has a smallest one.                    *)
LEMMA SmallestSubset ==
    ASSUME NEW S, IsFiniteSet(S), NEW Bad \in SUBSET (SUBSET S), Bad # {}
    PROVE  \E T \in Bad : \A U \in SUBSET T : U # T => U \notin Bad
<1>1. FiniteSubsetsOf(S) = SUBSET S
    BY FS_FiniteSubsetsOfFinite
<1>2. IsWellFoundedOn(StrictSubsetOrdering(S), SUBSET S)
    BY <1>1, FS_StrictSubsetOrderingWellFounded
<1>3. PICK T \in Bad : \A U \in Bad : <<U, T>> \notin StrictSubsetOrdering(S)
    BY <1>2, WFMin
<1>4. ASSUME NEW U \in SUBSET T, U # T, U \in Bad
      PROVE  FALSE
  <2>1. <<U, T>> \in (SUBSET S) \X (SUBSET S)
      BY <1>4
  <2>2. <<U, T>> \in StrictSubsetOrdering(S)
      BY <1>4, <2>1 DEF StrictSubsetOrdering
  <2> QED
      BY <1>3, <1>4, <2>2
<1> QED
    BY <1>4

(* What is picked of a set is in it.                                       *)
LEMMA Picked ==
    ASSUME NEW S, S # {}
    PROVE  Pick(S) \in S
  BY DEF Pick

(* Two sums agree wherever both are defined.                               *)
LEMMA SumsAgree ==
    ASSUME NEW f, NEW A, NEW B, NEW g, NEW h, g = Step(f, g, A), h = Step(f, h, B),
           NEW S \in SUBSET A, S \in SUBSET B, IsFiniteSet(S)
    PROVE  g[S] = h[S]
<1> DEFINE Bad == {T \in SUBSET S : g[T] # h[T]}
<1> SUFFICES ASSUME Bad # {} PROVE FALSE
    OBVIOUS
<1>1. PICK T \in Bad : \A U \in SUBSET T : U # T => U \notin Bad
  <2>1. Bad \in SUBSET (SUBSET S) /\ Bad # {}
      OBVIOUS
  <2> HIDE DEF Bad
  <2> QED
      BY <2>1, SmallestSubset
<1>2. /\ g[T] = IF T = {} THEN 0 ELSE f[Pick(T)] + g[T \ {Pick(T)}]
      /\ h[T] = IF T = {} THEN 0 ELSE f[Pick(T)] + h[T \ {Pick(T)}]
    BY DEF Step
<1>3. T # {}
    BY <1>2
<1>4. Pick(T) \in T
    BY <1>3, Picked
<1>5. g[T \ {Pick(T)}] = h[T \ {Pick(T)}]
    BY <1>1, <1>4
<1> QED
    BY <1>2, <1>3, <1>5

(* The sums over the subsets of a finite set exist.                        *)
LEMMA SumsExist ==
    ASSUME NEW f, NEW S, IsFiniteSet(S)
    PROVE  Sums(f, S) = Step(f, Sums(f, S), S)
<1> DEFINE Bad == {T \in SUBSET S : ~\E g : g = Step(f, g, T)}
<1>1. \A T : (\E g : g = Step(f, g, T)) => Sums(f, T) = Step(f, Sums(f, T), T)
    BY DEF Sums
<1>2. ASSUME Bad # {}
      PROVE  FALSE
  <2>1. PICK T \in Bad : \A U \in SUBSET T : U # T => U \notin Bad
    <3>1. Bad \in SUBSET (SUBSET S) /\ Bad # {}
        BY <1>2
    <3> HIDE DEF Bad
    <3> QED
        BY <3>1, SmallestSubset
  <2> DEFINE g == [U \in SUBSET T |->
                      IF U = T /\ T # {} THEN f[Pick(T)] + Sums(f, T \ {Pick(T)})[T \ {Pick(T)}]
                      ELSE IF U = {} THEN 0 ELSE Sums(f, U)[U]]
  <2>2. ASSUME NEW U \in SUBSET T
        PROVE  g[U] = IF U = {} THEN 0 ELSE f[Pick(U)] + g[U \ {Pick(U)}]
    <3>1. CASE U = {}
        BY <3>1
    <3>2. CASE U # {}
      <4> DEFINE V == U \ {Pick(U)}
      <4>1. V \in SUBSET T /\ V # T /\ V # U /\ IsFiniteSet(V) /\ V \in SUBSET U
          BY <3>2, Picked, FS_Subset
      <4>2. Sums(f, V) = Step(f, Sums(f, V), V)
          BY <1>1, <2>1, <4>1
      <4>3. g[V] = Sums(f, V)[V]
        <5>1. V = {} => Sums(f, V)[V] = 0
            BY <4>2 DEF Step
        <5> QED
            BY <4>1, <5>1
      <4>4. CASE U = T
          BY <3>2, <4>3, <4>4
      <4>5. CASE U # T
        <5>1. Sums(f, U) = Step(f, Sums(f, U), U)
            BY <1>1, <2>1, <4>5
        <5>2. Sums(f, U)[U] = f[Pick(U)] + Sums(f, U)[V]
            BY <3>2, <5>1 DEF Step
        <5>3. Sums(f, U)[V] = Sums(f, V)[V]
            BY <4>1, <4>2, <5>1, SumsAgree
        <5> HIDE DEF V
        <5>4. g[U] = Sums(f, U)[U]
            BY <3>2, <4>5
        <5> QED
            BY <3>2, <4>3, <5>2, <5>3, <5>4 DEF V
      <4> QED
          BY <4>4, <4>5
    <3> QED
        BY <3>1, <3>2
  <2>3. g = Step(f, g, T)
    <3>1. g = [U \in SUBSET T |-> g[U]]
        OBVIOUS
    <3> HIDE DEF g
    <3> QED
        BY <2>2, <3>1 DEF Step
  <2> QED
      BY <2>3
<1> QED
    BY <1>1, <1>2

(* The sum over no elements.                                               *)
LEMMA SumOfNone == \A f : SumFunctionOnSet(f, {}) = 0
<1> SUFFICES ASSUME NEW f PROVE SumFunctionOnSet(f, {}) = 0
    OBVIOUS
<1>1. Sums(f, {}) = Step(f, Sums(f, {}), {})
    BY SumsExist, FS_EmptySet
<1> QED
    BY <1>1, SumIsRecursive DEF Step

(* The sum, by the element that is picked.                                 *)
LEMMA SumByPick ==
    ASSUME NEW f, NEW S, IsFiniteSet(S), S # {}
    PROVE  SumFunctionOnSet(f, S) = f[Pick(S)] + SumFunctionOnSet(f, S \ {Pick(S)})
<1> DEFINE T == S \ {Pick(S)}
<1>1. Sums(f, S) = Step(f, Sums(f, S), S) /\ Sums(f, T) = Step(f, Sums(f, T), T) /\ IsFiniteSet(T)
    BY SumsExist, FS_Subset
<1>2. Sums(f, S)[T] = Sums(f, T)[T]
    BY <1>1, SumsAgree
<1>3. Sums(f, S)[S] = f[Pick(S)] + Sums(f, S)[T]
    BY <1>1 DEF Step
<1> QED
    BY <1>2, <1>3, SumIsRecursive

(* A sum of integers is one.                                               *)
LEMMA SumIsInt ==
    ASSUME NEW f, NEW S, IsFiniteSet(S), \A x \in S : f[x] \in Int
    PROVE  SumFunctionOnSet(f, S) \in Int
<1> DEFINE Bad == {T \in SUBSET S : SumFunctionOnSet(f, T) \notin Int}
<1> SUFFICES ASSUME Bad # {} PROVE FALSE
    OBVIOUS
<1>1. PICK T \in Bad : \A U \in SUBSET T : U # T => U \notin Bad
  <2>1. Bad \in SUBSET (SUBSET S) /\ Bad # {}
      OBVIOUS
  <2> HIDE DEF Bad
  <2> QED
      BY <2>1, SmallestSubset
<1>2. T # {}
    BY SumOfNone
<1>3. Pick(T) \in T /\ IsFiniteSet(T)
    BY <1>2, Picked, FS_Subset
<1>4. SumFunctionOnSet(f, T \ {Pick(T)}) \in Int
    BY <1>1, <1>3
<1>5. SumFunctionOnSet(f, T) = f[Pick(T)] + SumFunctionOnSet(f, T \ {Pick(T)})
    BY <1>2, <1>3, SumByPick
<1> QED
    BY <1>3, <1>4, <1>5

(* The sum, by any element.                                                *)
LEMMA SumByAny ==
    ASSUME NEW f, NEW S, IsFiniteSet(S), \A y \in S : f[y] \in Int, NEW x \in S
    PROVE  SumFunctionOnSet(f, S) = f[x] + SumFunctionOnSet(f, S \ {x})
<1> DEFINE Bad == {T \in SUBSET S :
                     \E y \in T : SumFunctionOnSet(f, T) # f[y] + SumFunctionOnSet(f, T \ {y})}
<1> SUFFICES ASSUME Bad # {} PROVE FALSE
    OBVIOUS
<1>1. PICK T \in Bad : \A U \in SUBSET T : U # T => U \notin Bad
  <2>1. Bad \in SUBSET (SUBSET S) /\ Bad # {}
      OBVIOUS
  <2> HIDE DEF Bad
  <2> QED
      BY <2>1, SmallestSubset
<1>2. PICK y \in T : SumFunctionOnSet(f, T) # f[y] + SumFunctionOnSet(f, T \ {y})
    BY <1>1
<1> DEFINE z == Pick(T)
<1>3. z \in T /\ IsFiniteSet(T) /\ SumFunctionOnSet(f, T) = f[z] + SumFunctionOnSet(f, T \ {z})
    BY <1>2, Picked, FS_Subset, SumByPick
<1> HIDE DEF z
<1>4. y # z
    BY <1>2, <1>3
<1>5. SumFunctionOnSet(f, T \ {z}) = f[y] + SumFunctionOnSet(f, (T \ {z}) \ {y})
  <2>1. T \ {z} \in SUBSET S /\ T \ {z} \in SUBSET T /\ T \ {z} # T /\ y \in T \ {z}
      BY <1>2, <1>3, <1>4
  <2> QED
      BY <1>1, <2>1
<1>6. SumFunctionOnSet(f, T \ {y}) = f[z] + SumFunctionOnSet(f, (T \ {y}) \ {z})
  <2>1. T \ {y} \in SUBSET S /\ T \ {y} \in SUBSET T /\ T \ {y} # T /\ z \in T \ {y}
      BY <1>2, <1>3, <1>4
  <2> QED
      BY <1>1, <2>1
<1>7. (T \ {z}) \ {y} = (T \ {y}) \ {z}
    OBVIOUS
<1> DEFINE rest == SumFunctionOnSet(f, (T \ {y}) \ {z})
<1>8. rest \in Int
    BY <1>3, SumIsInt, FS_Subset
<1>9. f[y] \in Int /\ f[z] \in Int
    BY <1>2, <1>3
<1>10. /\ SumFunctionOnSet(f, T) = f[z] + (f[y] + rest)
       /\ SumFunctionOnSet(f, T \ {y}) = f[z] + rest
    BY <1>3, <1>5, <1>6, <1>7
<1> HIDE DEF rest
<1>11. f[z] + (f[y] + rest) = f[y] + (f[z] + rest)
    BY <1>8, <1>9
<1> QED
    BY <1>2, <1>10, <1>11

(* Functions that agree over a set have one sum over it.                   *)
LEMMA SumOfSame ==
    ASSUME NEW f, NEW g, NEW S, IsFiniteSet(S), \A x \in S : f[x] = g[x]
    PROVE  SumFunctionOnSet(f, S) = SumFunctionOnSet(g, S)
<1> DEFINE Bad == {T \in SUBSET S : SumFunctionOnSet(f, T) # SumFunctionOnSet(g, T)}
<1> SUFFICES ASSUME Bad # {} PROVE FALSE
    OBVIOUS
<1>1. PICK T \in Bad : \A U \in SUBSET T : U # T => U \notin Bad
  <2>1. Bad \in SUBSET (SUBSET S) /\ Bad # {}
      OBVIOUS
  <2> HIDE DEF Bad
  <2> QED
      BY <2>1, SmallestSubset
<1>2. T # {}
    BY SumOfNone
<1>3. Pick(T) \in T /\ IsFiniteSet(T)
    BY <1>2, Picked, FS_Subset
<1>4. SumFunctionOnSet(f, T \ {Pick(T)}) = SumFunctionOnSet(g, T \ {Pick(T)})
    BY <1>1, <1>3
<1>5. /\ SumFunctionOnSet(f, T) = f[Pick(T)] + SumFunctionOnSet(f, T \ {Pick(T)})
      /\ SumFunctionOnSet(g, T) = g[Pick(T)] + SumFunctionOnSet(g, T \ {Pick(T)})
    BY <1>2, <1>3, SumByPick
<1> QED
    BY <1>3, <1>4, <1>5

(* A sum of natural numbers is one, and no less than a part of it.         *)
LEMMA SumOfPart ==
    ASSUME NEW f, NEW S, IsFiniteSet(S), \A x \in S : f[x] \in Nat, NEW T \in SUBSET S
    PROVE  /\ SumFunctionOnSet(f, T) \in Nat
           /\ SumFunctionOnSet(f, T) <= SumFunctionOnSet(f, S)
<1>1. ASSUME NEW R \in SUBSET S
      PROVE  SumFunctionOnSet(f, R) \in Nat
  <2> DEFINE Bad == {U \in SUBSET S : SumFunctionOnSet(f, U) \notin Nat}
  <2> SUFFICES ASSUME Bad # {} PROVE FALSE
      OBVIOUS
  <2>1. PICK U \in Bad : \A V \in SUBSET U : V # U => V \notin Bad
    <3>1. Bad \in SUBSET (SUBSET S) /\ Bad # {}
        OBVIOUS
    <3> HIDE DEF Bad
    <3> QED
        BY <3>1, SmallestSubset
  <2>2. U # {}
      BY SumOfNone
  <2>3. Pick(U) \in U /\ IsFiniteSet(U)
      BY <2>2, Picked, FS_Subset
  <2>4. SumFunctionOnSet(f, U \ {Pick(U)}) \in Nat
      BY <2>1, <2>3
  <2>5. SumFunctionOnSet(f, U) = f[Pick(U)] + SumFunctionOnSet(f, U \ {Pick(U)})
      BY <2>2, <2>3, SumByPick
  <2> QED
      BY <2>3, <2>4, <2>5
<1> DEFINE Bad == {U \in SUBSET S : T \subseteq U /\ ~(SumFunctionOnSet(f, T) <= SumFunctionOnSet(f, U))}
<1>2. ASSUME Bad # {}
      PROVE  FALSE
  <2>1. PICK U \in Bad : \A V \in SUBSET U : V # U => V \notin Bad
    <3>1. Bad \in SUBSET (SUBSET S) /\ Bad # {}
        BY <1>2
    <3> HIDE DEF Bad
    <3> QED
        BY <3>1, SmallestSubset
  <2>2. PICK x \in U : x \notin T
    <3>1. T # U
        BY <1>1, <2>1
    <3> QED
        BY <2>1, <3>1
  <2>3. SumFunctionOnSet(f, U) = f[x] + SumFunctionOnSet(f, U \ {x})
      BY <2>1, FS_Subset, SumByAny
  <2>4. SumFunctionOnSet(f, T) <= SumFunctionOnSet(f, U \ {x})
      BY <2>1, <2>2
  <2>5. /\ f[x] \in Nat /\ SumFunctionOnSet(f, U \ {x}) \in Nat
        /\ SumFunctionOnSet(f, T) \in Nat
      BY <1>1, <2>1, <2>2
  <2> QED
      BY <2>1, <2>3, <2>4, <2>5
<1> QED
    BY <1>1, <1>2

(* No sum is greater than that of a function that is nowhere less.         *)
LEMMA SumOfLess ==
    ASSUME NEW f, NEW g, NEW S, IsFiniteSet(S),
           \A x \in S : f[x] \in Int /\ g[x] \in Int /\ f[x] <= g[x]
    PROVE  SumFunctionOnSet(f, S) <= SumFunctionOnSet(g, S)
<1> DEFINE Bad == {T \in SUBSET S : ~(SumFunctionOnSet(f, T) <= SumFunctionOnSet(g, T))}
<1> SUFFICES ASSUME Bad # {} PROVE FALSE
    OBVIOUS
<1>1. PICK T \in Bad : \A U \in SUBSET T : U # T => U \notin Bad
  <2>1. Bad \in SUBSET (SUBSET S) /\ Bad # {}
      OBVIOUS
  <2> HIDE DEF Bad
  <2> QED
      BY <2>1, SmallestSubset
<1>2. T # {}
    BY SumOfNone
<1> DEFINE x == Pick(T)
           rest == T \ {x}
<1>3. x \in T /\ IsFiniteSet(T) /\ rest \in SUBSET T /\ rest # T /\ IsFiniteSet(rest)
    BY <1>2, Picked, FS_Subset
<1>4. SumFunctionOnSet(f, rest) <= SumFunctionOnSet(g, rest)
    BY <1>1, <1>3
<1>5. SumFunctionOnSet(f, rest) \in Int /\ SumFunctionOnSet(g, rest) \in Int
    BY <1>3, SumIsInt
<1>6. /\ SumFunctionOnSet(f, T) = f[x] + SumFunctionOnSet(f, rest)
      /\ SumFunctionOnSet(g, T) = g[x] + SumFunctionOnSet(g, rest)
    BY <1>2, <1>3, SumByPick
<1>7. f[x] \in Int /\ g[x] \in Int /\ f[x] <= g[x]
    BY <1>3
<1> HIDE DEF x, rest
<1>8. SumFunctionOnSet(f, T) <= SumFunctionOnSet(g, T)
    BY <1>4, <1>5, <1>6, <1>7
<1> QED
    BY <1>8

(* What is nothing on a part of a set adds nothing to its sum.             *)
LEMMA SumOfRest ==
    ASSUME NEW f, NEW S, IsFiniteSet(S), \A x \in S : f[x] \in Int,
           NEW T \in SUBSET S, \A x \in T : f[x] = 0
    PROVE  SumFunctionOnSet(f, S) = SumFunctionOnSet(f, S \ T)
<1> DEFINE Bad == {U \in SUBSET S : SumFunctionOnSet(f, U) # SumFunctionOnSet(f, U \ T)}
<1> SUFFICES ASSUME Bad # {} PROVE FALSE
    OBVIOUS
<1>1. PICK U \in Bad : \A V \in SUBSET U : V # U => V \notin Bad
  <2>1. Bad \in SUBSET (SUBSET S) /\ Bad # {}
      OBVIOUS
  <2> HIDE DEF Bad
  <2> QED
      BY <2>1, SmallestSubset
<1>2. PICK x \in U : x \in T
  <2>1. U \ T # U
      BY <1>1
  <2> QED
      BY <2>1
<1>3. IsFiniteSet(U) /\ x \in S
    BY <1>1, FS_Subset
<1>4. SumFunctionOnSet(f, U) = f[x] + SumFunctionOnSet(f, U \ {x})
    BY <1>2, <1>3, SumByAny
<1>5. SumFunctionOnSet(f, U \ {x}) = SumFunctionOnSet(f, (U \ {x}) \ T)
    BY <1>1, <1>2
<1>6. (U \ {x}) \ T = U \ T
    BY <1>2
<1>7. SumFunctionOnSet(f, U \ {x}) \in Int
    BY <1>3, SumIsInt, FS_Subset
<1>8. f[x] = 0
    BY <1>2
<1>9. SumFunctionOnSet(f, U) = SumFunctionOnSet(f, U \ {x})
    BY <1>4, <1>7, <1>8
<1>10. SumFunctionOnSet(f, U) = SumFunctionOnSet(f, U \ T)
    BY <1>5, <1>6, <1>9
<1> QED
    BY <1>10

(* One element's value changes the sum by as much.                         *)
LEMMA SumOfChange ==
    ASSUME NEW f, NEW g, NEW S, IsFiniteSet(S), \A y \in S : f[y] \in Int /\ g[y] \in Int,
           NEW x \in S, \A y \in S \ {x} : f[y] = g[y]
    PROVE  /\ SumFunctionOnSet(f, S) \in Int /\ SumFunctionOnSet(g, S) \in Int
           /\ SumFunctionOnSet(g, S) = SumFunctionOnSet(f, S) + (g[x] - f[x])
<1>1. /\ SumFunctionOnSet(f, S) = f[x] + SumFunctionOnSet(f, S \ {x})
      /\ SumFunctionOnSet(g, S) = g[x] + SumFunctionOnSet(g, S \ {x})
    BY SumByAny
<1>2. IsFiniteSet(S \ {x})
    BY FS_Subset
<1>3. SumFunctionOnSet(f, S \ {x}) = SumFunctionOnSet(g, S \ {x})
    BY <1>2, SumOfSame
<1>4. SumFunctionOnSet(f, S \ {x}) \in Int
    BY <1>2, SumIsInt
<1>5. SumFunctionOnSet(f, S) \in Int /\ SumFunctionOnSet(g, S) \in Int
    BY SumIsInt
<1> QED
    BY <1>1, <1>3, <1>4, <1>5

----------------------------------------------------------------------------

USE CacheConstants, StatesAreSomething

----------------------------------------------------------------------------
(* What the state is made of                                               *)

LEMMA RowIs ==
    ASSUME TypeOK, NEW id \in Tracks, Held(id)
    PROVE  /\ rows[id] \in CacheRow /\ rows[id].format \in Formats
           /\ rows[id].chunks \subseteq Chunks /\ rows[id].bytes \in Int
<1>1. rows[id] \in CacheRow
    BY DEF TypeOK, Held
<1> QED
    BY <1>1 DEF CacheRow

LEMMA ClientIs ==
    ASSUME TypeOK, NEW c \in Clients, clients[c] # None
    PROVE  /\ clients[c] \in OpenClient /\ clients[c].id \in Tracks /\ clients[c].n \in Chunks
           /\ clients[c].pc \notin NamingPcs => clients[c].format \in Formats
<1>1. clients[c] \in OpenClient
    BY DEF TypeOK
<1> QED
    BY <1>1 DEF OpenClient

LEMMA FlightIs ==
    ASSUME TypeOK, NEW id \in Tracks, NEW n \in Chunks, Flies(id, n)
    PROVE  /\ flights[id][n] \in Flight /\ flights[id][n].format \in Formats
           /\ flights[id][n].waiters \subseteq Clients
<1>1. flights[id][n] \in Flight
    BY DEF TypeOK, Flies
<1> QED
    BY <1>1 DEF Flight

LEMMA WriteIs ==
    ASSUME TypeOK, NEW w \in Writers, writes[w] # None
    PROVE  /\ writes[w] \in Write /\ writes[w].id \in Tracks
           /\ writes[w].format \in Formats /\ writes[w].n \in Chunks
<1>1. writes[w] \in Write
    BY DEF TypeOK
<1> QED
    BY <1>1 DEF Write

(* A client at a place of the format it was given, or naming it.           *)
LEMMA AwaitingIs ==
    ASSUME NEW pc \in {"naming", "reading", "waiting", "served"}, NEW id \in Tracks,
           NEW format \in Formats \cup {None}, NEW n \in Chunks,
           pc # "naming" => format \in Formats
    PROVE  /\ Awaiting(pc, id, format, n) \in OpenClient
           /\ Awaiting(pc, id, format, n) # None
           /\ Awaiting(pc, id, format, n).pc = pc /\ Awaiting(pc, id, format, n).id = id
           /\ Awaiting(pc, id, format, n).format = format /\ Awaiting(pc, id, format, n).n = n
<1>1. Awaiting(pc, id, format, n) \in OpenClient
    BY DEF Awaiting, OpenClient, NamingPcs
<1> QED
    BY <1>1 DEF Awaiting

(* An open client that goes on elsewhere than to naming, on what it has.   *)
LEMMA MovesTo ==
    ASSUME NEW client \in OpenClient,
           NEW pc \in {"reading", "served", "leftNaming", "leftReading"},
           pc = "leftNaming" \/ client.pc \notin NamingPcs
    PROVE  /\ [client EXCEPT !.pc = pc] \in OpenClient
           /\ [client EXCEPT !.pc = pc] # None
           /\ [client EXCEPT !.pc = pc].pc = pc /\ [client EXCEPT !.pc = pc].id = client.id
           /\ [client EXCEPT !.pc = pc].format = client.format
<1>1. [client EXCEPT !.pc = pc] \in OpenClient
    BY DEF OpenClient, NamingPcs
<1> QED
    BY <1>1 DEF OpenClient

(* A use is of tracks, and forgetting one only takes uses away.            *)
LEMMA UsedIs ==
    ASSUME TypeOK
    PROVE  /\ \A ids : Among(ids) \subseteq Tracks \X Tracks
           /\ \A id \in Tracks : Touched(id) \subseteq Tracks \X Tracks
<1>1. \A ids : Among(ids) \subseteq Tracks \X Tracks
    BY DEF TypeOK, Among
<1>2. \A id \in Tracks : {other \in Tracks \ {id} : Held(other)} \X {id} \subseteq Tracks \X Tracks
    OBVIOUS
<1> QED
    BY <1>1, <1>2 DEF Touched

LEMMA EvictedMay ==
    ASSUME NEW length
    PROVE  /\ Evicted(length) \subseteq Tracks
           /\ \A id \in Evicted(length) : Players(id) = {}
    BY DEF Evicted, Evictable

(* What goes as outdated has no player left.                               *)
LEMMA OutdatedMay ==
    ASSUME NEW id \in Tracks, NEW leaving, NEW marked
    PROVE  /\ Outdated(id, leaving, marked) \subseteq {id}
           /\ Outdated(id, leaving, marked) # {} => Players(id) \subseteq leaving
    BY DEF Outdated

----------------------------------------------------------------------------
(* Forgetting tracks                                                       *)

LEMMA ForgetIs ==
    ASSUME TypeOK, NEW gone, Forget(gone)
    PROVE  /\ rows' \in [Tracks -> CacheRow \cup {None}]
           /\ used' \subseteq Tracks \X Tracks
           /\ files' \in [Tracks -> [Formats -> (SUBSET Chunks) \cup {None}]]
           /\ \A id \in Tracks : rows'[id] = IF id \in gone THEN None ELSE rows[id]
           /\ \A id \in Tracks, f \in Formats :
                 files'[id][f] = IF id \in gone /\ f = rows[id].format THEN None ELSE files[id][f]
<1>1. rows' \in [Tracks -> CacheRow \cup {None}]
    BY DEF Forget, RowsWithout, TypeOK
<1>2. \A id \in Tracks : rows'[id] = IF id \in gone THEN None ELSE rows[id]
    BY DEF Forget, RowsWithout
<1>3. used' \subseteq Tracks \X Tracks
    BY UsedIs DEF Forget
<1>4. files' = [id \in Tracks |-> IF id \in gone
                                  THEN [files[id] EXCEPT ![rows[id].format] = None]
                                  ELSE files[id]]
    BY DEF Forget
<1>5. \A id \in Tracks : files[id] \in [Formats -> (SUBSET Chunks) \cup {None}]
    BY DEF TypeOK
<1>6. files' \in [Tracks -> [Formats -> (SUBSET Chunks) \cup {None}]]
    BY <1>4, <1>5
<1>7. \A id \in Tracks, f \in Formats :
          files'[id][f] = IF id \in gone /\ f = rows[id].format THEN None ELSE files[id][f]
    BY <1>4, <1>5
<1> QED
    BY <1>1, <1>2, <1>3, <1>6, <1>7

(* The write is what it was, but no longer current when its track is gone, *)
(* nor linked when its file is.                                            *)
WriteAfter(write, after, gone) ==
    /\ after \in Write
    /\ after.id = write.id /\ after.format = write.format /\ after.n = write.n
    /\ after.stage = write.stage
    /\ after.linked => write.linked /\ (write.id \in gone => write.format # rows[write.id].format)
    /\ after.current => write.current /\ write.id \notin gone
    /\ write.current /\ write.id \notin gone => (write.linked => after.linked)
    /\ after.shared => write.shared

LEMMA WritesAfterIs ==
    ASSUME TypeOK, NEW gone, NEW w \in Writers
    PROVE  /\ WritesAfter(gone)[w] \in Write \cup {None}
           /\ writes[w] = None => WritesAfter(gone)[w] = None
           /\ writes[w] # None => WriteAfter(writes[w], WritesAfter(gone)[w], gone)
           /\ DOMAIN WritesAfter(gone) = Writers
<1>1. WritesAfter(gone)[w] =
          IF writes[w] # None /\ writes[w].id \in gone
          THEN [Unlinked(writes[w]) EXCEPT !.current = FALSE]
          ELSE writes[w]
    BY DEF WritesAfter
<1>2. DOMAIN WritesAfter(gone) = Writers
    BY DEF WritesAfter
<1>3. CASE writes[w] = None
    BY <1>1, <1>2, <1>3
<1>4. CASE writes[w] # None
  <2> DEFINE write == writes[w]
  <2>1. write \in Write
      BY <1>4, WriteIs
  <2> HIDE DEF write
  <2>2. WriteAfter(write, write, gone) \/ write.id \in gone
      BY <2>1 DEF WriteAfter, Write
  <2>3. /\ Unlinked(write) \in Write
        /\ Unlinked(write).id = write.id /\ Unlinked(write).format = write.format
        /\ Unlinked(write).n = write.n /\ Unlinked(write).stage = write.stage
        /\ Unlinked(write).linked => write.linked /\ write.format # rows[write.id].format
        /\ Unlinked(write).shared = write.shared
      BY <2>1 DEF Unlinked, Write
  <2>4. WriteAfter(write, [Unlinked(write) EXCEPT !.current = FALSE], gone) \/ write.id \notin gone
      BY <2>1, <2>3 DEF WriteAfter, Write
  <2>5. WriteAfter(writes[w], WritesAfter(gone)[w], gone)
      BY <1>1, <1>4, <2>2, <2>4 DEF write
  <2> QED
      BY <1>2, <1>4, <2>5 DEF WriteAfter
<1> QED
    BY <1>3, <1>4

(* Forgetting tracks keeps what writes count on, and so do writes that     *)
(* begin then on the row there is.                                         *)
LEMMA ForgetKeeps ==
    ASSUME IInv, NEW gone, Forget(gone),
           \A w \in Writers : writes[w] # None =>
               writes'[w] # None /\ WriteAfter(writes[w], writes'[w], gone),
           \A w \in Writers : writes[w] = None /\ writes'[w] # None =>
               /\ writes'[w] \in Write /\ writes'[w].stage = "opening" /\ ~writes'[w].linked
               /\ rows'[writes'[w].id] # None /\ rows'[writes'[w].id].format = writes'[w].format
    PROVE  WritesFit'
<1>1. /\ \A id \in Tracks : rows'[id] = IF id \in gone THEN None ELSE rows[id]
      /\ \A id \in Tracks, f \in Formats :
            files'[id][f] = IF id \in gone /\ f = rows[id].format THEN None ELSE files[id][f]
    BY ForgetIs DEF IInv
<1>2. CurrentFits'
  <2> SUFFICES ASSUME NEW w \in Writers, writes'[w] # None, writes'[w].current
               PROVE  /\ rows'[writes'[w].id] # None
                      /\ rows'[writes'[w].id].format = writes'[w].format
                      /\ writes'[w].stage = "open" => writes'[w].linked
      BY DEF CurrentFits, Held
  <2>1. CASE writes[w] = None
      BY <2>1
  <2>2. CASE writes[w] # None
    <3>1. WriteAfter(writes[w], writes'[w], gone) /\ writes[w].id \in Tracks
        BY <2>2, WriteIs DEF IInv
    <3>2. writes[w].current /\ writes[w].id \notin gone
        BY <3>1 DEF WriteAfter
    <3>3. /\ rows[writes[w].id] # None /\ rows[writes[w].id].format = writes[w].format
          /\ writes[w].stage = "open" => writes[w].linked
        BY <2>2, <3>2 DEF IInv, WritesFit, CurrentFits, Held
    <3> QED
        BY <1>1, <3>1, <3>2, <3>3 DEF WriteAfter
  <2> QED
      BY <2>1, <2>2
<1>3. LinkedHasFile'
  <2> SUFFICES ASSUME NEW w \in Writers, writes'[w] # None, writes'[w].linked
               PROVE  files'[writes'[w].id][writes'[w].format] # None
      BY DEF LinkedHasFile
  <2>1. writes[w] # None /\ WriteAfter(writes[w], writes'[w], gone)
      OBVIOUS
  <2>2. writes[w].id \in Tracks /\ writes[w].format \in Formats
      BY <2>1, WriteIs DEF IInv
  <2>3. /\ writes[w].linked
        /\ writes[w].id \in gone => writes[w].format # rows[writes[w].id].format
      BY <2>1 DEF WriteAfter
  <2>4. files[writes[w].id][writes[w].format] # None
      BY <2>1, <2>3 DEF IInv, WritesFit, LinkedHasFile
  <2> QED
      BY <1>1, <2>1, <2>2, <2>3, <2>4 DEF WriteAfter
<1>4. BitHasBytes'
  <2> SUFFICES ASSUME NEW id \in Tracks, rows'[id] # None, NEW n \in rows'[id].chunks
               PROVE  /\ files'[id][rows'[id].format] # None
                      /\ n \in files'[id][rows'[id].format]
      BY DEF BitHasBytes, Held
  <2>1. id \notin gone /\ Held(id) /\ rows'[id] = rows[id]
      BY <1>1 DEF Held
  <2>2. files[id][rows[id].format] # None /\ n \in files[id][rows[id].format]
      BY <2>1 DEF IInv, WritesFit, BitHasBytes
  <2>3. rows[id].format \in Formats
      BY <2>1, RowIs DEF IInv
  <2> QED
      BY <1>1, <2>1, <2>2, <2>3
<1>5. NoStrayFile => NoStrayFile'
  <2> SUFFICES ASSUME NoStrayFile, NEW id \in Tracks, NEW f \in Formats, files'[id][f] # None
               PROVE  \/ rows'[id] # None /\ rows'[id].format = f
                      \/ \E w \in Writers :
                            writes'[w] # None /\ writes'[w].id = id /\ writes'[w].format = f
      BY DEF NoStrayFile, Held
  <2>1. files[id][f] # None /\ (id \in gone => f # rows[id].format)
      BY <1>1
  <2>2. CASE Held(id) /\ rows[id].format = f
      BY <1>1, <2>1, <2>2 DEF Held
  <2>3. CASE \E w \in Writers : writes[w] # None /\ writes[w].id = id /\ writes[w].format = f
      BY <2>3 DEF WriteAfter
  <2> QED
      BY <2>1, <2>2, <2>3 DEF NoStrayFile
<1> QED
    BY <1>2, <1>3, <1>4, <1>5 DEF IInv, WritesFit

(* A shared write stays shared while its fetch keeps.                      *)
LEMMA SharedStay ==
    ASSUME IInv,
           \A w \in Writers : writes'[w] # None /\ writes'[w].shared =>
               /\ writes[w] # None /\ writes[w].shared
               /\ writes'[w].id = writes[w].id /\ writes'[w].n = writes[w].n
               /\ flights'[writes[w].id][writes[w].n] # None
               /\ flights'[writes[w].id][writes[w].n].stage = "keeping"
    PROVE  SharedFlies'
<1> SUFFICES ASSUME NEW w \in Writers, writes'[w] # None, writes'[w].shared
             PROVE  /\ flights'[writes'[w].id][writes'[w].n] # None
                    /\ flights'[writes'[w].id][writes'[w].n].stage = "keeping"
                    /\ \A v \in Writers \ {w} : writes'[v] # None /\ writes'[v].shared =>
                          writes'[v].id # writes'[w].id \/ writes'[v].n # writes'[w].n
    BY DEF SharedFlies, Flies
<1>1. \A v \in Writers \ {w} : writes[v] # None /\ writes[v].shared =>
          writes[v].id # writes[w].id \/ writes[v].n # writes[w].n
    BY DEF IInv, SharedFlies
<1> QED
    BY <1>1

(* The reading clients, whose row must stay.                               *)
Reads(c) == clients[c] # None /\ clients[c].pc \notin {"leftNaming", "leftReading", "naming"}

LEMMA RowsStay ==
    ASSUME IInv,
           \A c \in Clients : Reads(c)' =>
               \/ /\ rows'[clients'[c].id] # None
                  /\ rows'[clients'[c].id].format = clients'[c].format
               \/ /\ Reads(c)
                  /\ clients'[c].id = clients[c].id /\ clients'[c].format = clients[c].format
                  /\ Held(clients[c].id) =>
                        /\ rows'[clients[c].id] # None
                        /\ rows'[clients[c].id].format = rows[clients[c].id].format
    PROVE  RowStays'
<1>1. \A c \in Clients : Reads(c) =>
          Held(clients[c].id) /\ rows[clients[c].id].format = clients[c].format
    BY DEF IInv, RowStays, Playing, Reads
<1> QED
    BY <1>1 DEF RowStays, Playing, Held, Reads

(* Rows that keep their format and gain no chunk, with their files and     *)
(* writes as they were.                                                    *)
LEMMA RowsGainNothing ==
    ASSUME IInv, UNCHANGED <<files, writes>>,
           \A id \in Tracks : Held(id) =>
               /\ rows'[id] # None /\ rows'[id].format = rows[id].format
               /\ rows'[id].chunks \subseteq rows[id].chunks,
           \A id \in Tracks : ~Held(id) /\ rows'[id] # None => rows'[id].chunks = {}
    PROVE  WritesFit'
<1>1. CurrentFits'
    BY WriteIs DEF IInv, WritesFit, CurrentFits, Held
<1>2. LinkedHasFile'
    BY DEF IInv, WritesFit, LinkedHasFile
<1>3. BitHasBytes'
    BY DEF IInv, WritesFit, BitHasBytes, Held
<1>4. NoStrayFile => NoStrayFile'
    BY DEF NoStrayFile, Held
<1> QED
    BY <1>1, <1>2, <1>3, <1>4 DEF IInv, WritesFit

----------------------------------------------------------------------------
(* Who waits on what                                                       *)

AwaitFits ==
    /\ clients \in [Clients -> OpenClient \cup {None}]
    /\ flights \in [Tracks -> [Chunks -> Flight \cup {None}]]
    /\ FlightsAwaited

FlightsStay ==
    \A id \in Tracks, n \in Chunks : Flies(id, n) =>
        flights'[id][n] # None /\ flights'[id][n].stage = flights[id][n].stage

(* A fetch is of the row there is, and of a track that is played.          *)
LEMMA FlightStands ==
    ASSUME IInv, NEW id \in Tracks, NEW n \in Chunks, Flies(id, n)
    PROVE  /\ Held(id) /\ rows[id].format = flights[id][n].format
           /\ flights[id][n].waiters \subseteq Clients /\ flights[id][n].waiters \subseteq Players(id)
           /\ Players(id) # {}
<1>1. PICK c \in flights[id][n].waiters :
          Waits(c, id, n) /\ clients[c].format = flights[id][n].format
    BY DEF IInv, FlightsAwaited
<1>2. flights[id][n].waiters \subseteq Clients
    BY FlightIs DEF IInv
<1>3. Held(id) /\ rows[id].format = clients[c].format
    BY <1>1, <1>2 DEF IInv, RowStays, Waits, Playing
<1>4. \A d \in flights[id][n].waiters : d \in Players(id)
    BY <1>2 DEF IInv, FlightsAwaited, Waits, Players, Playing
<1> QED
    BY <1>1, <1>2, <1>3, <1>4

(* A client that waits on nothing goes on to something else.               *)
LEMMA GoesOn ==
    ASSUME IInv, NEW c \in Clients, clients[c] = None \/ clients[c].pc # "waiting",
           NEW client \in OpenClient \cup {None}, client = None \/ client.pc # "waiting",
           clients' = [clients EXCEPT ![c] = client], UNCHANGED flights
    PROVE  AwaitFits' /\ FlightsStay
<1>1. clients' \in [Clients -> OpenClient \cup {None}] /\ flights' = flights
    BY DEF IInv, TypeOK
<1>2. FlightsAwaited'
  <2> SUFFICES ASSUME NEW id \in Tracks, NEW n \in Chunks
               PROVE  /\ Flies(id, n) => \A d \in flights[id][n].waiters :
                            d # c /\ d \in Clients
                      /\ ~(Waits(c, id, n)')
      BY <1>1 DEF FlightsAwaited, Flies, Waits, IInv, TypeOK
  <2>1. Flies(id, n) => \A d \in flights[id][n].waiters : Waits(d, id, n)
      BY DEF IInv, FlightsAwaited
  <2>2. Flies(id, n) => flights[id][n].waiters \subseteq Clients
      BY FlightIs DEF IInv
  <2>3. clients'[c] = client
      BY DEF IInv, TypeOK
  <2> QED
      BY <2>1, <2>2, <2>3 DEF Waits
<1> QED
    BY <1>1, <1>2 DEF AwaitFits, FlightsStay, IInv, TypeOK, Flies

LEMMA JoinKeeps ==
    ASSUME IInv, NEW c \in Clients, clients[c] = None \/ clients[c].pc # "waiting",
           NEW id \in Tracks, NEW format \in Formats, NEW n \in Chunks,
           Flies(id, n) => flights[id][n].format = format,
           Join(c, id, format, n)
    PROVE  /\ AwaitFits' /\ FlightsStay
           /\ clients' = [clients EXCEPT ![c] = Awaiting("waiting", id, format, n)]
<1> DEFINE joined == Joined(flights[id][n], c, format)
           me == Awaiting("waiting", id, format, n)
<1>1. clients' = [clients EXCEPT ![c] = me] /\ flights' = [flights EXCEPT ![id][n] = joined]
    BY DEF Join
<1>2. /\ joined \in Flight /\ joined.format = format
      /\ flights[id][n] # None => /\ joined.stage = flights[id][n].stage
                                  /\ joined.waiters = flights[id][n].waiters \cup {c}
      /\ flights[id][n] = None => joined.waiters = {c}
  <2>1. CASE flights[id][n] = None
      BY <2>1 DEF Joined, Flight
  <2>2. CASE flights[id][n] # None
    <3>1. flights[id][n] \in Flight /\ flights[id][n].format = format
        BY <2>2, FlightIs DEF IInv, Flies
    <3> QED
        BY <2>2, <3>1 DEF Joined, Flight
  <2> QED
      BY <2>1, <2>2
<1> HIDE DEF joined
<1>3. /\ me \in OpenClient /\ me # None /\ me.pc = "waiting"
      /\ me.id = id /\ me.format = format /\ me.n = n
  <2>1. me \in OpenClient
      BY DEF Awaiting, OpenClient, NamingPcs
  <2>2. /\ me.pc = "waiting" /\ me.id = id /\ me.format = format /\ me.n = n
      BY DEF Awaiting
  <2> HIDE DEF me
  <2> QED
      BY <2>1, <2>2
<1> HIDE DEF me
<1>4. /\ clients' \in [Clients -> OpenClient \cup {None}] /\ clients'[c] = me
      /\ \A d \in Clients \ {c} : clients'[d] = clients[d]
    BY <1>1, <1>3 DEF IInv, TypeOK
<1>5. /\ flights' \in [Tracks -> [Chunks -> Flight \cup {None}]] /\ flights'[id][n] = joined
      /\ \A i \in Tracks, m \in Chunks : i # id \/ m # n => flights'[i][m] = flights[i][m]
    BY <1>1, <1>2 DEF IInv, TypeOK
<1>6. FlightsAwaited'
  <2> SUFFICES ASSUME NEW i \in Tracks, NEW m \in Chunks
               PROVE  /\ flights'[i][m] # None =>
                            /\ flights'[i][m].waiters # {}
                            /\ \A d \in flights'[i][m].waiters :
                                  Waits(d, i, m)' /\ clients'[d].format = flights'[i][m].format
                      /\ \A d \in Clients : Waits(d, i, m)' =>
                            flights'[i][m] # None /\ d \in flights'[i][m].waiters
      BY DEF FlightsAwaited, Flies
  <2>1. /\ Flies(i, m) => /\ flights[i][m].waiters # {}
                          /\ \A d \in flights[i][m].waiters :
                                Waits(d, i, m) /\ clients[d].format = flights[i][m].format
        /\ \A d \in Clients : Waits(d, i, m) => Flies(i, m) /\ d \in flights[i][m].waiters
      BY DEF IInv, FlightsAwaited
  <2>2. Flies(i, m) => flights[i][m].waiters \subseteq Clients
      BY FlightIs DEF IInv
  <2>3. \A d \in Clients \ {c} : Waits(d, i, m)' <=> Waits(d, i, m)
      BY <1>4 DEF Waits
  <2>4. ~Waits(c, i, m) /\ (Waits(c, i, m)' <=> i = id /\ m = n)
      BY <1>3, <1>4 DEF Waits
  <2>5. CASE i = id /\ m = n
    <3>1. flights'[i][m] # None /\ flights'[i][m].format = format
        BY <1>2, <1>5, <2>5
    <3>2. Waits(c, i, m)' /\ clients'[c].format = format
        BY <1>3, <1>4, <2>4, <2>5
    <3>3. CASE flights[id][n] = None
      <4>1. flights'[i][m].waiters = {c}
          BY <1>2, <1>5, <2>5, <3>3
      <4>2. \A d \in Clients \ {c} : ~(Waits(d, i, m)')
          BY <2>1, <2>3, <2>5, <3>3 DEF Flies
      <4> QED
          BY <3>1, <3>2, <4>1, <4>2
    <3>4. CASE flights[id][n] # None
      <4>1. flights'[i][m].waiters = flights[i][m].waiters \cup {c}
          BY <1>2, <1>5, <2>5, <3>4
      <4>2. \A d \in flights[i][m].waiters \ {c} : Waits(d, i, m)' /\ clients'[d].format = format
          BY <1>4, <2>1, <2>2, <2>3, <2>5, <3>4 DEF Flies
      <4> QED
          BY <2>1, <2>3, <2>5, <3>1, <3>2, <3>4, <4>1, <4>2 DEF Flies
    <3> QED
        BY <3>3, <3>4
  <2>6. CASE i # id \/ m # n
      BY <1>4, <1>5, <2>1, <2>2, <2>3, <2>4, <2>6 DEF Flies
  <2> QED
      BY <2>5, <2>6
<1>7. FlightsStay
    BY <1>2, <1>5 DEF FlightsStay, Flies
<1> QED
    BY <1>1, <1>4, <1>5, <1>6, <1>7 DEF AwaitFits, me

(* A chunk of a row is read or fetched, by a client that takes on its      *)
(* format.                                                                 *)
LEMMA ChunkKeeps ==
    ASSUME IInv, NEW c \in Clients, clients[c] = None \/ clients[c].pc # "waiting",
           NEW id \in Tracks, NEW row \in CacheRow, NEW n \in Chunks,
           Flies(id, n) => flights[id][n].format = row.format,
           Chunk(c, id, row, n)
    PROVE  /\ AwaitFits' /\ FlightsStay
           /\ \A d \in Clients \ {c} : clients'[d] = clients[d]
           /\ clients'[c] # None /\ clients'[c].id = id /\ clients'[c].format = row.format
<1>1. row.format \in Formats
    BY DEF CacheRow
<1>2. CASE n \in row.chunks
  <2> DEFINE me == Awaiting("reading", id, row.format, n)
  <2>1. me \in OpenClient /\ me # None /\ me.pc = "reading" /\ me.id = id /\ me.format = row.format
      BY <1>1, AwaitingIs
  <2>2. clients' = [clients EXCEPT ![c] = me] /\ UNCHANGED flights
      BY <1>2 DEF Chunk
  <2> HIDE DEF me
  <2>3. AwaitFits' /\ FlightsStay
      BY <2>1, <2>2, GoesOn
  <2> QED
      BY <2>1, <2>2, <2>3 DEF IInv, TypeOK
<1>3. CASE n \notin row.chunks
  <2> DEFINE me == Awaiting("waiting", id, row.format, n)
  <2>1. me # None /\ me.id = id /\ me.format = row.format
      BY <1>1, AwaitingIs
  <2>2. Join(c, id, row.format, n)
      BY <1>3 DEF Chunk
  <2>3. AwaitFits' /\ FlightsStay /\ clients' = [clients EXCEPT ![c] = me]
      BY <1>1, <2>2, JoinKeeps
  <2> HIDE DEF me
  <2> QED
      BY <2>1, <2>3 DEF IInv, TypeOK
<1> QED
    BY <1>2, <1>3

(* A fetch ends, and with it the waiting of those it has.                  *)
LEMMA FlightEnds ==
    ASSUME IInv, NEW id \in Tracks, NEW n \in Chunks,
           flights' = [flights EXCEPT ![id][n] = None],
           clients' \in [Clients -> OpenClient \cup {None}],
           \A c \in Clients : clients'[c] = clients[c] \/ Waits(c, id, n),
           \A c \in Clients : Waits(c, id, n) => clients'[c] = None \/ clients'[c].pc # "waiting"
    PROVE  AwaitFits'
<1>1. /\ flights' \in [Tracks -> [Chunks -> Flight \cup {None}]] /\ flights'[id][n] = None
      /\ \A i \in Tracks, m \in Chunks : i # id \/ m # n => flights'[i][m] = flights[i][m]
    BY DEF IInv, TypeOK
<1>2. FlightsAwaited'
  <2> SUFFICES ASSUME NEW i \in Tracks, NEW m \in Chunks
               PROVE  /\ flights'[i][m] # None =>
                            /\ flights'[i][m].waiters # {}
                            /\ \A d \in flights'[i][m].waiters :
                                  Waits(d, i, m)' /\ clients'[d].format = flights'[i][m].format
                      /\ \A d \in Clients : Waits(d, i, m)' =>
                            flights'[i][m] # None /\ d \in flights'[i][m].waiters
      BY DEF FlightsAwaited, Flies
  <2>1. /\ Flies(i, m) => /\ flights[i][m].waiters # {}
                          /\ \A d \in flights[i][m].waiters :
                                Waits(d, i, m) /\ clients[d].format = flights[i][m].format
        /\ \A d \in Clients : Waits(d, i, m) => Flies(i, m) /\ d \in flights[i][m].waiters
      BY DEF IInv, FlightsAwaited
  <2>2. Flies(i, m) => flights[i][m].waiters \subseteq Clients
      BY FlightIs DEF IInv
  <2>3. CASE i = id /\ m = n
      BY <1>1, <2>1, <2>3 DEF Waits
  <2>4. CASE i # id \/ m # n
    <3>1. \A d \in Clients : Waits(d, i, m) => ~Waits(d, id, n)
        BY <2>4 DEF Waits
    <3>2. \A d \in Clients : Waits(d, i, m) => clients'[d] = clients[d]
        BY <3>1
    <3>3. \A d \in Clients : Waits(d, i, m)' => Waits(d, i, m)
        BY DEF Waits
    <3> QED
        BY <1>1, <2>1, <2>2, <2>4, <3>2, <3>3 DEF Flies, Waits
  <2> QED
      BY <2>3, <2>4
<1> QED
    BY <1>1, <1>2 DEF AwaitFits

(* Those who waited on a fetch are the ones it served.                     *)
LEMMA ServeKeeps ==
    ASSUME IInv, NEW id \in Tracks, NEW n \in Chunks, Flies(id, n),
           Serve(flights[id][n].waiters), flights' = [flights EXCEPT ![id][n] = None]
    PROVE  /\ AwaitFits'
           /\ \A c \in Clients : clients'[c] = clients[c] \/ Waits(c, id, n)
           /\ \A c \in Clients : Waits(c, id, n) =>
                 /\ clients'[c] # None /\ clients'[c].pc = "served"
                 /\ clients'[c].id = clients[c].id /\ clients'[c].format = clients[c].format
<1>1. \A c \in Clients : Waits(c, id, n) <=> c \in flights[id][n].waiters
    BY DEF IInv, FlightsAwaited
<1>2. clients' = [c \in Clients |->
          IF c \in flights[id][n].waiters THEN [clients[c] EXCEPT !.pc = "served"] ELSE clients[c]]
    BY DEF Serve
<1>3. \A c \in Clients : ~Waits(c, id, n) => clients'[c] = clients[c]
    BY <1>1, <1>2
<1>4. ASSUME NEW c \in Clients, Waits(c, id, n)
      PROVE  /\ clients'[c] \in OpenClient
             /\ clients'[c] # None /\ clients'[c].pc = "served"
             /\ clients'[c].id = clients[c].id /\ clients'[c].format = clients[c].format
  <2>1. clients[c] # None /\ clients[c].pc = "waiting"
      BY <1>4 DEF Waits
  <2>2. clients[c] \in OpenClient
      BY <2>1, ClientIs DEF IInv
  <2>3. clients'[c] = [clients[c] EXCEPT !.pc = "served"]
      BY <1>1, <1>2, <1>4
  <2> QED
      BY <2>1, <2>2, <2>3 DEF OpenClient, NamingPcs
<1>5. clients' \in [Clients -> OpenClient \cup {None}]
  <2>1. clients' = [c \in Clients |-> clients'[c]]
      BY <1>2
  <2>2. \A c \in Clients : clients'[c] \in OpenClient \cup {None}
      BY <1>3, <1>4 DEF IInv, TypeOK
  <2> QED
      BY <2>1, <2>2
<1>6. AwaitFits'
    BY <1>3, <1>4, <1>5, FlightEnds
<1> QED
    BY <1>3, <1>4, <1>6

LEMMA SharedAsBefore ==
    ASSUME IInv, UNCHANGED writes, FlightsStay
    PROVE  SharedFlies'
<1> SUFFICES ASSUME NEW w \in Writers, writes[w] # None, writes[w].shared
             PROVE  /\ flights'[writes[w].id][writes[w].n] # None
                    /\ flights'[writes[w].id][writes[w].n].stage = "keeping"
    BY DEF IInv, SharedFlies, Flies
<1>1. /\ Flies(writes[w].id, writes[w].n)
      /\ flights[writes[w].id][writes[w].n].stage = "keeping"
    BY DEF IInv, SharedFlies
<1> QED
    BY <1>1, WriteIs DEF FlightsStay, IInv

----------------------------------------------------------------------------
(* Opening and reading                                                     *)

LEMMA OpenKeeps ==
    ASSUME IInv, NEW c \in Clients, NEW id \in Tracks, NEW n \in Chunks, Open(c, id, n)
    PROVE  IInv'
<1>1. clients[c] = None /\ UNCHANGED <<rows, files, writes, changed>>
    BY DEF Open
<1>2. WritesFit'
    BY <1>1, RowsGainNothing DEF Held
<1>3. CASE Held(id)
  <2>1. Chunk(c, id, rows[id], n) /\ used' = Touched(id)
      BY <1>3 DEF Open
  <2>2. rows[id] \in CacheRow /\ (Flies(id, n) => flights[id][n].format = rows[id].format)
      BY <1>3, RowIs, FlightStands DEF IInv
  <2>3. /\ AwaitFits' /\ FlightsStay
        /\ \A d \in Clients \ {c} : clients'[d] = clients[d]
        /\ clients'[c] # None /\ clients'[c].id = id /\ clients'[c].format = rows[id].format
      BY <1>1, <2>1, <2>2, ChunkKeeps
  <2>4. used' \subseteq Tracks \X Tracks
      BY <2>1, UsedIs DEF IInv
  <2>5. TypeOK'
      BY <1>1, <2>3, <2>4 DEF IInv, TypeOK, AwaitFits
  <2>6. RowStays'
      BY <1>1, <1>3, <2>3, RowsStay DEF Reads, Held
  <2>7. SharedFlies'
      BY <1>1, <2>3, SharedAsBefore
  <2> QED
      BY <1>2, <2>3, <2>5, <2>6, <2>7 DEF IInv, AwaitFits
<1>4. CASE ~Held(id)
  <2> DEFINE me == Awaiting("naming", id, None, n)
  <2>1. me \in OpenClient /\ me.pc = "naming"
      BY DEF Awaiting, OpenClient, NamingPcs
  <2>2. clients' = [clients EXCEPT ![c] = me] /\ UNCHANGED <<flights, used>>
      BY <1>4 DEF Open
  <2> HIDE DEF me
  <2>3. AwaitFits'
      BY <1>1, <2>1, <2>2, GoesOn
  <2>4. \A d \in Clients : clients'[d] = IF d = c THEN me ELSE clients[d]
      BY <2>2 DEF IInv, TypeOK
  <2>5. TypeOK'
      BY <1>1, <2>2, <2>3 DEF IInv, TypeOK, AwaitFits
  <2>6. RowStays'
      BY <1>1, <2>1, <2>4, RowsStay DEF Reads, Held
  <2>7. SharedFlies'
      BY <1>1, <2>2 DEF IInv, SharedFlies, Flies
  <2> QED
      BY <1>2, <2>3, <2>5, <2>6, <2>7 DEF IInv, AwaitFits
<1> QED
    BY <1>3, <1>4

LEMMA NamedKeeps ==
    ASSUME IInv, NEW c \in Clients, NEW format \in Formats, Named(c, format)
    PROVE  IInv'
<1> DEFINE id  == clients[c].id
           n   == clients[c].n
           row == IF Held(id) THEN rows[id] ELSE NewRow(format)
<1>1. /\ clients[c] # None /\ clients[c].pc \in {"naming", "leftNaming"}
      /\ rows' = [rows EXCEPT ![id] = row]
      /\ IF Playing(c)
         THEN Chunk(c, id, row, n) /\ used' = Touched(id)
         ELSE /\ clients' = [clients EXCEPT ![c] = None]
              /\ used' = IF Held(id) THEN used ELSE Touched(id)
              /\ UNCHANGED flights
      /\ UNCHANGED <<files, writes, changed>>
    BY DEF Named
<1>2. id \in Tracks /\ n \in Chunks
    BY <1>1, ClientIs DEF IInv
<1>3. /\ row \in CacheRow /\ (Held(id) => row = rows[id]) /\ (~Held(id) => row.chunks = {})
      /\ row # None
  <2>1. NewRow(format) \in CacheRow /\ NewRow(format).chunks = {}
      BY DEF NewRow, CacheRow
  <2>2. Held(id) => rows[id] \in CacheRow
      BY <1>2, RowIs DEF IInv
  <2> QED
      BY <2>1, <2>2
<1>4. used' \subseteq Tracks \X Tracks
    BY <1>1, <1>2, UsedIs DEF IInv, TypeOK
<1> HIDE DEF row, id, n
<1>5. /\ rows' \in [Tracks -> CacheRow \cup {None}] /\ rows'[id] = row
      /\ \A other \in Tracks : Held(other) => rows'[other] = rows[other]
      /\ \A other \in Tracks : ~Held(other) /\ rows'[other] # None => rows'[other].chunks = {}
    BY <1>1, <1>2, <1>3 DEF IInv, TypeOK, Held
<1>6. WritesFit'
    BY <1>1, <1>5, RowsGainNothing DEF Held
<1>7. CASE Playing(c)
  <2>1. Flies(id, n) => flights[id][n].format = row.format
      BY <1>2, <1>3, FlightStands
  <2>2. clients[c].pc # "waiting"
      BY <1>1
  <2>3. /\ AwaitFits' /\ FlightsStay
        /\ \A d \in Clients \ {c} : clients'[d] = clients[d]
        /\ clients'[c].id = id /\ clients'[c].format = row.format
      BY <1>1, <1>2, <1>3, <1>7, <2>1, <2>2, ChunkKeeps
  <2>4. TypeOK'
      BY <1>1, <1>4, <1>5, <2>3 DEF IInv, TypeOK, AwaitFits
  <2>5. RowStays'
      BY <1>3, <1>5, <2>3, ClientIs, RowsStay DEF Reads, Held, IInv
  <2>6. SharedFlies'
      BY <1>1, <2>3, SharedAsBefore
  <2> QED
      BY <1>6, <2>3, <2>4, <2>5, <2>6 DEF IInv, AwaitFits
<1>8. CASE ~Playing(c)
  <2>1. clients' = [clients EXCEPT ![c] = None] /\ UNCHANGED flights
      BY <1>1, <1>8
  <2>2. clients[c].pc # "waiting"
      BY <1>1
  <2>3. AwaitFits'
      BY <2>1, <2>2, GoesOn
  <2>4. \A d \in Clients : clients'[d] = IF d = c THEN None ELSE clients[d]
      BY <2>1 DEF IInv, TypeOK
  <2>5. TypeOK'
      BY <1>1, <1>4, <1>5, <2>3 DEF IInv, TypeOK, AwaitFits
  <2>6. RowStays'
      BY <1>5, <2>4, ClientIs, RowsStay DEF Reads, Held, IInv
  <2>7. SharedFlies'
      BY <1>1, <2>1 DEF IInv, SharedFlies, Flies
  <2> QED
      BY <1>6, <2>3, <2>5, <2>6, <2>7 DEF IInv, AwaitFits
<1> QED
    BY <1>7, <1>8

(* Players leave: what is outdated goes, of which nobody is a player then. *)
LEMMA ReleaseKeeps ==
    ASSUME IInv, NEW id \in Tracks, NEW leaving, NEW marked \in SUBSET Tracks,
           Release(id, leaving, marked)
    PROVE  /\ rows' \in [Tracks -> CacheRow \cup {None}]
           /\ used' \subseteq Tracks \X Tracks
           /\ files' \in [Tracks -> [Formats -> (SUBSET Chunks) \cup {None}]]
           /\ writes' \in [Writers -> Write \cup {None}]
           /\ changed' \subseteq Tracks
           /\ WritesFit'
           /\ \A w \in Writers : writes'[w] # None =>
                 /\ writes[w] # None
                 /\ writes'[w].id = writes[w].id /\ writes'[w].n = writes[w].n
                 /\ writes'[w].shared => writes[w].shared
           /\ \A other \in Tracks :
                 \/ rows'[other] = rows[other]
                 \/ Players(other) \subseteq leaving
<1> DEFINE gone == Outdated(id, leaving, marked)
<1>1. Forget(gone) /\ writes' = WritesAfter(gone) /\ changed' = marked \ gone
    BY DEF Release
<1>2. \A w \in Writers :
          /\ writes'[w] \in Write \cup {None}
          /\ writes[w] = None => writes'[w] = None
          /\ writes[w] # None => WriteAfter(writes[w], writes'[w], gone)
    BY <1>1, WritesAfterIs DEF IInv
<1>3. writes' \in [Writers -> Write \cup {None}]
    BY <1>1, <1>2 DEF WritesAfter
<1>4. \A w \in Writers : WriteAfter(writes[w], writes'[w], gone) => writes'[w] # None
    BY DEF WriteAfter
<1>5. \A other \in gone : Players(other) \subseteq leaving
    BY OutdatedMay
<1> HIDE DEF gone
<1>6. WritesFit'
    BY <1>1, <1>2, <1>4, ForgetKeeps
<1>7. /\ rows' \in [Tracks -> CacheRow \cup {None}]
      /\ used' \subseteq Tracks \X Tracks
      /\ files' \in [Tracks -> [Formats -> (SUBSET Chunks) \cup {None}]]
      /\ \A other \in Tracks : rows'[other] = IF other \in gone THEN None ELSE rows[other]
    BY <1>1, ForgetIs DEF IInv
<1>8. \A w \in Writers : writes'[w] # None =>
          /\ writes[w] # None
          /\ writes'[w].id = writes[w].id /\ writes'[w].n = writes[w].n
          /\ writes'[w].shared => writes[w].shared
    BY <1>2 DEF WriteAfter
<1>9. changed' \subseteq Tracks
    BY <1>1
<1> QED
    BY <1>3, <1>5, <1>6, <1>7, <1>8, <1>9

LEMMA NamingFailsKeeps ==
    ASSUME IInv, NEW c \in Clients, NamingFails(c)
    PROVE  IInv'
<1>1. /\ clients[c] # None /\ clients[c].pc \in {"naming", "leftNaming"}
      /\ Release(clients[c].id, {c}, changed)
      /\ clients' = [clients EXCEPT ![c] = None] /\ UNCHANGED flights
    BY DEF NamingFails
<1>2. clients[c].id \in Tracks /\ changed \in SUBSET Tracks
    BY <1>1, ClientIs DEF IInv, TypeOK
<1>3. /\ rows' \in [Tracks -> CacheRow \cup {None}]
      /\ used' \subseteq Tracks \X Tracks
      /\ files' \in [Tracks -> [Formats -> (SUBSET Chunks) \cup {None}]]
      /\ writes' \in [Writers -> Write \cup {None}]
      /\ changed' \subseteq Tracks
      /\ WritesFit'
      /\ \A w \in Writers : writes'[w] # None =>
            /\ writes[w] # None
            /\ writes'[w].id = writes[w].id /\ writes'[w].n = writes[w].n
            /\ writes'[w].shared => writes[w].shared
      /\ \A other \in Tracks : rows'[other] = rows[other] \/ Players(other) \subseteq {c}
    BY <1>1, <1>2, ReleaseKeeps
<1>4. AwaitFits'
  <2>1. clients[c].pc # "waiting"
      BY <1>1
  <2> QED
      BY <1>1, <2>1, GoesOn
<1>5. \A d \in Clients : clients'[d] = IF d = c THEN None ELSE clients[d]
    BY <1>1 DEF IInv, TypeOK
<1>6. TypeOK'
    BY <1>3, <1>4 DEF TypeOK, AwaitFits
<1>7. RowStays'
  <2> SUFFICES ASSUME NEW d \in Clients, Reads(d)'
               PROVE  /\ Reads(d) /\ clients'[d] = clients[d]
                      /\ rows'[clients[d].id] = rows[clients[d].id]
      BY RowsStay DEF Held
  <2>1. d # c /\ Reads(d) /\ clients'[d] = clients[d]
      BY <1>5 DEF Reads
  <2>2. clients[d].id \in Tracks /\ d \in Players(clients[d].id)
      BY <2>1, ClientIs DEF Reads, Players, Playing, IInv
  <2> QED
      BY <1>3, <2>1, <2>2
<1>8. SharedFlies'
    BY <1>1, <1>3, SharedStay DEF IInv, SharedFlies, Flies
<1> QED
    BY <1>3, <1>4, <1>6, <1>7, <1>8 DEF IInv, AwaitFits

LEMMA ReadAnswersKeeps ==
    ASSUME IInv, NEW c \in Clients, ReadAnswers(c)
    PROVE  IInv'
<1> DEFINE client == IF Playing(c) THEN [clients[c] EXCEPT !.pc = "served"] ELSE None
<1>1. /\ clients[c] # None /\ clients[c].pc \in {"reading", "leftReading"}
      /\ clients' = [clients EXCEPT ![c] = client]
      /\ UNCHANGED <<rows, used, files, flights, writes, changed>>
    BY DEF ReadAnswers
<1>2. /\ client \in OpenClient \cup {None}
      /\ client # None => /\ client.pc = "served" /\ clients[c].pc = "reading"
                          /\ client.id = clients[c].id /\ client.format = clients[c].format
  <2>1. clients[c] \in OpenClient
      BY <1>1, ClientIs DEF IInv
  <2>2. CASE Playing(c)
      BY <1>1, <2>1, <2>2 DEF OpenClient, NamingPcs, Playing
  <2>3. CASE ~Playing(c)
      BY <2>3
  <2> QED
      BY <2>2, <2>3
<1> HIDE DEF client
<1>3. WritesFit'
    BY <1>1, RowsGainNothing DEF Held
<1>4. AwaitFits'
  <2>1. clients[c].pc # "waiting" /\ (client = None \/ client.pc # "waiting")
      BY <1>1, <1>2
  <2> QED
      BY <1>1, <1>2, <2>1, GoesOn
<1>5. \A d \in Clients : clients'[d] = IF d = c THEN client ELSE clients[d]
    BY <1>1 DEF IInv, TypeOK
<1>6. TypeOK'
    BY <1>1, <1>4 DEF IInv, TypeOK, AwaitFits
<1>7. RowStays'
    BY <1>1, <1>2, <1>5, RowsStay DEF Reads, Held
<1>8. SharedFlies'
    BY <1>1 DEF IInv, SharedFlies, Flies
<1> QED
    BY <1>3, <1>4, <1>6, <1>7, <1>8 DEF IInv, AwaitFits

LEMMA LengthIs ==
    ASSUME NEW f \in Formats, NEW n \in Chunks
    PROVE  Length[f][n] \in Nat
<1>1. Length[f] \in [Chunks -> Nat \ {0}]
    BY DEF CacheConstants
<1> QED
    BY <1>1

(* A row with one chunk less, and with one more.                           *)
LEMMA ClearedIs ==
    ASSUME NEW row \in CacheRow, NEW n \in Chunks, NEW length \in Nat
    PROVE  /\ Cleared(row, n, length) \in CacheRow /\ Cleared(row, n, length).format = row.format
           /\ Cleared(row, n, length).chunks \subseteq row.chunks
<1> DEFINE cleared == Cleared(row, n, length)
           less == [row EXCEPT !.chunks = row.chunks \ {n}]
<1>1. less \in CacheRow /\ less.chunks \subseteq row.chunks /\ less.format = row.format
    BY DEF CacheRow
<1>2. cleared = [less EXCEPT !.bytes = row.bytes - length]
    BY Zenon DEF Cleared
<1>3. row.bytes - length \in Int
    BY DEF CacheRow
<1> HIDE DEF less, cleared
<1>4. /\ cleared \in CacheRow /\ cleared.format = row.format
      /\ cleared.chunks \subseteq row.chunks
    BY <1>1, <1>2, <1>3 DEF CacheRow
<1> QED
    BY <1>4 DEF cleared

LEMMA CountedIs ==
    ASSUME NEW row \in CacheRow, NEW n \in Chunks, NEW length \in Nat
    PROVE  /\ Counted(row, n, length) \in CacheRow /\ Counted(row, n, length).format = row.format
           /\ Counted(row, n, length).chunks = row.chunks \cup {n}
<1> DEFINE counted == Counted(row, n, length)
           more == [row EXCEPT !.chunks = row.chunks \cup {n}]
<1>1. more \in CacheRow /\ more.chunks = row.chunks \cup {n} /\ more.format = row.format
    BY DEF CacheRow
<1>2. counted = [more EXCEPT !.bytes = row.bytes + length]
    BY Zenon DEF Counted
<1>3. row.bytes + length \in Int
    BY DEF CacheRow
<1> HIDE DEF more, counted
<1>4. /\ counted \in CacheRow /\ counted.format = row.format
      /\ counted.chunks = row.chunks \cup {n}
    BY <1>1, <1>2, <1>3 DEF CacheRow
<1> QED
    BY <1>4 DEF counted

LEMMA ReadFailsKeeps ==
    ASSUME IInv, NEW c \in Clients, ReadFails(c)
    PROVE  IInv'
<1> DEFINE id == clients[c].id
           n  == clients[c].n
           length == Length[clients[c].format][n]
<1>1. /\ clients[c] # None /\ clients[c].pc \in {"reading", "leftReading"}
      /\ rows' = IF Held(id) /\ n \in rows[id].chunks
                 THEN [rows EXCEPT ![id] = Cleared(rows[id], n, length)]
                 ELSE rows
      /\ IF Playing(c)
         THEN Join(c, id, rows[id].format, n)
         ELSE clients' = [clients EXCEPT ![c] = None] /\ UNCHANGED flights
      /\ UNCHANGED <<used, files, writes, changed>>
    BY DEF ReadFails
<1>2. id \in Tracks /\ n \in Chunks /\ clients[c].format \in Formats
    BY <1>1, ClientIs DEF IInv, NamingPcs
<1>3. length \in Nat
    BY <1>2, LengthIs
<1> HIDE DEF id, n, length
<1> DEFINE cleared == Cleared(rows[id], n, length)
<1>4. Held(id) => /\ cleared \in CacheRow /\ cleared.format = rows[id].format
                  /\ cleared.chunks \subseteq rows[id].chunks
  <2> SUFFICES ASSUME Held(id)
               PROVE  /\ cleared \in CacheRow /\ cleared.format = rows[id].format
                      /\ cleared.chunks \subseteq rows[id].chunks
      OBVIOUS
  <2>1. rows[id] \in CacheRow
      BY <1>2, RowIs DEF IInv
  <2> QED
      BY <1>2, <1>3, <2>1, ClearedIs
<1> HIDE DEF cleared
<1>5. /\ rows' \in [Tracks -> CacheRow \cup {None}]
      /\ \A i \in Tracks : Held(i) =>
            /\ rows'[i] # None /\ rows'[i].format = rows[i].format
            /\ rows'[i].chunks \subseteq rows[i].chunks
      /\ \A i \in Tracks : ~Held(i) => rows'[i] = None
  <2>1. CASE Held(id) /\ n \in rows[id].chunks
      BY <1>1, <1>2, <1>4, <2>1 DEF IInv, TypeOK, Held, cleared
  <2>2. CASE ~(Held(id) /\ n \in rows[id].chunks)
      BY <1>1, <2>2 DEF IInv, TypeOK, Held
  <2> QED
      BY <2>1, <2>2
<1>6. WritesFit'
    BY <1>1, <1>5, RowsGainNothing
<1>7. clients[c].pc # "waiting"
    BY <1>1
<1>8. CASE Playing(c)
  <2>1. Held(id) /\ rows[id].format = clients[c].format
    <3>1. clients[c].pc # "naming"
        BY <1>1
    <3> QED
        BY <1>8, <3>1 DEF IInv, RowStays, id
  <2> DEFINE me == Awaiting("waiting", id, rows[id].format, n)
  <2>2. me.pc = "waiting" /\ me.id = id /\ me.format = rows[id].format
      BY DEF Awaiting
  <2>3. AwaitFits' /\ FlightsStay /\ clients' = [clients EXCEPT ![c] = me]
    <3>1. rows[id].format \in Formats
        BY <1>2, <2>1
    <3>2. Flies(id, n) => flights[id][n].format = rows[id].format
        BY <1>2, FlightStands
    <3>3. Join(c, id, rows[id].format, n)
        BY <1>1, <1>8
    <3> QED
        BY <1>2, <1>7, <3>1, <3>2, <3>3, JoinKeeps
  <2> HIDE DEF me
  <2>4. \A d \in Clients : clients'[d] = IF d = c THEN me ELSE clients[d]
      BY <2>3 DEF IInv, TypeOK
  <2>5. TypeOK'
      BY <1>1, <1>5, <2>3 DEF IInv, TypeOK, AwaitFits
  <2>6. RowStays'
      BY <1>2, <1>5, <2>1, <2>2, <2>4, ClientIs, RowsStay DEF Reads, Held, IInv
  <2>7. SharedFlies'
      BY <1>1, <2>3, SharedAsBefore
  <2> QED
      BY <1>6, <2>3, <2>5, <2>6, <2>7 DEF IInv, AwaitFits
<1>9. CASE ~Playing(c)
  <2>1. clients' = [clients EXCEPT ![c] = None] /\ UNCHANGED flights
      BY <1>1, <1>9
  <2>2. AwaitFits' /\ FlightsStay
      BY <1>7, <2>1, GoesOn
  <2>3. \A d \in Clients : clients'[d] = IF d = c THEN None ELSE clients[d]
      BY <2>1 DEF IInv, TypeOK
  <2>4. TypeOK'
      BY <1>1, <1>5, <2>2 DEF IInv, TypeOK, AwaitFits
  <2>5. RowStays'
      BY <1>5, <2>3, ClientIs, RowsStay DEF Reads, Held, IInv
  <2>6. SharedFlies'
      BY <1>1, <2>2, SharedAsBefore
  <2> QED
      BY <1>6, <2>2, <2>4, <2>5, <2>6 DEF IInv, AwaitFits
<1> QED
    BY <1>8, <1>9

LEMMA PullKeeps ==
    ASSUME IInv, NEW c \in Clients, Pull(c)
    PROVE  IInv'
<1> DEFINE id == clients[c].id
           n  == clients[c].n + 1
<1>1. /\ clients[c] # None /\ clients[c].pc = "served" /\ n \in Chunks
      /\ Chunk(c, id, rows[id], n)
      /\ UNCHANGED <<rows, used, files, writes, changed>>
    BY DEF Pull
<1>2. id \in Tracks
    BY <1>1, ClientIs DEF IInv
<1>3. Held(id)
    BY <1>1 DEF IInv, RowStays, Playing
<1> HIDE DEF id, n
<1>4. rows[id] \in CacheRow /\ (Flies(id, n) => flights[id][n].format = rows[id].format)
    BY <1>1, <1>2, <1>3, RowIs, FlightStands DEF IInv
<1>5. clients[c].pc # "waiting"
    BY <1>1
<1>6. /\ AwaitFits' /\ FlightsStay
      /\ \A d \in Clients \ {c} : clients'[d] = clients[d]
      /\ clients'[c].id = id /\ clients'[c].format = rows[id].format
    BY <1>1, <1>2, <1>4, <1>5, ChunkKeeps
<1>7. TypeOK'
    BY <1>1, <1>6 DEF IInv, TypeOK, AwaitFits
<1>8. RowStays'
    BY <1>1, <1>3, <1>6, RowsStay DEF Reads, Held
<1>9. SharedFlies' /\ WritesFit'
    BY <1>1, <1>6, SharedAsBefore, RowsGainNothing DEF Held
<1> QED
    BY <1>6, <1>7, <1>8, <1>9 DEF IInv, AwaitFits

LEMMA PinKeeps ==
    ASSUME IInv, NEW id \in Tracks, Pin(id)
    PROVE  IInv'
<1>1. PICK pinned \in BOOLEAN : rows' = [rows EXCEPT ![id].pinned = pinned]
    BY DEF Pin
<1>2. Held(id) /\ UNCHANGED <<used, files, clients, flights, writes, changed>>
    BY DEF Pin
<1> DEFINE row == [rows[id] EXCEPT !.pinned = pinned]
<1>3. /\ row \in CacheRow /\ row.format = rows[id].format /\ row.chunks = rows[id].chunks
    BY <1>2, RowIs DEF CacheRow, IInv
<1>4. rows' = [rows EXCEPT ![id] = row]
    BY <1>1
<1> HIDE DEF row
<1>5. /\ rows' \in [Tracks -> CacheRow \cup {None}]
      /\ \A i \in Tracks : Held(i) =>
            /\ rows'[i] # None /\ rows'[i].format = rows[i].format
            /\ rows'[i].chunks = rows[i].chunks
      /\ \A i \in Tracks : ~Held(i) => rows'[i] = None
    BY <1>2, <1>3, <1>4 DEF IInv, TypeOK, Held
<1>6. WritesFit'
    BY <1>2, <1>5, RowsGainNothing
<1>7. TypeOK'
    BY <1>2, <1>5 DEF IInv, TypeOK
<1>8. RowStays'
    BY <1>2, <1>5, ClientIs, RowsStay DEF Reads, IInv
<1>9. FlightsAwaited' /\ SharedFlies'
    BY <1>2 DEF IInv, FlightsAwaited, SharedFlies, Flies, Waits
<1> QED
    BY <1>6, <1>7, <1>8, <1>9 DEF IInv

----------------------------------------------------------------------------
(* The shared fetch                                                        *)

(* Evicting takes no row from anyone who plays.                            *)
LEMMA EvictKeeps ==
    ASSUME IInv, NEW length, Forget(Evicted(length))
    PROVE  /\ rows' \in [Tracks -> CacheRow \cup {None}]
           /\ used' \subseteq Tracks \X Tracks
           /\ files' \in [Tracks -> [Formats -> (SUBSET Chunks) \cup {None}]]
           /\ \A id \in Tracks : Players(id) # {} => rows'[id] = rows[id]
<1> DEFINE gone == Evicted(length)
<1>1. \A id \in gone : Players(id) = {}
    BY EvictedMay
<1> HIDE DEF gone
<1> QED
    BY <1>1, ForgetIs DEF IInv, gone

(* Whoever reads is a player of the track.                                 *)
LEMMA ReaderPlays ==
    ASSUME IInv, NEW c \in Clients, Reads(c)
    PROVE  clients[c].id \in Tracks /\ c \in Players(clients[c].id)
    BY ClientIs DEF Reads, Players, Playing, IInv

LEMMA FetchKeepsKeeps ==
    ASSUME IInv, NEW id \in Tracks, NEW n \in Chunks, NEW w \in Writers, FetchKeeps(id, n, w)
    PROVE  IInv'
<1> DEFINE format == flights[id][n].format
           gone == Evicted(Length[format][n])
           new == [id |-> id, format |-> format, n |-> n, stage |-> "opening",
                   linked |-> FALSE, current |-> TRUE, shared |-> TRUE]
           keeping == [flights[id][n] EXCEPT !.stage = "keeping"]
<1>1. /\ Flies(id, n) /\ flights[id][n].stage = "asking" /\ writes[w] = None
      /\ Forget(gone)
      /\ writes' = [WritesAfter(gone) EXCEPT ![w] = new]
      /\ flights' = [flights EXCEPT ![id][n] = keeping]
      /\ UNCHANGED <<clients, changed>>
    BY DEF FetchKeeps, Asking, Flies
<1>2. format \in Formats /\ flights[id][n] \in Flight
    BY <1>1, FlightIs DEF IInv
<1>3. Held(id) /\ rows[id].format = format /\ Players(id) # {}
    BY <1>1, FlightStands
<1>4. /\ new \in Write /\ new.stage = "opening" /\ ~new.linked /\ new.id = id
      /\ new.format = format /\ new.n = n
    BY <1>2 DEF Write
<1>5. /\ keeping \in Flight /\ keeping.stage = "keeping" /\ keeping.format = format
      /\ keeping.waiters = flights[id][n].waiters
    BY <1>2 DEF Flight
<1>6. /\ rows' \in [Tracks -> CacheRow \cup {None}]
      /\ used' \subseteq Tracks \X Tracks
      /\ files' \in [Tracks -> [Formats -> (SUBSET Chunks) \cup {None}]]
      /\ \A other \in Tracks : Players(other) # {} => rows'[other] = rows[other]
    BY <1>1, EvictKeeps
<1> HIDE DEF new, keeping, gone, format
<1>7. /\ writes' \in [Writers -> Write \cup {None}] /\ writes'[w] = new
      /\ \A v \in Writers \ {w} : writes'[v] = WritesAfter(gone)[v]
  <2>1. WritesAfter(gone) \in [Writers -> Write \cup {None}]
      BY WritesAfterIs DEF IInv, WritesAfter
  <2> QED
      BY <1>1, <1>4, <2>1
<1>8. \A v \in Writers \ {w} :
          /\ writes[v] = None => writes'[v] = None
          /\ writes[v] # None => WriteAfter(writes[v], writes'[v], gone) /\ writes'[v] # None
  <2> SUFFICES ASSUME NEW v \in Writers \ {w}
               PROVE  /\ writes[v] = None => writes'[v] = None
                      /\ writes[v] # None => WriteAfter(writes[v], writes'[v], gone)
      BY DEF WriteAfter
  <2> QED
      BY <1>7, WritesAfterIs DEF IInv
<1>9. WritesFit'
  <2>1. \A v \in Writers : writes[v] # None =>
            writes'[v] # None /\ WriteAfter(writes[v], writes'[v], gone)
      BY <1>1, <1>8
  <2>2. \A v \in Writers : writes[v] = None /\ writes'[v] # None => v = w
      BY <1>8
  <2>3. rows'[id] # None /\ rows'[id].format = format
      BY <1>3, <1>6 DEF Held
  <2> QED
      BY <1>1, <1>4, <1>7, <2>1, <2>2, <2>3, ForgetKeeps
<1>10. /\ flights' \in [Tracks -> [Chunks -> Flight \cup {None}]] /\ flights'[id][n] = keeping
       /\ \A i \in Tracks, m \in Chunks : i # id \/ m # n => flights'[i][m] = flights[i][m]
    BY <1>1, <1>5 DEF IInv, TypeOK
<1>11. FlightsAwaited'
  <2>1. \A i \in Tracks, m \in Chunks :
            /\ Flies(i, m)' <=> Flies(i, m)
            /\ Flies(i, m) => /\ flights'[i][m].waiters = flights[i][m].waiters
                              /\ flights'[i][m].format = flights[i][m].format
      BY <1>1, <1>5, <1>10 DEF Flies, format
  <2>2. \A i \in Tracks, m \in Chunks : \A c : Waits(c, i, m)' <=> Waits(c, i, m)
      BY <1>1 DEF Waits
  <2> QED
      BY <1>1, <2>1, <2>2 DEF IInv, FlightsAwaited
<1>12. TypeOK'
    BY <1>1, <1>6, <1>7, <1>10 DEF IInv, TypeOK
<1>13. RowStays'
    BY <1>1, <1>6, ReaderPlays, RowsStay DEF Reads, Held
<1>14. SharedFlies'
  <2>1. ASSUME NEW v \in Writers \ {w}, writes'[v] # None, writes'[v].shared
        PROVE  /\ writes[v] # None /\ writes[v].shared
               /\ writes'[v].id = writes[v].id /\ writes'[v].n = writes[v].n
               /\ writes'[v].id \in Tracks /\ writes'[v].n \in Chunks
               /\ writes'[v].id # id \/ writes'[v].n # n
               /\ flights'[writes'[v].id][writes'[v].n] # None
               /\ flights'[writes'[v].id][writes'[v].n].stage = "keeping"
    <3>1. /\ writes[v] # None /\ writes[v].shared
          /\ writes'[v].id = writes[v].id /\ writes'[v].n = writes[v].n
        BY <1>8, <2>1 DEF WriteAfter
    <3>2. /\ Flies(writes[v].id, writes[v].n)
          /\ flights[writes[v].id][writes[v].n].stage = "keeping"
        BY <3>1 DEF IInv, SharedFlies
    <3>3. writes[v].id \in Tracks /\ writes[v].n \in Chunks
        BY <3>1, WriteIs DEF IInv
    <3>4. writes[v].id # id \/ writes[v].n # n
        BY <1>1, <3>2
    <3> QED
        BY <1>10, <3>1, <3>2, <3>3, <3>4 DEF Flies
  <2>2. \A v \in Writers \ {w}, u \in Writers \ {w} :
            v # u /\ writes'[v] # None /\ writes'[v].shared /\ writes'[u] # None /\ writes'[u].shared =>
                writes'[v].id # writes'[u].id \/ writes'[v].n # writes'[u].n
      BY <2>1 DEF IInv, SharedFlies
  <2>3. keeping # None
      BY <1>5
  <2> QED
      BY <1>4, <1>5, <1>7, <1>10, <2>1, <2>2, <2>3 DEF SharedFlies, Flies
<1> QED
    BY <1>9, <1>11, <1>12, <1>13, <1>14 DEF IInv

(* A fetch that only asked has no write.                                   *)
LEMMA AskedEnds ==
    ASSUME IInv, NEW id \in Tracks, NEW n \in Chunks, flights[id][n].stage = "asking",
           flights' = [flights EXCEPT ![id][n] = None],
           \A w \in Writers : writes'[w] # None =>
               /\ writes[w] # None
               /\ writes'[w].id = writes[w].id /\ writes'[w].n = writes[w].n
               /\ writes'[w].shared => writes[w].shared
    PROVE  SharedFlies'
<1> SUFFICES ASSUME NEW w \in Writers, writes[w] # None, writes[w].shared
             PROVE  /\ flights'[writes[w].id][writes[w].n] # None
                    /\ flights'[writes[w].id][writes[w].n].stage = "keeping"
    BY SharedStay
<1>1. /\ Flies(writes[w].id, writes[w].n)
      /\ flights[writes[w].id][writes[w].n].stage = "keeping"
    BY DEF IInv, SharedFlies
<1>2. writes[w].id \in Tracks /\ writes[w].n \in Chunks
    BY WriteIs DEF IInv
<1>3. writes[w].id # id \/ writes[w].n # n
    BY <1>1
<1> QED
    BY <1>1, <1>2, <1>3 DEF Flies, IInv, TypeOK

LEMMA FetchServesKeeps ==
    ASSUME IInv, NEW id \in Tracks, NEW n \in Chunks, FetchServes(id, n)
    PROVE  IInv'
<1> DEFINE gone == Evicted(Length[flights[id][n].format][n])
<1>1. /\ Flies(id, n) /\ flights[id][n].stage = "asking"
      /\ Forget(gone) /\ writes' = WritesAfter(gone)
      /\ Serve(flights[id][n].waiters)
      /\ flights' = [flights EXCEPT ![id][n] = None]
      /\ UNCHANGED changed
    BY DEF FetchServes, Asking, Flies
<1>2. /\ rows' \in [Tracks -> CacheRow \cup {None}]
      /\ used' \subseteq Tracks \X Tracks
      /\ files' \in [Tracks -> [Formats -> (SUBSET Chunks) \cup {None}]]
      /\ \A other \in Tracks : Players(other) # {} => rows'[other] = rows[other]
    BY <1>1, EvictKeeps
<1> HIDE DEF gone
<1>3. \A w \in Writers :
          /\ writes'[w] \in Write \cup {None}
          /\ writes[w] = None => writes'[w] = None
          /\ writes[w] # None => WriteAfter(writes[w], writes'[w], gone)
    BY <1>1, WritesAfterIs DEF IInv
<1>4. writes' \in [Writers -> Write \cup {None}]
    BY <1>1, <1>3 DEF WritesAfter
<1>5. \A w \in Writers : writes[w] # None => writes'[w] # None
    BY <1>3 DEF WriteAfter
<1>6. WritesFit'
    BY <1>1, <1>3, <1>5, ForgetKeeps
<1>7. /\ AwaitFits'
      /\ \A c \in Clients : clients'[c] = clients[c] \/ Waits(c, id, n)
      /\ \A c \in Clients : Waits(c, id, n) =>
            /\ clients'[c] # None /\ clients'[c].pc = "served"
            /\ clients'[c].id = clients[c].id /\ clients'[c].format = clients[c].format
    BY <1>1, ServeKeeps
<1>8. TypeOK'
    BY <1>1, <1>2, <1>4, <1>7 DEF IInv, TypeOK, AwaitFits
<1>9. RowStays'
  <2> SUFFICES ASSUME NEW c \in Clients, Reads(c)'
               PROVE  /\ Reads(c) /\ clients'[c].id = clients[c].id
                      /\ clients'[c].format = clients[c].format
                      /\ rows'[clients[c].id] = rows[clients[c].id]
      BY RowsStay DEF Held
  <2>1. /\ Reads(c) /\ clients'[c].id = clients[c].id /\ clients'[c].format = clients[c].format
      BY <1>7 DEF Reads, Waits
  <2> QED
      BY <1>2, <2>1, ReaderPlays
<1>10. SharedFlies'
  <2>1. \A w \in Writers : writes'[w] # None =>
            /\ writes[w] # None
            /\ writes'[w].id = writes[w].id /\ writes'[w].n = writes[w].n
            /\ writes'[w].shared => writes[w].shared
      BY <1>3 DEF WriteAfter
  <2> QED
      BY <1>1, <2>1, AskedEnds
<1> QED
    BY <1>6, <1>7, <1>8, <1>9, <1>10 DEF IInv, AwaitFits

LEMMA FetchFailsKeeps ==
    ASSUME IInv, NEW id \in Tracks, NEW n \in Chunks, FetchFails(id, n)
    PROVE  IInv'
<1> DEFINE waiters == flights[id][n].waiters
<1>1. PICK marked \in {changed, changed \cup {id}} : Release(id, waiters, marked)
    BY DEF FetchFails
<1>2. /\ Flies(id, n) /\ flights[id][n].stage = "asking"
      /\ clients' = [c \in Clients |-> IF c \in waiters THEN None ELSE clients[c]]
      /\ flights' = [flights EXCEPT ![id][n] = None]
    BY DEF FetchFails, Asking, Flies
<1>3. marked \in SUBSET Tracks
    BY DEF IInv, TypeOK
<1>4. \A c \in Clients : Waits(c, id, n) <=> c \in waiters
    BY <1>2 DEF IInv, FlightsAwaited
<1> HIDE DEF waiters
<1>5. /\ rows' \in [Tracks -> CacheRow \cup {None}]
      /\ used' \subseteq Tracks \X Tracks
      /\ files' \in [Tracks -> [Formats -> (SUBSET Chunks) \cup {None}]]
      /\ writes' \in [Writers -> Write \cup {None}]
      /\ changed' \subseteq Tracks
      /\ WritesFit'
      /\ \A w \in Writers : writes'[w] # None =>
            /\ writes[w] # None
            /\ writes'[w].id = writes[w].id /\ writes'[w].n = writes[w].n
            /\ writes'[w].shared => writes[w].shared
      /\ \A other \in Tracks : rows'[other] = rows[other] \/ Players(other) \subseteq waiters
    BY <1>1, <1>3, ReleaseKeeps
<1>6. /\ clients' \in [Clients -> OpenClient \cup {None}]
      /\ \A c \in Clients : clients'[c] = IF c \in waiters THEN None ELSE clients[c]
    BY <1>2 DEF IInv, TypeOK
<1>7. AwaitFits'
    BY <1>2, <1>4, <1>6, FlightEnds
<1>8. TypeOK'
    BY <1>5, <1>7 DEF TypeOK, AwaitFits
<1>9. RowStays'
  <2> SUFFICES ASSUME NEW c \in Clients, Reads(c)'
               PROVE  /\ Reads(c) /\ clients'[c] = clients[c]
                      /\ rows'[clients[c].id] = rows[clients[c].id]
      BY RowsStay DEF Held
  <2>1. c \notin waiters /\ Reads(c) /\ clients'[c] = clients[c]
      BY <1>6 DEF Reads
  <2> QED
      BY <1>5, <2>1, ReaderPlays
<1>10. SharedFlies'
    BY <1>2, <1>5, AskedEnds
<1> QED
    BY <1>5, <1>7, <1>8, <1>9, <1>10 DEF IInv, AwaitFits

----------------------------------------------------------------------------
(* Writing                                                                 *)

(* A write at its place on the disk.                                       *)
WritesAt(w, id, f) == writes[w] # None /\ writes[w].id = id /\ writes[w].format = f

(* Files that only grow, with rows that stay and gain only chunks that are *)
(* in them, while writes go on or end.                                     *)
LEMMA FilesGrow ==
    ASSUME IInv,
           \A id \in Tracks, f \in Formats : files[id][f] # None =>
               files'[id][f] # None /\ files[id][f] \subseteq files'[id][f],
           \A id \in Tracks : Held(id) =>
               /\ rows'[id] # None /\ rows'[id].format = rows[id].format
               /\ \A n \in rows'[id].chunks \ rows[id].chunks :
                     files'[id][rows[id].format] # None /\ n \in files'[id][rows[id].format],
           \A id \in Tracks : ~Held(id) => rows'[id] = None,
           \A w \in Writers : writes'[w] # None =>
               /\ WritesAt(w, writes'[w].id, writes'[w].format)
               /\ writes'[w].current =>
                     writes[w].current /\ (writes'[w].stage = "open" => writes'[w].linked)
               /\ writes'[w].linked => files'[writes'[w].id][writes'[w].format] # None,
           ~WritesFail =>
               /\ \A id \in Tracks, f \in Formats : files'[id][f] # None =>
                     files[id][f] # None \/ \E w \in Writers : WritesAt(w, id, f)
               /\ \A w \in Writers : writes[w] # None =>
                     \/ writes'[w] # None
                     \/ Held(writes[w].id) /\ rows[writes[w].id].format = writes[w].format
    PROVE  WritesFit'
<1>1. CurrentFits'
  <2> SUFFICES ASSUME NEW w \in Writers, writes'[w] # None, writes'[w].current
               PROVE  /\ rows'[writes'[w].id] # None
                      /\ rows'[writes'[w].id].format = writes'[w].format
      BY DEF CurrentFits, Held
  <2>1. /\ writes[w] # None /\ writes[w].current
        /\ writes'[w].id = writes[w].id /\ writes'[w].format = writes[w].format
      BY DEF WritesAt
  <2>2. /\ Held(writes[w].id) /\ rows[writes[w].id].format = writes[w].format
        /\ writes[w].id \in Tracks
      BY <2>1, WriteIs DEF IInv, WritesFit, CurrentFits
  <2> QED
      BY <2>1, <2>2
<1>2. LinkedHasFile'
    BY DEF LinkedHasFile
<1>3. BitHasBytes'
  <2> SUFFICES ASSUME NEW id \in Tracks, rows'[id] # None, NEW n \in rows'[id].chunks
               PROVE  /\ files'[id][rows'[id].format] # None
                      /\ n \in files'[id][rows'[id].format]
      BY DEF BitHasBytes, Held
  <2>1. Held(id) /\ rows'[id].format = rows[id].format /\ rows[id].format \in Formats
      BY RowIs DEF IInv
  <2>2. CASE n \in rows[id].chunks
    <3>1. files[id][rows[id].format] # None /\ n \in files[id][rows[id].format]
        BY <2>1, <2>2 DEF IInv, WritesFit, BitHasBytes
    <3> QED
        BY <2>1, <3>1
  <2>3. CASE n \notin rows[id].chunks
      BY <2>1, <2>3
  <2> QED
      BY <2>2, <2>3
<1>4. ~WritesFail => NoStrayFile'
  <2> SUFFICES ASSUME ~WritesFail, NEW id \in Tracks, NEW f \in Formats, files'[id][f] # None
               PROVE  \/ rows'[id] # None /\ rows'[id].format = f
                      \/ \E w \in Writers : WritesAt(w, id, f)'
      BY DEF NoStrayFile, Held, WritesAt
  <2>1. \/ Held(id) /\ rows[id].format = f
        \/ \E w \in Writers : WritesAt(w, id, f)
      BY DEF IInv, WritesFit, NoStrayFile, WritesAt
  <2>2. CASE Held(id) /\ rows[id].format = f
      BY <2>2
  <2>3. CASE \E w \in Writers : WritesAt(w, id, f)
    <3>1. PICK w \in Writers : WritesAt(w, id, f)
        BY <2>3
    <3>2. writes[w] # None /\ writes[w].id = id /\ writes[w].format = f
        BY <3>1 DEF WritesAt
    <3>3. writes'[w] # None => writes'[w].id = id /\ writes'[w].format = f
        BY <3>2 DEF WritesAt
    <3>4. Held(id) => rows'[id] # None /\ rows'[id].format = rows[id].format
        OBVIOUS
    <3> QED
        BY <3>2, <3>3, <3>4 DEF WritesAt
  <2> QED
      BY <2>1, <2>2, <2>3
<1> QED
    BY <1>1, <1>2, <1>3, <1>4 DEF WritesFit

LEMMA WriteOpensKeeps ==
    ASSUME IInv, NEW w \in Writers, WriteOpens(w)
    PROVE  IInv'
<1> DEFINE id == writes[w].id
           f == writes[w].format
           open == [writes[w] EXCEPT !.stage = "open"]
           new == [open EXCEPT !.linked = TRUE]
           now == Opened(writes[w])
<1>1. /\ writes[w] # None
      /\ files' = [files EXCEPT ![id][f] = now]
      /\ UNCHANGED <<rows, used, clients, flights, changed>>
    BY DEF WriteOpens
<1>2. writes' = [writes EXCEPT ![w] = new]
    BY Zenon DEF WriteOpens
<1>3. writes[w] \in Write /\ id \in Tracks /\ f \in Formats
    BY <1>1, WriteIs DEF IInv
<1>4. /\ open \in Write /\ open.id = id /\ open.format = f /\ open.n = writes[w].n
      /\ open.stage = "open" /\ open.current = writes[w].current /\ open.shared = writes[w].shared
    BY <1>3 DEF Write
<1> HIDE DEF open
<1>5. /\ new \in Write /\ new.id = id /\ new.format = f /\ new.n = writes[w].n
      /\ new.linked /\ new.current = writes[w].current /\ new.shared = writes[w].shared
    BY <1>4 DEF Write
<1>6. /\ now \in SUBSET Chunks /\ now # None
      /\ files[id][f] # None => now = files[id][f]
    BY <1>3 DEF Opened, IInv, TypeOK
<1> HIDE DEF id, f, new, now
<1>7. /\ files' \in [Tracks -> [Formats -> (SUBSET Chunks) \cup {None}]]
      /\ files'[id][f] = now
      /\ \A i \in Tracks, g \in Formats : i # id \/ g # f => files'[i][g] = files[i][g]
    BY <1>1, <1>3, <1>6 DEF IInv, TypeOK
<1>8. /\ writes' \in [Writers -> Write \cup {None}] /\ writes'[w] = new
      /\ \A v \in Writers \ {w} : writes'[v] = writes[v]
    BY <1>2, <1>5 DEF IInv, TypeOK
<1>9. \A i \in Tracks, g \in Formats : files[i][g] # None => files'[i][g] = files[i][g]
    BY <1>6, <1>7
<1>10. WritesFit'
  <2>1. WritesAt(w, id, f)
      BY <1>1 DEF WritesAt, id, f
  <2>2. ASSUME NEW v \in Writers \ {w}, writes'[v] # None
        PROVE  /\ WritesAt(v, writes'[v].id, writes'[v].format)
               /\ writes'[v].current =>
                     writes[v].current /\ (writes'[v].stage = "open" => writes'[v].linked)
               /\ writes'[v].linked => files'[writes'[v].id][writes'[v].format] # None
    <3>1. writes'[v] = writes[v] /\ writes[v].id \in Tracks /\ writes[v].format \in Formats
        BY <1>8, <2>2, WriteIs DEF IInv
    <3> QED
        BY <1>9, <2>2, <3>1 DEF WritesAt, IInv, WritesFit, CurrentFits, LinkedHasFile
  <2>3. /\ WritesAt(w, writes'[w].id, writes'[w].format)
        /\ writes'[w].current => writes[w].current /\ writes'[w].linked
        /\ files'[writes'[w].id][writes'[w].format] # None
      BY <1>5, <1>6, <1>7, <1>8, <2>1
  <2>4. \A v \in Writers : writes[v] # None => writes'[v] # None
      BY <1>5, <1>8
  <2>5. \A i \in Tracks, g \in Formats : files'[i][g] # None =>
            files[i][g] # None \/ \E v \in Writers : WritesAt(v, i, g)
      BY <1>7, <2>1
  <2> QED
      BY <1>1, <1>9, <2>2, <2>3, <2>4, <2>5, FilesGrow DEF Held
<1>11. TypeOK'
    BY <1>1, <1>7, <1>8 DEF IInv, TypeOK
<1>12. FlightsAwaited' /\ RowStays'
    BY <1>1 DEF IInv, FlightsAwaited, RowStays, Flies, Waits, Playing, Held
<1>13. SharedFlies'
  <2>1. new # None /\ writes[w] # None
      BY <1>1, <1>5
  <2>2. \A v \in Writers : /\ writes'[v] # None <=> writes[v] # None
                           /\ writes'[v].id = writes[v].id /\ writes'[v].n = writes[v].n
                           /\ writes'[v].shared = writes[v].shared
      BY <1>5, <1>8, <2>1 DEF id
  <2> QED
      BY <1>1, <2>2 DEF IInv, SharedFlies, Flies
<1> QED
    BY <1>10, <1>11, <1>12, <1>13 DEF IInv

(* A write that ends serves those waiting on its fetch, if it has one.     *)
LEMMA SettlesKeeps ==
    ASSUME IInv, NEW w \in Writers, writes[w] # None, Settles(w), writes'[w] = None,
           \A v \in Writers : writes'[v] # None =>
               /\ writes[v] # None
               /\ writes'[v].id = writes[v].id /\ writes'[v].n = writes[v].n
               /\ writes'[v].shared => writes[v].shared
    PROVE  /\ AwaitFits' /\ SharedFlies'
           /\ \A c \in Clients : Reads(c)' =>
                 /\ Reads(c) /\ clients'[c].id = clients[c].id
                 /\ clients'[c].format = clients[c].format
<1> DEFINE id == writes[w].id
           n == writes[w].n
<1>1. id \in Tracks /\ n \in Chunks
    BY WriteIs DEF IInv
<1>2. CASE ~writes[w].shared
  <2>1. UNCHANGED <<clients, flights>>
      BY <1>2 DEF Settles
  <2>2. SharedFlies'
      BY <2>1, SharedStay DEF IInv, SharedFlies, Flies
  <2>3. AwaitFits'
      BY <2>1 DEF AwaitFits, IInv, TypeOK, FlightsAwaited, Flies, Waits
  <2> QED
      BY <2>1, <2>2, <2>3 DEF Reads
<1>3. CASE writes[w].shared
  <2>1. /\ Flies(id, n)
        /\ \A v \in Writers \ {w} : writes[v] # None /\ writes[v].shared =>
              writes[v].id # id \/ writes[v].n # n
      BY <1>3 DEF IInv, SharedFlies
  <2>2. Serve(flights[id][n].waiters) /\ flights' = [flights EXCEPT ![id][n] = None]
      BY <1>3 DEF Settles
  <2> HIDE DEF id, n
  <2>3. /\ AwaitFits'
        /\ \A c \in Clients : clients'[c] = clients[c] \/ Waits(c, id, n)
        /\ \A c \in Clients : Waits(c, id, n) =>
              /\ clients'[c] # None /\ clients'[c].pc = "served"
              /\ clients'[c].id = clients[c].id /\ clients'[c].format = clients[c].format
      BY <1>1, <2>1, <2>2, ServeKeeps
  <2>4. \A i \in Tracks, m \in Chunks : i # id \/ m # n => flights'[i][m] = flights[i][m]
      BY <1>1, <2>2 DEF IInv, TypeOK
  <2>5. SharedFlies'
    <3>1. ASSUME NEW v \in Writers, writes'[v] # None, writes'[v].shared
          PROVE  /\ writes[v] # None /\ writes[v].shared
                 /\ flights'[writes[v].id][writes[v].n] = flights[writes[v].id][writes[v].n]
      <4>1. v # w /\ writes[v] # None /\ writes[v].shared
          BY <3>1
      <4>2. writes[v].id \in Tracks /\ writes[v].n \in Chunks
          BY <4>1, WriteIs DEF IInv
      <4> QED
          BY <2>1, <2>4, <4>1, <4>2
    <3> QED
        BY <3>1, SharedStay DEF IInv, SharedFlies, Flies
  <2> QED
      BY <2>3, <2>5 DEF Reads, Waits
<1> QED
    BY <1>2, <1>3

(* What lands in a file that is there adds its chunk to it.                *)
LEMMA Landed ==
    ASSUME IInv, NEW w \in Writers, writes[w] # None,
           NEW landed,
           landed = IF writes[w].linked
                    THEN [files EXCEPT ![writes[w].id][writes[w].format] = @ \cup {writes[w].n}]
                    ELSE files
    PROVE  /\ landed \in [Tracks -> [Formats -> (SUBSET Chunks) \cup {None}]]
           /\ \A i \in Tracks, g \in Formats :
                 /\ files[i][g] # None => landed[i][g] # None /\ files[i][g] \subseteq landed[i][g]
                 /\ landed[i][g] # None => files[i][g] # None
           /\ writes[w].linked =>
                 /\ landed[writes[w].id][writes[w].format] # None
                 /\ writes[w].n \in landed[writes[w].id][writes[w].format]
<1> DEFINE id == writes[w].id
           f == writes[w].format
           more == files[id][f] \cup {writes[w].n}
<1>1. id \in Tracks /\ f \in Formats /\ writes[w].n \in Chunks
    BY WriteIs DEF IInv
<1>2. CASE writes[w].linked
  <2>1. files[id][f] # None
      BY <1>2 DEF IInv, WritesFit, LinkedHasFile
  <2>2. more \in SUBSET Chunks /\ more # None /\ files[id][f] \subseteq more /\ writes[w].n \in more
    <3>1. files[id][f] \in SUBSET Chunks
        BY <1>1, <2>1 DEF IInv, TypeOK
    <3>2. more \in SUBSET Chunks
        BY <1>1, <3>1
    <3> QED
        BY <3>2
  <2>3. landed = [files EXCEPT ![id][f] = more]
      BY <1>2
  <2> HIDE DEF id, f, more
  <2>4. /\ landed \in [Tracks -> [Formats -> (SUBSET Chunks) \cup {None}]]
        /\ landed[id][f] = more
        /\ \A i \in Tracks, g \in Formats : i # id \/ g # f => landed[i][g] = files[i][g]
    <3>1. /\ files \in [Tracks -> [Formats -> (SUBSET Chunks) \cup {None}]]
          /\ files[id] \in [Formats -> (SUBSET Chunks) \cup {None}]
        BY <1>1 DEF IInv, TypeOK
    <3> DEFINE inner == [files[id] EXCEPT ![f] = more]
    <3>2. /\ inner \in [Formats -> (SUBSET Chunks) \cup {None}] /\ inner[f] = more
          /\ \A g \in Formats \ {f} : inner[g] = files[id][g]
        BY <1>1, <2>2, <3>1
    <3>3. landed = [files EXCEPT ![id] = inner]
        BY <2>3, Zenon
    <3> HIDE DEF inner
    <3> QED
        BY <1>1, <3>1, <3>2, <3>3
  <2>5. \A i \in Tracks, g \in Formats :
            /\ files[i][g] # None => landed[i][g] # None /\ files[i][g] \subseteq landed[i][g]
            /\ landed[i][g] # None => files[i][g] # None
      BY <2>1, <2>2, <2>4
  <2> QED
      BY <2>2, <2>4, <2>5 DEF id, f
<1>3. CASE ~writes[w].linked
    BY <1>3 DEF IInv, TypeOK
<1> QED
    BY <1>2, <1>3

(* A write that is over leaves those that are not as they were.            *)
LEMMA WriteOver ==
    ASSUME IInv, NEW w \in Writers, writes[w] # None, writes' = [writes EXCEPT ![w] = None]
    PROVE  /\ writes' \in [Writers -> Write \cup {None}] /\ writes'[w] = None
           /\ \A v \in Writers : writes'[v] # None => v # w /\ writes'[v] = writes[v]
           /\ \A v \in Writers : writes[v] # None /\ v # w => writes'[v] # None
    BY DEF IInv, TypeOK

(* A write that ends without removing its file keeps what the others count *)
(* on, unless it was all that file had.                                    *)
LEMMA WriteEndsKeeps ==
    ASSUME IInv, NEW w \in Writers, writes[w] # None, writes' = [writes EXCEPT ![w] = None],
           \A i \in Tracks, g \in Formats :
               /\ files[i][g] # None => files'[i][g] # None /\ files[i][g] \subseteq files'[i][g]
               /\ files'[i][g] # None => files[i][g] # None,
           \A id \in Tracks : Held(id) =>
               /\ rows'[id] # None /\ rows'[id].format = rows[id].format
               /\ \A n \in rows'[id].chunks \ rows[id].chunks :
                     files'[id][rows[id].format] # None /\ n \in files'[id][rows[id].format],
           \A id \in Tracks : ~Held(id) => rows'[id] = None,
           ~WritesFail => Held(writes[w].id) /\ rows[writes[w].id].format = writes[w].format
    PROVE  WritesFit'
<1>1. \A v \in Writers : writes'[v] # None => v # w /\ writes'[v] = writes[v]
    BY WriteOver
<1>2. ASSUME NEW v \in Writers, writes'[v] # None
      PROVE  /\ WritesAt(v, writes'[v].id, writes'[v].format)
             /\ writes'[v].current =>
                   writes[v].current /\ (writes'[v].stage = "open" => writes'[v].linked)
             /\ writes'[v].linked => files'[writes'[v].id][writes'[v].format] # None
  <2>1. writes'[v] = writes[v] /\ writes[v].id \in Tracks /\ writes[v].format \in Formats
      BY <1>1, <1>2, WriteIs DEF IInv
  <2> QED
      BY <1>2, <2>1 DEF WritesAt, IInv, WritesFit, CurrentFits, LinkedHasFile
<1>3. \A v \in Writers : writes[v] # None => writes'[v] # None \/ v = w
    BY WriteOver
<1> QED
    BY <1>2, <1>3, FilesGrow

LEMMA WriteLandsKeeps ==
    ASSUME IInv, NEW w \in Writers, WriteLands(w)
    PROVE  IInv'
<1> DEFINE id == writes[w].id
           f == writes[w].format
           n == writes[w].n
           landed == IF writes[w].linked THEN [files EXCEPT ![id][f] = @ \cup {n}] ELSE files
           counted == Counted(rows[id], n, Length[f][n])
           stray == ~writes[w].current /\ Stray(writes[w])
<1>1. /\ writes[w] # None /\ writes[w].stage = "open"
      /\ Settles(w) /\ UNCHANGED changed
    BY DEF WriteLands
<1>2. id \in Tracks /\ f \in Formats /\ n \in Chunks
    BY <1>1, WriteIs DEF IInv
<1>3. ~stray =>
      /\ files' = landed /\ writes' = [writes EXCEPT ![w] = None]
      /\ \/ /\ writes[w].current /\ Uncounted(writes[w])
            /\ rows' = [rows EXCEPT ![id] = counted] /\ used' = Touched(id)
         \/ UNCHANGED <<rows, used>>
    BY DEF WriteLands
<1>4. stray =>
      /\ files' = [files EXCEPT ![id][f] = None]
      /\ writes' = [v \in Writers |->
            IF v = w THEN None
            ELSE IF writes[v] # None /\ <<writes[v].id, writes[v].format>> = <<id, f>>
            THEN [writes[v] EXCEPT !.linked = FALSE]
            ELSE writes[v]]
      /\ UNCHANGED <<rows, used>>
    BY DEF WriteLands
<1>5. landed = IF writes[w].linked THEN [files EXCEPT ![id][f] = @ \cup {n}] ELSE files
    OBVIOUS
<1>6. counted = Counted(rows[id], n, Length[f][n])
    OBVIOUS
<1>7. stray <=> ~writes[w].current /\ Stray(writes[w])
    OBVIOUS
<1> HIDE DEF landed, counted, stray
<1>8. CASE ~stray
  <2>1. /\ landed \in [Tracks -> [Formats -> (SUBSET Chunks) \cup {None}]]
        /\ \A i \in Tracks, g \in Formats :
              /\ files[i][g] # None => landed[i][g] # None /\ files[i][g] \subseteq landed[i][g]
              /\ landed[i][g] # None => files[i][g] # None
        /\ writes[w].linked => landed[id][f] # None /\ n \in landed[id][f]
      BY <1>1, <1>5, Landed
  <2>2. Held(id) /\ rows[id].format = f
      BY <1>1, <1>7, <1>8 DEF Stray, IInv, WritesFit, CurrentFits
  <2>3. files' = landed /\ writes' = [writes EXCEPT ![w] = None]
      BY <1>3, <1>8
  <2>4. /\ counted \in CacheRow /\ counted.format = f /\ counted.chunks = rows[id].chunks \cup {n}
    <3>1. rows[id] \in CacheRow
        BY <1>2, <2>2, RowIs DEF IInv
    <3>2. Length[f][n] \in Nat
        BY <1>2, LengthIs
    <3> HIDE DEF id, f, n
    <3> QED
        BY <1>2, <1>6, <2>2, <3>1, <3>2, CountedIs
  <2>5. writes[w].current => writes[w].linked
      BY <1>1 DEF IInv, WritesFit, CurrentFits
  <2> HIDE DEF id, f, n
  <2>6. /\ rows' \in [Tracks -> CacheRow \cup {None}] /\ used' \subseteq Tracks \X Tracks
        /\ \A i \in Tracks : Held(i) =>
              /\ rows'[i] # None /\ rows'[i].format = rows[i].format
              /\ \A m \in rows'[i].chunks \ rows[i].chunks :
                    files'[i][rows[i].format] # None /\ m \in files'[i][rows[i].format]
        /\ \A i \in Tracks : ~Held(i) => rows'[i] = None
    <3>1. CASE UNCHANGED <<rows, used>>
        BY <3>1 DEF IInv, TypeOK, Held
    <3>2. CASE /\ writes[w].current
               /\ rows' = [rows EXCEPT ![id] = counted] /\ used' = Touched(id)
      <4>1. landed[id][f] # None /\ n \in landed[id][f]
          BY <2>1, <2>5, <3>2
      <4>2. used' \subseteq Tracks \X Tracks
          BY <1>2, <3>2, UsedIs DEF IInv
      <4>3. /\ rows' \in [Tracks -> CacheRow \cup {None}] /\ rows'[id] = counted
            /\ \A i \in Tracks \ {id} : rows'[i] = rows[i]
          BY <1>2, <2>4, <3>2 DEF IInv, TypeOK
      <4> QED
          BY <2>2, <2>3, <2>4, <4>1, <4>2, <4>3 DEF Held
    <3> QED
        BY <1>3, <1>8, <3>1, <3>2
  <2>7. WritesFit'
    <3>1. Held(writes[w].id) /\ rows[writes[w].id].format = writes[w].format
        BY <2>2 DEF id, f
    <3>2. \A i \in Tracks, g \in Formats :
              /\ files[i][g] # None => files'[i][g] # None /\ files[i][g] \subseteq files'[i][g]
              /\ files'[i][g] # None => files[i][g] # None
        BY <2>1, <2>3
    <3>3. writes[w] # None /\ writes' = [writes EXCEPT ![w] = None]
        BY <1>1, <2>3
    <3> QED
        BY <2>6, <3>1, <3>2, <3>3, WriteEndsKeeps
  <2>8. /\ writes' \in [Writers -> Write \cup {None}] /\ writes'[w] = None
        /\ \A v \in Writers : writes'[v] # None => v # w /\ writes'[v] = writes[v]
      BY <1>1, <2>3, WriteOver
  <2>9. /\ AwaitFits' /\ SharedFlies'
        /\ \A c \in Clients : Reads(c)' =>
              Reads(c) /\ clients'[c].id = clients[c].id /\ clients'[c].format = clients[c].format
      BY <1>1, <2>8, SettlesKeeps
  <2>10. TypeOK'
      BY <1>1, <2>1, <2>3, <2>6, <2>8, <2>9 DEF IInv, TypeOK, AwaitFits
  <2>11. RowStays'
      BY <2>6, <2>9, ReaderPlays, RowsStay
  <2> QED
      BY <2>7, <2>9, <2>10, <2>11 DEF IInv, AwaitFits
<1>9. CASE stray
  <2>1. ~Held(id) \/ rows[id].format # f
      BY <1>7, <1>9 DEF Stray
  <2>2. \A v \in Writers \ {w} :
            /\ writes'[v] \in Write \cup {None}
            /\ writes[v] = None => writes'[v] = None
            /\ writes[v] # None =>
                  /\ writes'[v] # None
                  /\ writes'[v].id = writes[v].id /\ writes'[v].format = writes[v].format
                  /\ writes'[v].n = writes[v].n /\ writes'[v].stage = writes[v].stage
                  /\ writes'[v].current = writes[v].current /\ writes'[v].shared = writes[v].shared
                  /\ writes'[v].linked =>
                        writes[v].linked /\ (writes[v].id # id \/ writes[v].format # f)
                  /\ writes[v].id # id \/ writes[v].format # f => writes'[v] = writes[v]
    <3> SUFFICES ASSUME NEW v \in Writers \ {w}, writes[v] # None
                 PROVE  /\ writes'[v] \in Write
                        /\ writes'[v].id = writes[v].id /\ writes'[v].format = writes[v].format
                        /\ writes'[v].n = writes[v].n /\ writes'[v].stage = writes[v].stage
                        /\ writes'[v].current = writes[v].current
                        /\ writes'[v].shared = writes[v].shared
                        /\ writes'[v].linked =>
                              writes[v].linked /\ (writes[v].id # id \/ writes[v].format # f)
                        /\ writes[v].id # id \/ writes[v].format # f => writes'[v] = writes[v]
        BY <1>4, <1>9
    <3>1. writes[v] \in Write
        BY WriteIs DEF IInv
    <3>2. CASE writes[v].id = id /\ writes[v].format = f
      <4>1. writes'[v] = [writes[v] EXCEPT !.linked = FALSE]
          BY <1>4, <1>9, <3>2
      <4> QED
          BY <3>1, <3>2, <4>1 DEF Write
    <3>3. CASE writes[v].id # id \/ writes[v].format # f
      <4>1. writes'[v] = writes[v]
          BY <1>4, <1>9, <3>3
      <4> QED
          BY <3>1, <3>3, <4>1
    <3> QED
        BY <3>2, <3>3
  <2>3. writes'[w] = None
      BY <1>4, <1>9
  <2>4. writes' \in [Writers -> Write \cup {None}]
    <3>1. writes' = [v \in Writers |-> writes'[v]]
        BY <1>4, <1>9
    <3>2. \A v \in Writers : writes'[v] \in Write \cup {None}
        BY <2>2, <2>3
    <3> QED
        BY <3>1, <3>2
  <2>5. /\ files' = [files EXCEPT ![id][f] = None] /\ UNCHANGED <<rows, used>>
      BY <1>4, <1>9
  <2> HIDE DEF id, f, n
  <2>6. /\ files' \in [Tracks -> [Formats -> (SUBSET Chunks) \cup {None}]]
        /\ files'[id][f] = None
        /\ \A i \in Tracks, g \in Formats : i # id \/ g # f => files'[i][g] = files[i][g]
      BY <1>2, <2>5 DEF IInv, TypeOK
  <2>7. CurrentFits'
    <3> SUFFICES ASSUME NEW v \in Writers, writes'[v] # None, writes'[v].current
                 PROVE  /\ Held(writes[v].id) /\ rows[writes[v].id].format = writes[v].format
                        /\ writes'[v].id = writes[v].id /\ writes'[v].format = writes[v].format
                        /\ writes'[v].stage = "open" => writes'[v].linked
        BY <2>5 DEF CurrentFits, Held
    <3>1. v # w /\ writes[v] # None
        BY <2>2, <2>3
    <3>2. writes[v].current
        BY <2>2, <3>1
    <3>3. /\ Held(writes[v].id) /\ rows[writes[v].id].format = writes[v].format
          /\ writes[v].stage = "open" => writes[v].linked
        BY <3>1, <3>2 DEF IInv, WritesFit, CurrentFits
    <3>4. writes[v].id # id \/ writes[v].format # f
        BY <2>1, <3>3
    <3> QED
        BY <2>2, <3>1, <3>3, <3>4
  <2>8. LinkedHasFile'
    <3> SUFFICES ASSUME NEW v \in Writers, writes'[v] # None, writes'[v].linked
                 PROVE  files'[writes'[v].id][writes'[v].format] # None
        BY DEF LinkedHasFile
    <3>1. v # w /\ writes[v] # None
        BY <2>2, <2>3
    <3>2. /\ writes'[v].id = writes[v].id /\ writes'[v].format = writes[v].format
          /\ writes[v].linked /\ (writes[v].id # id \/ writes[v].format # f)
        BY <2>2, <3>1
    <3>3. files[writes[v].id][writes[v].format] # None
        BY <3>1, <3>2 DEF IInv, WritesFit, LinkedHasFile
    <3>4. writes[v].id \in Tracks /\ writes[v].format \in Formats
        BY <3>1, WriteIs DEF IInv
    <3> QED
        BY <2>6, <3>2, <3>3, <3>4
  <2>9. BitHasBytes'
    <3> SUFFICES ASSUME NEW i \in Tracks, Held(i), NEW m \in rows[i].chunks
                 PROVE  files'[i][rows[i].format] # None /\ m \in files'[i][rows[i].format]
        BY <2>5 DEF BitHasBytes, Held
    <3>1. rows[i].format \in Formats
        BY RowIs DEF IInv
    <3>2. files[i][rows[i].format] # None /\ m \in files[i][rows[i].format]
        BY DEF IInv, WritesFit, BitHasBytes
    <3>3. i # id \/ rows[i].format # f
        BY <2>1
    <3> QED
        BY <2>6, <3>1, <3>2, <3>3
  <2>10. NoStrayFile => NoStrayFile'
    <3> SUFFICES ASSUME NoStrayFile, NEW i \in Tracks, NEW g \in Formats, files'[i][g] # None
                 PROVE  \/ Held(i) /\ rows[i].format = g
                        \/ \E v \in Writers :
                              writes'[v] # None /\ writes'[v].id = i /\ writes'[v].format = g
        BY <2>5 DEF NoStrayFile, Held
    <3>1. files[i][g] # None /\ (i # id \/ g # f)
        BY <2>6
    <3>2. CASE Held(i) /\ rows[i].format = g
        BY <3>2
    <3>3. CASE \E v \in Writers : writes[v] # None /\ writes[v].id = i /\ writes[v].format = g
      <4>1. PICK v \in Writers : writes[v] # None /\ writes[v].id = i /\ writes[v].format = g
          BY <3>3
      <4>2. v # w
          BY <3>1, <4>1 DEF id, f
      <4> QED
          BY <2>2, <4>1, <4>2
    <3> QED
        BY <3>1, <3>2, <3>3 DEF NoStrayFile
  <2>11. WritesFit'
      BY <2>7, <2>8, <2>9, <2>10 DEF IInv, WritesFit
  <2>12. /\ AwaitFits' /\ SharedFlies'
         /\ \A c \in Clients : Reads(c)' =>
               Reads(c) /\ clients'[c].id = clients[c].id /\ clients'[c].format = clients[c].format
    <3>1. \A v \in Writers : writes'[v] # None =>
              /\ writes[v] # None
              /\ writes'[v].id = writes[v].id /\ writes'[v].n = writes[v].n
              /\ writes'[v].shared => writes[v].shared
        BY <2>2, <2>3
    <3> QED
        BY <1>1, <2>3, <3>1, SettlesKeeps
  <2>13. TypeOK'
      BY <1>1, <2>4, <2>5, <2>6, <2>12 DEF IInv, TypeOK, AwaitFits
  <2>14. RowStays'
      BY <2>5, <2>12, RowsStay DEF Held
  <2> QED
      BY <2>11, <2>12, <2>13, <2>14 DEF IInv, AwaitFits
<1> QED
    BY <1>8, <1>9

LEMMA WriteFailsKeeps ==
    ASSUME IInv, NEW w \in Writers, WriteFails(w)
    PROVE  IInv'
<1>1. /\ WritesFail /\ writes[w] # None /\ writes' = [writes EXCEPT ![w] = None]
      /\ Settles(w) /\ UNCHANGED <<rows, used, files, changed>>
    BY DEF WriteFails
<1>2. /\ writes' \in [Writers -> Write \cup {None}] /\ writes'[w] = None
      /\ \A v \in Writers : writes'[v] # None => v # w /\ writes'[v] = writes[v]
    BY <1>1, WriteOver
<1>3. WritesFit'
    BY <1>1, WriteEndsKeeps DEF Held
<1>4. /\ AwaitFits' /\ SharedFlies'
      /\ \A c \in Clients : Reads(c)' =>
            Reads(c) /\ clients'[c].id = clients[c].id /\ clients'[c].format = clients[c].format
    BY <1>1, <1>2, SettlesKeeps
<1>5. TypeOK'
    BY <1>1, <1>2, <1>4 DEF IInv, TypeOK, AwaitFits
<1>6. RowStays'
    BY <1>1, <1>4, RowsStay DEF Held
<1> QED
    BY <1>3, <1>4, <1>5, <1>6 DEF IInv, AwaitFits

----------------------------------------------------------------------------
(* Leaving, and a restart                                                  *)

LEMMA LeftIs ==
    ASSUME NEW client \in OpenClient
    PROVE  /\ Left(client) \in OpenClient \cup {None}
           /\ Left(client) # None => Left(client).pc \in {"leftNaming", "leftReading"}
<1>1. CASE client.pc = "naming"
  <2>1. Left(client) = [client EXCEPT !.pc = "leftNaming"]
      BY <1>1 DEF Left
  <2> QED
      BY <2>1 DEF OpenClient, NamingPcs
<1>2. CASE client.pc = "reading"
  <2>1. Left(client) = [client EXCEPT !.pc = "leftReading"]
      BY <1>2 DEF Left
  <2> QED
      BY <1>2, <2>1 DEF OpenClient, NamingPcs
<1>3. CASE client.pc \notin {"naming", "reading"}
    BY <1>3 DEF Left
<1> QED
    BY <1>1, <1>2, <1>3

(* No fetch but this one changes, and it is at the stage it was, or ends.  *)
OneChanges(id, n) ==
    /\ flights'[id][n] # None => flights'[id][n].stage = flights[id][n].stage
    /\ \A i \in Tracks, m \in Chunks : i # id \/ m # n => flights'[i][m] = flights[i][m]

(* One of those waiting on a fetch goes: the others still wait, and with   *)
(* none left it ends.                                                      *)
LEMMA WaiterLeaves ==
    ASSUME IInv, NEW c \in Clients, NEW id \in Tracks, NEW n \in Chunks, Waits(c, id, n),
           clients' = [clients EXCEPT ![c] = None],
           flights' = [flights EXCEPT ![id][n] = FlightLeft(c)]
    PROVE  AwaitFits' /\ OneChanges(id, n)
<1> DEFINE others == flights[id][n].waiters \ {c}
           left == [flights[id][n] EXCEPT !.waiters = others]
<1>1. Flies(id, n) /\ c \in flights[id][n].waiters
    BY DEF IInv, FlightsAwaited
<1>2. clients[c].id = id /\ clients[c].n = n
    BY DEF Waits
<1>3. FlightLeft(c) = IF others = {} THEN None ELSE left
    BY <1>2 DEF FlightLeft
<1>4. flights[id][n] \in Flight
    BY <1>1, FlightIs DEF IInv
<1>5. /\ left \in Flight /\ left.waiters = others /\ left.stage = flights[id][n].stage
      /\ left.format = flights[id][n].format
    BY <1>4 DEF Flight
<1>6. /\ clients' \in [Clients -> OpenClient \cup {None}]
      /\ \A d \in Clients : clients'[d] = IF d = c THEN None ELSE clients[d]
    BY DEF IInv, TypeOK
<1>7. \A d \in Clients : Waits(d, id, n) <=> d \in flights[id][n].waiters
    BY <1>1 DEF IInv, FlightsAwaited
<1>8. flights[id][n].waiters \subseteq Clients
    BY <1>1, FlightIs DEF IInv
<1> HIDE DEF left
<1>9. CASE others = {}
  <2>1. flights' = [flights EXCEPT ![id][n] = None]
      BY <1>3, <1>9
  <2>2. \A d \in Clients : Waits(d, id, n) => d = c
      BY <1>7, <1>9
  <2>3. /\ \A d \in Clients : clients'[d] = clients[d] \/ Waits(d, id, n)
        /\ \A d \in Clients : Waits(d, id, n) => clients'[d] = None \/ clients'[d].pc # "waiting"
      BY <1>6, <2>2
  <2>4. AwaitFits'
      BY <1>6, <2>1, <2>3, FlightEnds
  <2> QED
      BY <2>1, <2>4 DEF IInv, TypeOK, OneChanges
<1>10. CASE others # {}
  <2>1. flights' = [flights EXCEPT ![id][n] = left]
      BY <1>3, <1>10
  <2>2. /\ flights' \in [Tracks -> [Chunks -> Flight \cup {None}]] /\ flights'[id][n] = left
        /\ \A i \in Tracks, m \in Chunks : i # id \/ m # n => flights'[i][m] = flights[i][m]
      BY <1>5, <2>1 DEF IInv, TypeOK
  <2>3. FlightsAwaited'
    <3> SUFFICES ASSUME NEW i \in Tracks, NEW m \in Chunks
                 PROVE  /\ flights'[i][m] # None =>
                              /\ flights'[i][m].waiters # {}
                              /\ \A d \in flights'[i][m].waiters :
                                    Waits(d, i, m)' /\ clients'[d].format = flights'[i][m].format
                        /\ \A d \in Clients : Waits(d, i, m)' =>
                              flights'[i][m] # None /\ d \in flights'[i][m].waiters
        BY DEF FlightsAwaited, Flies
    <3>1. /\ Flies(i, m) => /\ flights[i][m].waiters # {}
                            /\ \A d \in flights[i][m].waiters :
                                  Waits(d, i, m) /\ clients[d].format = flights[i][m].format
          /\ \A d \in Clients : Waits(d, i, m) => Flies(i, m) /\ d \in flights[i][m].waiters
        BY DEF IInv, FlightsAwaited
    <3>2. Flies(i, m) => flights[i][m].waiters \subseteq Clients
        BY FlightIs DEF IInv
    <3>3. \A d \in Clients : Waits(d, i, m)' <=> d # c /\ Waits(d, i, m)
        BY <1>6 DEF Waits
    <3>4. CASE i = id /\ m = n
      <4>1. flights'[i][m] = left /\ left # None
          BY <1>5, <2>2, <3>4
      <4>2. \A d \in others : d \in Clients /\ d # c /\ Waits(d, i, m)'
          BY <1>1, <1>8, <3>1, <3>3, <3>4
      <4>3. \A d \in others : clients'[d].format = left.format
          BY <1>1, <1>5, <1>6, <3>1, <3>4, <4>2
      <4>4. \A d \in Clients : Waits(d, i, m)' => d \in others
          BY <3>1, <3>3, <3>4
      <4> HIDE DEF others
      <4> QED
          BY <1>5, <1>10, <4>1, <4>2, <4>3, <4>4
    <3>5. CASE i # id \/ m # n
      <4>1. ~Waits(c, i, m)
          BY <1>2, <3>5 DEF Waits
      <4>2. flights'[i][m] = flights[i][m]
          BY <2>2, <3>5
      <4> QED
          BY <1>6, <3>1, <3>2, <3>3, <4>1, <4>2 DEF Flies
    <3> QED
        BY <3>4, <3>5
  <2> QED
      BY <1>5, <1>6, <2>2, <2>3 DEF AwaitFits, OneChanges
<1> QED
    BY <1>9, <1>10

LEMMA LeaveKeeps ==
    ASSUME IInv, NEW c \in Clients, Leave(c)
    PROVE  IInv'
<1> DEFINE id == clients[c].id
           n == clients[c].n
           gone == Outdated(id, {c}, changed)
           client == Left(clients[c])
<1>1. /\ Playing(c)
      /\ clients' = [clients EXCEPT ![c] = client]
      /\ flights' = IF clients[c].pc = "waiting"
                    THEN [flights EXCEPT ![id][n] = FlightLeft(c)] ELSE flights
      /\ Forget(gone) /\ changed' = changed \ gone
      /\ writes' = [w \in Writers |->
            IF writes[w] # None /\ <<writes[w].id, writes[w].n>> = <<id, n>>
               /\ flights'[id][n] = None
            THEN [WritesAfter(gone)[w] EXCEPT !.shared = FALSE]
            ELSE WritesAfter(gone)[w]]
    BY DEF Leave
<1>2. clients[c] # None /\ clients[c] \in OpenClient /\ id \in Tracks /\ n \in Chunks
    BY <1>1, ClientIs DEF Playing, IInv
<1>3. \A other \in gone : Players(other) \subseteq {c}
    BY <1>2, OutdatedMay
<1>4. /\ client \in OpenClient \cup {None}
      /\ client # None => client.pc \in {"leftNaming", "leftReading"}
    BY <1>2, LeftIs
<1>5. clients[c].pc = "waiting" => client = None /\ Waits(c, id, n)
    BY <1>2 DEF Left, Waits
<1> HIDE DEF id, n, gone, client
<1>6. /\ rows' \in [Tracks -> CacheRow \cup {None}]
      /\ used' \subseteq Tracks \X Tracks
      /\ files' \in [Tracks -> [Formats -> (SUBSET Chunks) \cup {None}]]
      /\ \A other \in Tracks : rows'[other] = rows[other] \/ Players(other) \subseteq {c}
    BY <1>1, <1>3, ForgetIs DEF IInv
<1>7. /\ AwaitFits'
      /\ flights'[id][n] # None /\ flights[id][n] # None =>
            flights'[id][n].stage = flights[id][n].stage
      /\ \A i \in Tracks, m \in Chunks : i # id \/ m # n => flights'[i][m] = flights[i][m]
  <2>1. CASE clients[c].pc = "waiting"
    <3>1. /\ clients' = [clients EXCEPT ![c] = None]
          /\ flights' = [flights EXCEPT ![id][n] = FlightLeft(c)]
          /\ Waits(c, id, n)
        BY <1>1, <1>5, <2>1
    <3>2. AwaitFits' /\ OneChanges(id, n)
        BY <1>2, <3>1, WaiterLeaves
    <3> QED
        BY <3>2 DEF OneChanges
  <2>2. CASE clients[c].pc # "waiting"
    <3>1. flights' = flights
        BY <1>1, <2>2
    <3>2. client = None \/ client.pc # "waiting"
        BY <1>4
    <3>3. AwaitFits'
        BY <1>1, <1>4, <2>2, <3>1, <3>2, GoesOn
    <3> QED
        BY <3>1, <3>3
  <2> QED
      BY <2>1, <2>2
<1>8. ASSUME NEW w \in Writers
      PROVE  /\ writes'[w] \in Write \cup {None}
             /\ writes[w] = None => writes'[w] = None
             /\ writes[w] # None =>
                   /\ writes'[w] # None /\ WriteAfter(writes[w], writes'[w], gone)
                   /\ writes[w].id = id /\ writes[w].n = n /\ flights'[id][n] = None =>
                         ~writes'[w].shared
  <2> DEFINE after == WritesAfter(gone)[w]
  <2>1. /\ writes[w] = None => after = None
        /\ writes[w] # None => WriteAfter(writes[w], after, gone)
      BY WritesAfterIs DEF IInv
  <2>2. writes'[w] = IF writes[w] # None /\ <<writes[w].id, writes[w].n>> = <<id, n>>
                        /\ flights'[id][n] = None
                     THEN [after EXCEPT !.shared = FALSE] ELSE after
      BY <1>1
  <2> HIDE DEF after
  <2>3. CASE writes[w] = None
      BY <2>1, <2>2, <2>3
  <2>4. CASE writes[w] # None
    <3>1. after \in Write /\ after # None
        BY <2>1, <2>4 DEF WriteAfter
    <3>2. CASE writes[w].id = id /\ writes[w].n = n /\ flights'[id][n] = None
      <4>1. writes'[w] = [after EXCEPT !.shared = FALSE]
          BY <2>2, <2>4, <3>2
      <4>2. /\ writes'[w] \in Write /\ ~writes'[w].shared
            /\ writes'[w].id = after.id /\ writes'[w].format = after.format
            /\ writes'[w].n = after.n /\ writes'[w].stage = after.stage
            /\ writes'[w].linked = after.linked /\ writes'[w].current = after.current
          BY <3>1, <4>1 DEF Write
      <4> QED
          BY <2>1, <2>4, <4>2 DEF WriteAfter
    <3>3. CASE ~(writes[w].id = id /\ writes[w].n = n /\ flights'[id][n] = None)
      <4>1. writes'[w] = after
          BY <2>2, <3>3
      <4> QED
          BY <2>1, <2>4, <3>1, <3>3, <4>1
    <3> QED
        BY <3>2, <3>3
  <2> QED
      BY <2>3, <2>4
<1>9. writes' \in [Writers -> Write \cup {None}]
  <2>1. writes' = [w \in Writers |-> writes'[w]]
      BY <1>1
  <2> QED
      BY <1>8, <2>1
<1>10. WritesFit'
    BY <1>1, <1>8, ForgetKeeps
<1>11. TypeOK'
    BY <1>1, <1>6, <1>7, <1>9 DEF IInv, TypeOK, AwaitFits
<1>12. RowStays'
  <2> SUFFICES ASSUME NEW d \in Clients, Reads(d)'
               PROVE  /\ Reads(d) /\ clients'[d] = clients[d]
                      /\ rows'[clients[d].id] = rows[clients[d].id]
      BY RowsStay DEF Held
  <2>1. clients'[d] = IF d = c THEN client ELSE clients[d]
      BY <1>1 DEF IInv, TypeOK
  <2>2. d # c /\ clients'[d] = clients[d]
      BY <1>4, <2>1 DEF Reads
  <2>3. Reads(d)
      BY <2>2 DEF Reads
  <2> QED
      BY <1>6, <2>2, <2>3, ReaderPlays
<1>13. SharedFlies'
  <2> SUFFICES ASSUME NEW w \in Writers, writes'[w] # None, writes'[w].shared
               PROVE  /\ writes[w] # None /\ writes[w].shared
                      /\ writes'[w].id = writes[w].id /\ writes'[w].n = writes[w].n
                      /\ flights'[writes[w].id][writes[w].n] # None
                      /\ flights'[writes[w].id][writes[w].n].stage = "keeping"
      BY SharedStay
  <2>1. /\ writes[w] # None /\ writes[w].shared
        /\ writes'[w].id = writes[w].id /\ writes'[w].n = writes[w].n
      BY <1>8 DEF WriteAfter
  <2>2. /\ Flies(writes[w].id, writes[w].n)
        /\ flights[writes[w].id][writes[w].n].stage = "keeping"
      BY <2>1 DEF IInv, SharedFlies
  <2>3. writes[w].id \in Tracks /\ writes[w].n \in Chunks
      BY <2>1, WriteIs DEF IInv
  <2>4. CASE writes[w].id = id /\ writes[w].n = n
      BY <1>7, <1>8, <2>1, <2>2, <2>4 DEF Flies
  <2>5. CASE writes[w].id # id \/ writes[w].n # n
      BY <1>7, <2>1, <2>2, <2>3, <2>5 DEF Flies
  <2> QED
      BY <2>4, <2>5
<1> QED
    BY <1>7, <1>10, <1>11, <1>12, <1>13 DEF IInv, AwaitFits

LEMMA RestartKeeps ==
    ASSUME IInv, Restart
    PROVE  IInv'
<1> DEFINE fileless == {id \in Tracks : Held(id) /\ files[id][rows[id].format] = None}
<1>1. /\ rows' = RowsWithout(fileless)
      /\ used' = Among(Tracks \ fileless)
      /\ files' = [id \in Tracks |-> [f \in Formats |->
            IF Held(id) /\ rows[id].format = f THEN files[id][f] ELSE None]]
      /\ clients' = [c \in Clients |-> None]
      /\ flights' = [id \in Tracks |-> [n \in Chunks |-> None]]
      /\ writes' = [w \in Writers |-> None]
      /\ changed' = {}
    BY DEF Restart
<1>2. /\ rows' \in [Tracks -> CacheRow \cup {None}]
      /\ \A id \in Tracks : rows'[id] = IF id \in fileless THEN None ELSE rows[id]
    BY <1>1 DEF RowsWithout, IInv, TypeOK
<1>3. /\ files' \in [Tracks -> [Formats -> (SUBSET Chunks) \cup {None}]]
      /\ \A id \in Tracks, f \in Formats :
            files'[id][f] = IF Held(id) /\ rows[id].format = f THEN files[id][f] ELSE None
    BY <1>1 DEF IInv, TypeOK
<1>4. used' \subseteq Tracks \X Tracks
    BY <1>1, UsedIs DEF IInv
<1>5. TypeOK'
    BY <1>1, <1>2, <1>3, <1>4 DEF TypeOK
<1>6. FlightsAwaited' /\ RowStays' /\ SharedFlies' /\ CurrentFits' /\ LinkedHasFile'
    BY <1>1 DEF FlightsAwaited, RowStays, SharedFlies, CurrentFits, LinkedHasFile, Flies, Waits, Playing
<1>7. BitHasBytes'
  <2> SUFFICES ASSUME NEW id \in Tracks, rows'[id] # None, NEW n \in rows'[id].chunks
               PROVE  /\ files'[id][rows'[id].format] # None
                      /\ n \in files'[id][rows'[id].format]
      BY DEF BitHasBytes, Held
  <2>1. Held(id) /\ rows'[id] = rows[id]
      BY <1>2 DEF Held
  <2>2. files[id][rows[id].format] # None /\ n \in files[id][rows[id].format]
      BY <2>1 DEF IInv, WritesFit, BitHasBytes
  <2>3. rows[id].format \in Formats
      BY <2>1, RowIs DEF IInv
  <2> QED
      BY <1>3, <2>1, <2>2, <2>3
<1>8. NoStrayFile'
  <2> SUFFICES ASSUME NEW id \in Tracks, NEW f \in Formats, files'[id][f] # None
               PROVE  rows'[id] # None /\ rows'[id].format = f
      BY DEF NoStrayFile, Held
  <2>1. Held(id) /\ rows[id].format = f /\ files[id][f] # None
      BY <1>3
  <2>2. rows'[id] = rows[id]
      BY <1>2, <2>1
  <2> QED
      BY <2>1, <2>2 DEF Held
<1> QED
    BY <1>5, <1>6, <1>7, <1>8 DEF IInv, WritesFit

----------------------------------------------------------------------------
(* What the cache keeps                                                    *)

LEMMA StepKeeps == IInv /\ [Next]_vars => IInv'
<1> SUFFICES ASSUME IInv, [Next]_vars
             PROVE  IInv'
    OBVIOUS
<1>1. ASSUME NEW c \in Clients,
             \/ \E id \in Tracks, n \in Chunks : Open(c, id, n)
             \/ \E format \in Formats : Named(c, format)
             \/ NamingFails(c) \/ ReadAnswers(c) \/ ReadFails(c) \/ Pull(c) \/ Leave(c)
      PROVE  IInv'
    BY <1>1, OpenKeeps, NamedKeeps, NamingFailsKeeps, ReadAnswersKeeps, ReadFailsKeeps,
       PullKeeps, LeaveKeeps
<1>2. ASSUME NEW id \in Tracks, NEW n \in Chunks, FetchEnds(id, n)
      PROVE  IInv'
    BY <1>2, FetchServesKeeps, FetchFailsKeeps, FetchKeepsKeeps DEF FetchEnds
<1>3. ASSUME NEW w \in Writers, WriteGoesOn(w)
      PROVE  IInv'
    BY <1>3, WriteOpensKeeps, WriteLandsKeeps, WriteFailsKeeps DEF WriteGoesOn
<1>4. ASSUME NEW id \in Tracks, Pin(id)
      PROVE  IInv'
    BY <1>4, PinKeeps
<1>5. CASE Restart
    BY <1>5, RestartKeeps
<1>6. CASE UNCHANGED vars
  <2>1. UNCHANGED <<rows, used, files, clients, flights, writes, changed>>
      BY <1>6 DEF vars
  <2> QED
      BY <2>1 DEF IInv, TypeOK, FlightsAwaited, RowStays, SharedFlies, WritesFit, CurrentFits,
                  LinkedHasFile, BitHasBytes, NoStrayFile, Flies, Waits, Playing, Held
<1> QED
    BY <1>1, <1>2, <1>3, <1>4, <1>5, <1>6 DEF Next

LEMMA InitFits == Init => IInv
    BY DEF Init, IInv, TypeOK, FlightsAwaited, RowStays, SharedFlies, WritesFit, CurrentFits,
           LinkedHasFile, BitHasBytes, NoStrayFile, Flies, Waits, Playing, Held

(* Every behaviour of the cache keeps the invariant.                       *)
THEOREM Invariant == Spec => []IInv
<1> QED
    BY InitFits, StepKeeps, PTL DEF Spec

(* The row a client reads from stays, in the format it began with, until   *)
(* it leaves: `chunk` never throws `changed`.                              *)
THEOREM RowsAreKept == Spec => []RowStays
<1>1. IInv => RowStays
    BY DEF IInv
<1> QED
    BY <1>1, Invariant, PTL

(* A set bit has its bytes in its row's file, whatever is evicted while    *)
(* they are written, and on a disk that fails, too.                        *)
THEOREM BitsHaveBytes == Spec => []BitHasBytes
<1>1. IInv => BitHasBytes
    BY DEF IInv, WritesFit
<1> QED
    BY <1>1, Invariant, PTL

(* A fetch has those waiting on it, and whoever waits is in its list: what *)
(* settles a fetch settles them all.                                       *)
THEOREM WaitersAreListed == Spec => []FlightsAwaited
<1>1. IInv => FlightsAwaited
    BY DEF IInv
<1> QED
    BY <1>1, Invariant, PTL

(* On a disk whose writes do not fail, every file is of a row or of a      *)
(* write that removes it.                                                  *)
THEOREM FilesAreCounted ==
    ASSUME ~WritesFail
    PROVE  Spec => []NoStrayFile
<1>1. IInv => NoStrayFile
    BY DEF IInv, WritesFit
<1> QED
    BY <1>1, Invariant, PTL

----------------------------------------------------------------------------
(* What the count counts                                                   *)

(* A read that goes on without its client is of a chunk that is as long in *)
(* the row its track has by then.  While a client plays, its row stays;    *)
(* once it left, the track may be forgotten and made again in a format of  *)
(* another size, and then the count is off (`readHeld`).                   *)
ReadsTell ==
    \A c \in Clients :
        clients[c] # None /\ clients[c].pc = "leftReading" /\ Held(clients[c].id)
        => Length[clients[c].format][clients[c].n]
               = Length[rows[clients[c].id].format][clients[c].n]

RowCounts(row) == row.bytes = SumFunctionOnSet(Length[row.format], row.chunks)

(* A row's chunks have lengths, and are finitely many.                     *)
LEMMA ChunksSum ==
    ASSUME NEW row \in CacheRow
    PROVE  /\ IsFiniteSet(row.chunks)
           /\ \A n \in row.chunks : Length[row.format][n] \in Nat
<1>1. row.chunks \subseteq Chunks /\ row.format \in Formats
    BY DEF CacheRow
<1>2. \A n \in row.chunks : Length[row.format][n] \in Nat
    BY <1>1, LengthIs
<1> QED
    BY <1>1, <1>2, CacheIsFinite, FS_Subset

(* What a row counts is never negative.                                    *)
LEMMA CountIsNat ==
    ASSUME NEW row \in CacheRow, RowCounts(row)
    PROVE  row.bytes \in Nat
<1>1. /\ IsFiniteSet(row.chunks)
      /\ \A n \in row.chunks : Length[row.format][n] \in Nat
    BY ChunksSum
<1>2. SumFunctionOnSet(Length[row.format], row.chunks) \in Nat
    BY <1>1, SumOfPart
<1> QED
    BY <1>2 DEF RowCounts

(* A new row counts nothing.                                               *)
LEMMA NewRowCounts == \A format : RowCounts(NewRow(format)) /\ NewRow(format).bytes = 0
<1> SUFFICES ASSUME NEW format
             PROVE  RowCounts(NewRow(format)) /\ NewRow(format).bytes = 0
    OBVIOUS
<1>1. /\ NewRow(format).bytes = 0 /\ NewRow(format).chunks = {}
    BY DEF NewRow
<1> QED
    BY <1>1, SumOfNone DEF RowCounts

(* A chunk that is counted from now on.                                    *)
LEMMA CountedCounts ==
    ASSUME NEW row \in CacheRow, RowCounts(row), NEW n \in Chunks, n \notin row.chunks,
           NEW length, length = Length[row.format][n]
    PROVE  /\ RowCounts(Counted(row, n, length))
           /\ Counted(row, n, length).bytes = row.bytes + length
<1> DEFINE counted == Counted(row, n, length)
           more == [row EXCEPT !.chunks = row.chunks \cup {n}]
           f == Length[row.format]
<1>1. length \in Nat /\ row.format \in Formats
  <2>1. row.format \in Formats
      BY DEF CacheRow
  <2> QED
      BY <2>1, LengthIs
<1>2. /\ counted \in CacheRow /\ counted.format = row.format
      /\ counted.chunks = row.chunks \cup {n}
    BY <1>1, CountedIs
<1>3. counted.bytes = row.bytes + length
  <2>1. counted = [more EXCEPT !.bytes = row.bytes + length]
      BY Zenon DEF Counted
  <2>2. more \in CacheRow
      BY DEF CacheRow
  <2> HIDE DEF more, counted
  <2> QED
      BY <2>1, <2>2 DEF CacheRow
<1>4. SumFunctionOnSet(f, counted.chunks) = f[n] + SumFunctionOnSet(f, row.chunks)
  <2>1. IsFiniteSet(counted.chunks) /\ \A m \in counted.chunks : f[m] \in Int
    <3> HIDE DEF counted
    <3>1. counted \in CacheRow
        BY <1>2
    <3>2. /\ IsFiniteSet(counted.chunks)
          /\ \A m \in counted.chunks : Length[counted.format][m] \in Nat
        BY <3>1, ChunksSum
    <3>3. Length[counted.format] = f
        BY <1>2
    <3> QED
        BY <3>2, <3>3
  <2>2. n \in counted.chunks /\ counted.chunks \ {n} = row.chunks
      BY <1>2
  <2> HIDE DEF f, counted
  <2> QED
      BY <2>1, <2>2, SumByAny
<1>5. row.bytes = SumFunctionOnSet(f, row.chunks) /\ row.bytes \in Nat
    BY CountIsNat DEF RowCounts
<1> HIDE DEF counted
<1>6. counted.bytes = SumFunctionOnSet(f, counted.chunks)
    BY <1>1, <1>3, <1>4, <1>5
<1> QED
    BY <1>2, <1>3, <1>6 DEF RowCounts, counted

(* A chunk that is no longer counted.                                      *)
LEMMA ClearedCounts ==
    ASSUME NEW row \in CacheRow, RowCounts(row), NEW n \in row.chunks,
           NEW length, length = Length[row.format][n]
    PROVE  /\ RowCounts(Cleared(row, n, length))
           /\ Cleared(row, n, length).bytes = row.bytes - length
<1> DEFINE cleared == Cleared(row, n, length)
           less == [row EXCEPT !.chunks = row.chunks \ {n}]
           f == Length[row.format]
<1>1. length \in Nat /\ row.format \in Formats /\ n \in Chunks
  <2>1. row.format \in Formats /\ n \in Chunks
      BY DEF CacheRow
  <2> QED
      BY <2>1, LengthIs
<1>2. /\ cleared.format = row.format /\ cleared.chunks = row.chunks \ {n}
      /\ cleared.bytes = row.bytes - length
  <2>1. cleared = [less EXCEPT !.bytes = row.bytes - length]
      BY Zenon DEF Cleared
  <2>2. less \in CacheRow /\ less.chunks = row.chunks \ {n} /\ less.format = row.format
      BY DEF CacheRow
  <2> HIDE DEF less, cleared
  <2> QED
      BY <2>1, <2>2 DEF CacheRow
<1>3. SumFunctionOnSet(f, row.chunks) = f[n] + SumFunctionOnSet(f, row.chunks \ {n})
  <2>1. IsFiniteSet(row.chunks) /\ \A m \in row.chunks : f[m] \in Int
      BY ChunksSum
  <2> HIDE DEF f
  <2> QED
      BY <2>1, SumByAny
<1>4. SumFunctionOnSet(f, row.chunks \ {n}) \in Int
  <2>1. /\ IsFiniteSet(row.chunks \ {n})
        /\ \A m \in row.chunks \ {n} : f[m] \in Int
      BY ChunksSum, FS_Subset
  <2> HIDE DEF f
  <2> QED
      BY <2>1, SumIsInt
<1>5. row.bytes = SumFunctionOnSet(f, row.chunks) /\ row.bytes \in Nat
    BY CountIsNat DEF RowCounts
<1> HIDE DEF cleared
<1>6. cleared.bytes = SumFunctionOnSet(f, cleared.chunks)
    BY <1>1, <1>2, <1>3, <1>4, <1>5
<1> QED
    BY <1>2, <1>6 DEF RowCounts, cleared

----------------------------------------------------------------------------
(* How rows and writes come and go                                         *)

(* Rows stay as they are, or go.                                           *)
RowsGo == \A id \in Tracks : rows'[id] = rows[id] \/ rows'[id] = None

(* Writes stay of the chunk they are, or go.                               *)
WritesGo ==
    \A w \in Writers : writes'[w] # None =>
        /\ writes[w] # None
        /\ writes'[w].format = writes[w].format /\ writes'[w].n = writes[w].n

(* Forgetting tracks only lets rows go.                                    *)
LEMMA ForgetGoes ==
    ASSUME TypeOK, NEW gone, Forget(gone)
    PROVE  RowsGo
  BY ForgetIs DEF RowsGo

(* A write that was begun on a track that is forgotten goes on.            *)
LEMMA AfterGoes ==
    ASSUME TypeOK, NEW gone, writes' = WritesAfter(gone)
    PROVE  WritesGo
<1> SUFFICES ASSUME NEW w \in Writers, writes'[w] # None
             PROVE  /\ writes[w] # None
                    /\ writes'[w].format = writes[w].format /\ writes'[w].n = writes[w].n
    BY DEF WritesGo
<1>1. writes[w] # None /\ WriteAfter(writes[w], writes'[w], gone)
    BY WritesAfterIs
<1> QED
    BY <1>1 DEF WriteAfter

(* Players that leave a track.                                             *)
LEMMA ReleaseGoes ==
    ASSUME TypeOK, NEW id, NEW leaving, NEW marked, Release(id, leaving, marked)
    PROVE  RowsGo /\ WritesGo
  BY ForgetGoes, AfterGoes DEF Release

(* A client that leaves only takes rows and writes with it.                *)
LEMMA LeaveGoes ==
    ASSUME IInv, NEW c \in Clients, Leave(c)
    PROVE  RowsGo /\ WritesGo
<1> DEFINE id == clients[c].id
           n == clients[c].n
           gone == Outdated(id, {c}, changed)
<1>1. /\ Forget(gone)
      /\ writes' = [w \in Writers |->
            IF writes[w] # None /\ <<writes[w].id, writes[w].n>> = <<id, n>>
               /\ flights'[id][n] = None
            THEN [WritesAfter(gone)[w] EXCEPT !.shared = FALSE]
            ELSE WritesAfter(gone)[w]]
    BY DEF Leave
<1> HIDE DEF id, n, gone
<1>2. RowsGo
    BY <1>1, ForgetGoes DEF IInv
<1>3. WritesGo
  <2> SUFFICES ASSUME NEW w \in Writers, writes'[w] # None
               PROVE  /\ writes[w] # None
                      /\ writes'[w].format = writes[w].format /\ writes'[w].n = writes[w].n
      BY DEF WritesGo
  <2> DEFINE after == WritesAfter(gone)[w]
  <2>1. CASE writes[w] = None
    <3>1. after = None
        BY <2>1, WritesAfterIs DEF IInv
    <3>2. writes'[w] = after
        BY <1>1, <2>1
    <3> QED
        BY <3>1, <3>2
  <2>2. CASE writes[w] # None
    <3>1. after \in Write /\ after.format = writes[w].format /\ after.n = writes[w].n
        BY <2>2, WritesAfterIs DEF IInv, WriteAfter
    <3>2. writes'[w] = after \/ writes'[w] = [after EXCEPT !.shared = FALSE]
        BY <1>1
    <3> HIDE DEF after
    <3> QED
        BY <2>2, <3>1, <3>2 DEF Write
  <2> QED
      BY <2>1, <2>2
<1> QED
    BY <1>2, <1>3

(* A write that ends, whatever it leaves.                                  *)
LEMMA EndGoes ==
    ASSUME IInv, NEW w \in Writers, writes' = [writes EXCEPT ![w] = None]
    PROVE  WritesGo
  BY DEF WritesGo, IInv, TypeOK

(* A write that opens its file.                                            *)
LEMMA OpensGoes ==
    ASSUME IInv, NEW w \in Writers, WriteOpens(w)
    PROVE  RowsGo /\ WritesGo
<1>1. /\ writes[w] # None /\ UNCHANGED rows
      /\ writes' = [writes EXCEPT ![w].stage = "open", ![w].linked = TRUE]
    BY DEF WriteOpens
<1>2. \A v \in Writers : writes'[v] = IF v = w THEN [writes[w] EXCEPT !.stage = "open", !.linked = TRUE]
                                               ELSE writes[v]
    BY <1>1 DEF IInv, TypeOK
<1>3. writes[w] \in Write
    BY <1>1, WriteIs DEF IInv
<1>4. /\ writes'[w].format = writes[w].format /\ writes'[w].n = writes[w].n
    BY <1>2, <1>3 DEF Write
<1>5. WritesGo
    BY <1>1, <1>2, <1>4 DEF WritesGo
<1> QED
    BY <1>1, <1>5 DEF RowsGo

(* A server that restarts has no writes.                                   *)
LEMMA RestartGoes ==
    ASSUME Restart
    PROVE  RowsGo /\ WritesGo
  BY DEF Restart, RowsWithout, RowsGo, WritesGo

(* A write that lands.                                                     *)
LEMMA LandsGoes ==
    ASSUME IInv, NEW w \in Writers, WriteLands(w)
    PROVE  /\ writes[w] # None /\ WritesGo /\ writes'[w] = None
           /\ \/ UNCHANGED rows
              \/ /\ writes[w].current /\ Uncounted(writes[w])
                 /\ rows' = [rows EXCEPT ![writes[w].id] =
                       Counted(@, writes[w].n, Length[writes[w].format][writes[w].n])]
                 /\ \A v \in Writers \ {w} : writes'[v] = writes[v]
<1> DEFINE path == <<writes[w].id, writes[w].format>>
           unlinked == [v \in Writers |->
                       IF v = w THEN None
                       ELSE IF writes[v] # None /\ <<writes[v].id, writes[v].format>> = path
                       THEN [writes[v] EXCEPT !.linked = FALSE]
                       ELSE writes[v]]
<1>1. /\ writes[w] # None
      /\ \/ /\ writes' = [writes EXCEPT ![w] = None]
            /\ \/ UNCHANGED rows
               \/ /\ writes[w].current /\ Uncounted(writes[w])
                  /\ rows' = [rows EXCEPT ![writes[w].id] =
                        Counted(@, writes[w].n, Length[writes[w].format][writes[w].n])]
         \/ writes' = unlinked /\ UNCHANGED rows
    BY DEF WriteLands
<1>2. CASE writes' = [writes EXCEPT ![w] = None]
  <2>1. /\ writes'[w] = None /\ WritesGo
        /\ \A v \in Writers \ {w} : writes'[v] = writes[v]
      BY <1>2, EndGoes DEF IInv, TypeOK
  <2>2. \/ UNCHANGED rows
        \/ /\ writes[w].current /\ Uncounted(writes[w])
           /\ rows' = [rows EXCEPT ![writes[w].id] =
                 Counted(@, writes[w].n, Length[writes[w].format][writes[w].n])]
      BY <1>1
  <2> QED
      BY <1>1, <2>1, <2>2
<1>3. CASE writes' = unlinked /\ UNCHANGED rows
  <2> SUFFICES ASSUME NEW v \in Writers, writes'[v] # None
               PROVE  /\ writes[v] # None
                      /\ writes'[v].format = writes[v].format /\ writes'[v].n = writes[v].n
      BY <1>1, <1>3 DEF WritesGo
  <2>1. v # w /\ writes'[v] \in {writes[v], [writes[v] EXCEPT !.linked = FALSE]}
      BY <1>3
  <2>2. writes[v] # None
      BY <1>3, <2>1
  <2>3. writes[v] \in Write
      BY <2>2, WriteIs DEF IInv
  <2> QED
      BY <2>1, <2>2, <2>3 DEF Write
<1> QED
    BY <1>1, <1>2, <1>3

----------------------------------------------------------------------------
(* What a step does to the count                                           *)

(* No row holds more bytes than it did.                                    *)
RowsFall == \A id \in Tracks : RowBytes(id)' <= RowBytes(id)

(* The landing write's chunk has its bit set, and is counted.              *)
Lands(w) ==
    /\ writes[w] # None /\ writes'[w] = None
    /\ writes[w].current /\ Uncounted(writes[w])
    /\ rows' = [rows EXCEPT ![writes[w].id] =
          Counted(@, writes[w].n, Length[writes[w].format][writes[w].n])]
    /\ \A v \in Writers \ {w} : writes'[v] = writes[v]

(* Where rows count, none counts less than nothing.                        *)
LEMMA BytesAreNat ==
    ASSUME TypeOK, BytesAreCounted, NEW id \in Tracks
    PROVE  /\ Held(id) => RowCounts(rows[id]) /\ rows[id] \in CacheRow
           /\ RowBytes(id) \in Nat
<1>1. Held(id) => RowCounts(rows[id]) /\ rows[id] \in CacheRow
    BY RowIs DEF BytesAreCounted, RowCounts
<1>2. Held(id) => rows[id].bytes \in Nat
    BY <1>1, CountIsNat
<1> QED
    BY <1>1, <1>2 DEF RowBytes

(* A row that stays, goes, is new, is pinned or has a chunk less.          *)
LEMMA RowsCount ==
    ASSUME TypeOK, BytesAreCounted,
           \A id \in Tracks :
              \/ rows'[id] = rows[id] \/ rows'[id] = None
              \/ \E format : rows[id] = None /\ rows'[id] = NewRow(format)
              \/ /\ Held(id) /\ RowCounts(rows'[id])
                 /\ rows'[id].bytes \in Int /\ rows'[id].bytes <= rows[id].bytes
    PROVE  BytesAreCounted' /\ RowsFall
<1> SUFFICES ASSUME NEW id \in Tracks
             PROVE  /\ rows'[id] # None => RowCounts(rows'[id])
                    /\ (IF rows'[id] # None THEN rows'[id].bytes ELSE 0) <= RowBytes(id)
    BY DEF BytesAreCounted, RowsFall, RowBytes, Held, RowCounts
<1>1. /\ Held(id) => RowCounts(rows[id])
      /\ RowBytes(id) \in Nat
    BY BytesAreNat
<1>2. CASE rows'[id] = rows[id] \/ rows'[id] = None
    BY <1>1, <1>2 DEF RowBytes, Held
<1>3. CASE \E format : rows[id] = None /\ rows'[id] = NewRow(format)
    BY <1>1, <1>3, NewRowCounts
<1>4. CASE /\ Held(id) /\ RowCounts(rows'[id])
           /\ rows'[id].bytes \in Int /\ rows'[id].bytes <= rows[id].bytes
  <2>1. RowBytes(id) = rows[id].bytes
      BY <1>4 DEF RowBytes
  <2> QED
      BY <1>1, <1>4, <2>1
<1> QED
    BY <1>2, <1>3, <1>4

(* A row made for a track counts nothing, and one that is there stays.     *)
LEMMA NamedCounts ==
    ASSUME IInv, BytesAreCounted, NEW c \in Clients, NEW format \in Formats, Named(c, format)
    PROVE  BytesAreCounted' /\ RowsFall
<1> DEFINE id == clients[c].id
           row == IF Held(id) THEN rows[id] ELSE NewRow(format)
<1>1. rows' = [rows EXCEPT ![id] = row]
    BY DEF Named
<1> HIDE DEF id
<1>2. \A i \in Tracks : rows'[i] = rows[i] \/ (rows[i] = None /\ rows'[i] = NewRow(format))
    BY <1>1 DEF IInv, TypeOK, Held
<1> QED
    BY <1>2, RowsCount DEF IInv

(* A failed read takes off the count what its bit had added.               *)
LEMMA ReadFailsCounts ==
    ASSUME IInv, ReadsTell, BytesAreCounted, NEW c \in Clients, ReadFails(c)
    PROVE  BytesAreCounted' /\ RowsFall
<1> DEFINE id == clients[c].id
           n == clients[c].n
           length == Length[clients[c].format][n]
<1>1. /\ clients[c] # None /\ clients[c].pc \in {"reading", "leftReading"}
      /\ rows' = IF Held(id) /\ n \in rows[id].chunks
                 THEN [rows EXCEPT ![id] = Cleared(rows[id], n, length)]
                 ELSE rows
    BY DEF ReadFails
<1>2. id \in Tracks /\ n \in Chunks
    BY <1>1, ClientIs DEF IInv
<1>3. Held(id) => length = Length[rows[id].format][n]
  <2>1. CASE clients[c].pc = "reading"
    <3>1. Playing(c) /\ clients[c].pc # "naming"
        BY <1>1, <2>1 DEF Playing
    <3> QED
        BY <3>1 DEF IInv, RowStays
  <2>2. CASE clients[c].pc = "leftReading"
      BY <1>1, <2>2 DEF ReadsTell
  <2> QED
      BY <1>1, <2>1, <2>2
<1> HIDE DEF id, n, length
<1>4. CASE ~(Held(id) /\ n \in rows[id].chunks)
    BY <1>1, <1>4, RowsCount DEF IInv
<1>5. CASE Held(id) /\ n \in rows[id].chunks
  <2> DEFINE cleared == Cleared(rows[id], n, length)
  <2>1. rows[id] \in CacheRow /\ RowCounts(rows[id])
      BY <1>2, <1>5, BytesAreNat DEF IInv
  <2>2. RowCounts(cleared) /\ cleared.bytes = rows[id].bytes - length
      BY <1>3, <1>5, <2>1, ClearedCounts
  <2>3. rows[id].bytes \in Nat /\ length \in Nat
    <3>1. rows[id].format \in Formats
        BY <2>1 DEF CacheRow
    <3> QED
        BY <1>2, <1>3, <1>5, <2>1, <3>1, CountIsNat, LengthIs
  <2>4. cleared.bytes \in Int /\ cleared.bytes <= rows[id].bytes
      BY <2>2, <2>3
  <2> HIDE DEF cleared
  <2>5. \A i \in Tracks : rows'[i] = IF i = id THEN cleared ELSE rows[i]
      BY <1>1, <1>5 DEF cleared, IInv, TypeOK
  <2> QED
      BY <1>5, <2>2, <2>4, <2>5, RowsCount DEF IInv
<1> QED
    BY <1>4, <1>5

(* A pin changes no count.                                                 *)
LEMMA PinCounts ==
    ASSUME IInv, BytesAreCounted, NEW id \in Tracks, Pin(id)
    PROVE  BytesAreCounted' /\ RowsFall
<1>1. PICK pinned \in BOOLEAN : rows' = [rows EXCEPT ![id].pinned = pinned]
    BY DEF Pin
<1>2. Held(id)
    BY DEF Pin
<1>3. rows[id] \in CacheRow /\ RowCounts(rows[id])
    BY <1>2, BytesAreNat DEF IInv
<1> DEFINE row == [rows[id] EXCEPT !.pinned = pinned]
<1>4. /\ row.format = rows[id].format /\ row.chunks = rows[id].chunks
      /\ row.bytes = rows[id].bytes
    BY <1>3 DEF CacheRow
<1>5. \A i \in Tracks : rows'[i] = IF i = id THEN row ELSE rows[i]
    BY <1>1 DEF IInv, TypeOK
<1> HIDE DEF row
<1>6. RowCounts(row)
    BY <1>3, <1>4 DEF RowCounts
<1>7. row.bytes \in Int /\ row.bytes <= rows[id].bytes
    BY <1>3, <1>4 DEF CacheRow
<1> QED
    BY <1>2, <1>5, <1>6, <1>7, RowsCount DEF IInv

(* What a landing write adds to the count.                                 *)
LEMMA LandsCounts ==
    ASSUME IInv, BytesAreCounted, NEW w \in Writers, Lands(w)
    PROVE  /\ BytesAreCounted'
           /\ writes[w].id \in Tracks /\ WriteBytes(writes[w]) \in Nat
           /\ \A id \in Tracks :
                 RowBytes(id)' = IF id = writes[w].id THEN RowBytes(id) + WriteBytes(writes[w])
                                                      ELSE RowBytes(id)
<1> DEFINE id == writes[w].id
           n == writes[w].n
           length == WriteBytes(writes[w])
           counted == Counted(rows[id], n, length)
<1>1. /\ writes[w] # None /\ writes[w].current /\ Held(id) /\ n \notin rows[id].chunks
      /\ rows' = [rows EXCEPT ![id] = counted]
      /\ length = Length[writes[w].format][n]
    BY DEF Lands, Uncounted, WriteBytes
<1>2. id \in Tracks /\ n \in Chunks /\ writes[w].format \in Formats
    BY <1>1, WriteIs DEF IInv
<1>3. rows[id].format = writes[w].format
    BY <1>1 DEF IInv, WritesFit, CurrentFits
<1>4. rows[id] \in CacheRow /\ RowCounts(rows[id])
    BY <1>1, <1>2, BytesAreNat DEF IInv
<1>5. length \in Nat /\ length = Length[rows[id].format][n]
    BY <1>1, <1>2, <1>3, LengthIs
<1> HIDE DEF id, n, length
<1>6. RowCounts(counted) /\ counted.bytes = rows[id].bytes + length
    BY <1>1, <1>2, <1>4, <1>5, CountedCounts
<1>7. counted # None
  <2>1. counted \in CacheRow
      BY <1>2, <1>4, <1>5, CountedIs
  <2> HIDE DEF counted
  <2> QED
      BY <2>1
<1> HIDE DEF counted
<1>8. \A i \in Tracks : rows'[i] = IF i = id THEN counted ELSE rows[i]
    BY <1>1 DEF IInv, TypeOK
<1>9. BytesAreCounted'
  <2>1. \A i \in Tracks : Held(i) => RowCounts(rows[i])
      BY DEF BytesAreCounted, RowCounts
  <2>2. \A i \in Tracks : rows'[i] # None => RowCounts(rows'[i])
      BY <1>6, <1>8, <2>1 DEF Held
  <2> QED
      BY <2>2 DEF BytesAreCounted, RowCounts, Held
<1>10. ASSUME NEW i \in Tracks
       PROVE  RowBytes(i)' = IF i = id THEN RowBytes(i) + length ELSE RowBytes(i)
    BY <1>1, <1>6, <1>7, <1>8 DEF RowBytes, Held
<1> QED
    BY <1>2, <1>5, <1>9, <1>10 DEF id, length

(* Every step keeps the count; only a landing write adds to it.            *)
LEMMA StepCounts ==
    ASSUME IInv, ReadsTell, BytesAreCounted, [Next]_vars
    PROVE  BytesAreCounted' /\ (RowsFall \/ \E w \in Writers : Lands(w))
<1>1. ASSUME RowsGo
      PROVE  BytesAreCounted' /\ RowsFall
    BY <1>1, RowsCount DEF RowsGo, IInv
<1>2. ASSUME UNCHANGED rows
      PROVE  BytesAreCounted' /\ RowsFall
    BY <1>1, <1>2 DEF RowsGo
<1>3. ASSUME NEW c \in Clients,
             \/ \E id \in Tracks, n \in Chunks : Open(c, id, n)
             \/ \E format \in Formats : Named(c, format)
             \/ NamingFails(c) \/ ReadAnswers(c) \/ ReadFails(c) \/ Pull(c) \/ Leave(c)
      PROVE  BytesAreCounted' /\ RowsFall
  <2>1. (\E id \in Tracks, n \in Chunks : Open(c, id, n)) \/ ReadAnswers(c) \/ Pull(c)
        => UNCHANGED rows
      BY DEF Open, ReadAnswers, Pull
  <2>2. NamingFails(c) => RowsGo
      BY ReleaseGoes DEF NamingFails, IInv
  <2> QED
      BY <1>1, <1>2, <1>3, <2>1, <2>2, NamedCounts, ReadFailsCounts, LeaveGoes
<1>4. ASSUME NEW id \in Tracks, NEW n \in Chunks, FetchEnds(id, n)
      PROVE  BytesAreCounted' /\ RowsFall
  <2>1. FetchServes(id, n) => RowsGo
      BY ForgetGoes DEF FetchServes, IInv
  <2>2. FetchFails(id, n) => RowsGo
      BY ReleaseGoes DEF FetchFails, IInv
  <2>3. \A w \in Writers : FetchKeeps(id, n, w) => RowsGo
      BY ForgetGoes DEF FetchKeeps, IInv
  <2> QED
      BY <1>1, <1>4, <2>1, <2>2, <2>3 DEF FetchEnds
<1>5. ASSUME NEW w \in Writers, WriteGoesOn(w)
      PROVE  BytesAreCounted' /\ (RowsFall \/ Lands(w))
  <2>1. WriteOpens(w) => RowsGo
      BY OpensGoes
  <2>2. WriteFails(w) => UNCHANGED rows
      BY DEF WriteFails
  <2>3. WriteLands(w) => UNCHANGED rows \/ Lands(w)
      BY LandsGoes DEF Lands
  <2>4. Lands(w) => BytesAreCounted'
      BY LandsCounts
  <2> QED
      BY <1>1, <1>2, <1>5, <2>1, <2>2, <2>3, <2>4 DEF WriteGoesOn
<1>6. ASSUME NEW id \in Tracks, Pin(id)
      PROVE  BytesAreCounted' /\ RowsFall
    BY <1>6, PinCounts
<1>7. ASSUME Restart
      PROVE  BytesAreCounted' /\ RowsFall
    BY <1>1, <1>7, RestartGoes
<1>8. ASSUME UNCHANGED vars
      PROVE  BytesAreCounted' /\ RowsFall
    BY <1>2, <1>8 DEF vars
<1> QED
    BY <1>3, <1>4, <1>5, <1>6, <1>7, <1>8 DEF Next

(* Only a fetch whose bytes are there adds a write.                        *)
LEMMA StepWrites ==
    ASSUME IInv, [Next]_vars
    PROVE  WritesGo \/ \E id \in Tracks, n \in Chunks, w \in Writers : FetchKeeps(id, n, w)
<1>1. UNCHANGED writes => WritesGo
    BY DEF WritesGo
<1>2. ASSUME NEW c \in Clients,
             \/ \E id \in Tracks, n \in Chunks : Open(c, id, n)
             \/ \E format \in Formats : Named(c, format)
             \/ NamingFails(c) \/ ReadAnswers(c) \/ ReadFails(c) \/ Pull(c) \/ Leave(c)
      PROVE  WritesGo
  <2>1. (\E id \in Tracks, n \in Chunks : Open(c, id, n)) => UNCHANGED writes
      BY DEF Open
  <2>2. (\E format \in Formats : Named(c, format)) => UNCHANGED writes
      BY DEF Named
  <2>3. ReadAnswers(c) \/ ReadFails(c) \/ Pull(c) => UNCHANGED writes
      BY DEF ReadAnswers, ReadFails, Pull
  <2>4. NamingFails(c) => WritesGo
      BY ReleaseGoes DEF NamingFails, IInv
  <2> QED
      BY <1>1, <1>2, <2>1, <2>2, <2>3, <2>4, LeaveGoes
<1>3. ASSUME NEW id \in Tracks, NEW n \in Chunks, FetchEnds(id, n)
      PROVE  WritesGo \/ \E w \in Writers : FetchKeeps(id, n, w)
  <2>1. FetchServes(id, n) => WritesGo
      BY AfterGoes DEF FetchServes, IInv
  <2>2. FetchFails(id, n) => WritesGo
      BY ReleaseGoes DEF FetchFails, IInv
  <2> QED
      BY <1>3, <2>1, <2>2 DEF FetchEnds
<1>4. ASSUME NEW w \in Writers, WriteGoesOn(w)
      PROVE  WritesGo
  <2>1. WriteFails(w) => WritesGo
      BY EndGoes DEF WriteFails
  <2> QED
      BY <1>4, <2>1, OpensGoes, LandsGoes DEF WriteGoesOn
<1>5. ASSUME NEW id \in Tracks, Pin(id)
      PROVE  WritesGo
    BY <1>1, <1>5 DEF Pin
<1>6. UNCHANGED vars => WritesGo
    BY <1>1 DEF vars
<1> QED
    BY <1>2, <1>3, <1>4, <1>5, <1>6, RestartGoes DEF Next

----------------------------------------------------------------------------
(* The cap                                                                 *)

(* A write has some bytes, or is none.                                     *)
LEMMA WriteBytesAreNat ==
    ASSUME TypeOK, NEW w \in Writers
    PROVE  WriteBytes(writes[w]) \in Nat
<1>1. CASE writes[w] = None
    BY <1>1 DEF WriteBytes
<1>2. CASE writes[w] # None
    BY <1>2, WriteIs, LengthIs DEF WriteBytes
<1> QED
    BY <1>1, <1>2

(* What the sums of the cap are of.                                        *)
HeldBy == [id \in Tracks |-> RowBytes(id)]

WrittenBy == [w \in Writers |-> WriteBytes(writes[w])]

Totals ==
    /\ \A id \in Tracks : HeldBy[id] \in Nat
    /\ \A w \in Writers : WrittenBy[w] \in Nat
    /\ HeldBytes(Tracks) = SumFunctionOnSet(HeldBy, Tracks)
    /\ WritingBytes = SumFunctionOnSet(WrittenBy, Writers)
    /\ HeldBytes(Tracks) \in Nat /\ WritingBytes \in Nat

(* Where rows count, the sums are of natural numbers.                      *)
LEMMA TotalsAreNat == TypeOK /\ BytesAreCounted => Totals
<1> SUFFICES ASSUME TypeOK, BytesAreCounted
             PROVE  Totals
    OBVIOUS
<1>1. \A id \in Tracks : HeldBy[id] \in Nat
    BY BytesAreNat DEF HeldBy
<1>2. \A w \in Writers : WrittenBy[w] \in Nat
    BY WriteBytesAreNat DEF WrittenBy
<1>3. /\ HeldBytes(Tracks) = SumFunctionOnSet(HeldBy, Tracks)
      /\ WritingBytes = SumFunctionOnSet(WrittenBy, Writers)
    BY DEF HeldBytes, WritingBytes, HeldBy, WrittenBy
<1>4. /\ SumFunctionOnSet(HeldBy, Tracks) \in Nat
      /\ SumFunctionOnSet(WrittenBy, Writers) \in Nat
    BY <1>1, <1>2, CacheIsFinite, SumOfPart
<1> QED
    BY <1>1, <1>2, <1>3, <1>4 DEF Totals

(* Rows that hold no more and writes that only end keep within the cap.    *)
LEMMA LighterFits ==
    ASSUME TypeOK, CapHolds, Totals, Totals', RowsFall, WritesGo
    PROVE  CapHolds'
<1>1. HeldBytes(Tracks)' <= HeldBytes(Tracks)
  <2>1. \A id \in Tracks : HeldBy'[id] \in Int /\ HeldBy[id] \in Int /\ HeldBy'[id] <= HeldBy[id]
      BY DEF HeldBy, RowsFall, Totals
  <2>2. SumFunctionOnSet(HeldBy', Tracks) <= SumFunctionOnSet(HeldBy, Tracks)
      BY <2>1, CacheIsFinite, SumOfLess
  <2> QED
      BY <2>2 DEF Totals
<1>2. WritingBytes' <= WritingBytes
  <2>1. ASSUME NEW w \in Writers
        PROVE  /\ WrittenBy'[w] \in Int /\ WrittenBy[w] \in Int
               /\ WrittenBy'[w] <= WrittenBy[w]
    <3>1. WrittenBy'[w] \in Nat /\ WrittenBy[w] \in Nat
        BY DEF Totals
    <3>2. WrittenBy'[w] = 0 \/ WrittenBy'[w] = WrittenBy[w]
        BY DEF WrittenBy, WriteBytes, WritesGo
    <3> QED
        BY <3>1, <3>2
  <2>2. SumFunctionOnSet(WrittenBy', Writers) <= SumFunctionOnSet(WrittenBy, Writers)
      BY <2>1, CacheIsFinite, SumOfLess
  <2> QED
      BY <2>2 DEF Totals
<1> QED
    BY <1>1, <1>2 DEF CapHolds, Totals, CacheConstants

(* What a landing write adds to the rows it takes from the writes.         *)
LEMMA LandsFits ==
    ASSUME IInv, BytesAreCounted, CapHolds, Totals, Totals', NEW w \in Writers, Lands(w)
    PROVE  CapHolds'
<1> DEFINE length == WriteBytes(writes[w])
           id == writes[w].id
<1>1. /\ id \in Tracks /\ length \in Nat
      /\ \A i \in Tracks : HeldBy'[i] = IF i = id THEN HeldBy[i] + length ELSE HeldBy[i]
    BY LandsCounts DEF HeldBy
<1>2. /\ WrittenBy'[w] = 0 /\ WrittenBy[w] = length
      /\ \A v \in Writers \ {w} : WrittenBy'[v] = WrittenBy[v]
    BY DEF Lands, WrittenBy, WriteBytes
<1> HIDE DEF id, length
<1>3. HeldBytes(Tracks)' = HeldBytes(Tracks) + (HeldBy'[id] - HeldBy[id])
  <2>1. \A i \in Tracks : HeldBy[i] \in Int /\ HeldBy'[i] \in Int
      BY DEF Totals
  <2>2. \A i \in Tracks \ {id} : HeldBy[i] = HeldBy'[i]
      BY <1>1
  <2>3. SumFunctionOnSet(HeldBy', Tracks)
            = SumFunctionOnSet(HeldBy, Tracks) + (HeldBy'[id] - HeldBy[id])
      BY <1>1, <2>1, <2>2, CacheIsFinite, SumOfChange
  <2> QED
      BY <2>3 DEF Totals
<1>4. WritingBytes' = WritingBytes + (WrittenBy'[w] - WrittenBy[w])
  <2>1. \A v \in Writers : WrittenBy[v] \in Int /\ WrittenBy'[v] \in Int
      BY DEF Totals
  <2>2. \A v \in Writers \ {w} : WrittenBy[v] = WrittenBy'[v]
      BY <1>2
  <2>3. SumFunctionOnSet(WrittenBy', Writers)
            = SumFunctionOnSet(WrittenBy, Writers) + (WrittenBy'[w] - WrittenBy[w])
      BY <2>1, <2>2, CacheIsFinite, SumOfChange
  <2> QED
      BY <2>3 DEF Totals
<1>5. HeldBy'[id] - HeldBy[id] = length
    BY <1>1 DEF Totals
<1>6. WrittenBy'[w] - WrittenBy[w] = 0 - length
    BY <1>1, <1>2
<1> QED
    BY <1>1, <1>3, <1>4, <1>5, <1>6 DEF CapHolds, Totals, CacheConstants

(* A write begins where there is room for it, with what was evicted gone.  *)
LEMMA BeginFits ==
    ASSUME IInv, Totals, Totals',
           NEW id \in Tracks, NEW n \in Chunks, NEW w \in Writers, FetchKeeps(id, n, w)
    PROVE  CapHolds'
<1> DEFINE format == flights[id][n].format
           length == Length[format][n]
           gone == Evicted(length)
           new == [id |-> id, format |-> format, n |-> n, stage |-> "opening",
                   linked |-> FALSE, current |-> TRUE, shared |-> TRUE]
<1>1. /\ Asking(id, n) /\ writes[w] = None
      /\ Fits(length, gone) /\ Forget(gone)
      /\ writes' = [WritesAfter(gone) EXCEPT ![w] = new]
    BY DEF FetchKeeps
<1>2. format \in Formats /\ length \in Nat
  <2>1. format \in Formats
      BY <1>1, FlightIs DEF Asking, Flies, IInv
  <2> QED
      BY <2>1, LengthIs
<1>3. new \in Write /\ new.format = format /\ new.n = n
    BY <1>2 DEF Write
<1>4. gone \subseteq Tracks
    BY EvictedMay
<1> HIDE DEF format, length, gone, new
<1>5. /\ \A i \in gone : HeldBy'[i] = 0
      /\ \A i \in Tracks \ gone : HeldBy'[i] = HeldBy[i]
  <2>1. \A i \in Tracks : rows'[i] = IF i \in gone THEN None ELSE rows[i]
      BY <1>1, ForgetIs DEF IInv
  <2> QED
      BY <1>4, <2>1 DEF HeldBy, RowBytes, Held
<1>6. HeldBytes(Tracks)' = HeldBytes(Tracks \ gone)
  <2>1. \A i \in Tracks : HeldBy'[i] \in Int
      BY DEF Totals
  <2>2. SumFunctionOnSet(HeldBy', Tracks) = SumFunctionOnSet(HeldBy', Tracks \ gone)
      BY <1>4, <1>5, <2>1, CacheIsFinite, SumOfRest
  <2>3. IsFiniteSet(Tracks \ gone)
      BY CacheIsFinite, FS_Subset
  <2>4. SumFunctionOnSet(HeldBy', Tracks \ gone) = SumFunctionOnSet(HeldBy, Tracks \ gone)
      BY <1>5, <2>3, SumOfSame
  <2> QED
      BY <2>2, <2>4 DEF Totals, HeldBytes, HeldBy
<1>7. /\ WrittenBy[w] = 0 /\ WrittenBy'[w] = length
      /\ \A v \in Writers \ {w} : WrittenBy[v] = WrittenBy'[v]
  <2>1. /\ writes'[w] = new
        /\ \A v \in Writers \ {w} : writes'[v] = WritesAfter(gone)[v]
      BY <1>1, WritesAfterIs DEF IInv
  <2>2. new # None
      BY <1>3
  <2>3. WriteBytes(new) = length
      BY <1>3, <2>2 DEF WriteBytes, length
  <2>4. ASSUME NEW v \in Writers
        PROVE  WriteBytes(WritesAfter(gone)[v]) = WriteBytes(writes[v])
    <3>1. CASE writes[v] = None
        BY <3>1, WritesAfterIs DEF IInv
    <3>2. CASE writes[v] # None
        BY <3>2, WritesAfterIs DEF IInv, WriteAfter, WriteBytes
    <3> QED
        BY <3>1, <3>2
  <2> QED
      BY <1>1, <2>1, <2>3, <2>4 DEF WrittenBy, WriteBytes
<1>8. WritingBytes' = WritingBytes + length
  <2>1. \A v \in Writers : WrittenBy[v] \in Int /\ WrittenBy'[v] \in Int
      BY DEF Totals
  <2>2. SumFunctionOnSet(WrittenBy', Writers)
            = SumFunctionOnSet(WrittenBy, Writers) + (WrittenBy'[w] - WrittenBy[w])
      BY <1>7, <2>1, CacheIsFinite, SumOfChange
  <2> QED
      BY <1>2, <1>7, <2>2 DEF Totals
<1> QED
    BY <1>1, <1>2, <1>6, <1>8 DEF CapHolds, Fits, Totals

(* Every step keeps within the cap.                                        *)
LEMMA StepFits ==
    ASSUME IInv, BytesAreCounted, CapHolds, IInv', BytesAreCounted', ReadsTell, [Next]_vars
    PROVE  CapHolds'
<1>1. Totals /\ Totals'
  <2>1. (TypeOK /\ BytesAreCounted => Totals)'
      BY TotalsAreNat, PTL
  <2> QED
      BY <2>1, TotalsAreNat DEF IInv
<1>2. RowsFall \/ \E w \in Writers : Lands(w)
    BY StepCounts
<1>3. ASSUME NEW id \in Tracks, NEW n \in Chunks, NEW w \in Writers, FetchKeeps(id, n, w)
      PROVE  CapHolds'
    BY <1>1, <1>3, BeginFits
<1>4. ASSUME NEW w \in Writers, Lands(w)
      PROVE  CapHolds'
    BY <1>1, <1>4, LandsFits
<1>5. ASSUME RowsFall, WritesGo
      PROVE  CapHolds'
    BY <1>1, <1>5, LighterFits DEF IInv
<1> QED
    BY <1>2, <1>3, <1>4, <1>5, StepWrites

(* `bytes` counts the chunks whose bits are set, while no read that goes   *)
(* on without its client is of a chunk of another length.                  *)
THEOREM CountsAgree == Spec /\ []ReadsTell => []BytesAreCounted
<1>1. Init => BytesAreCounted
    BY DEF Init, BytesAreCounted, Held
<1>2. IInv /\ ReadsTell /\ BytesAreCounted /\ [Next]_vars => BytesAreCounted'
    BY StepCounts
<1> QED
    BY <1>1, <1>2, Invariant, PTL DEF Spec

(* The bytes held and those being written never pass the cap.              *)
THEOREM CapIsKept == Spec /\ []ReadsTell => []CapHolds
<1>1. Init => CapHolds
  <2> SUFFICES ASSUME Init PROVE CapHolds
      OBVIOUS
  <2>1. /\ \A id \in Tracks : HeldBy[id] = 0
        /\ \A w \in Writers : WrittenBy[w] = 0
      BY DEF Init, HeldBy, WrittenBy, RowBytes, WriteBytes, Held
  <2>2. /\ SumFunctionOnSet(HeldBy, Tracks) = SumFunctionOnSet(HeldBy, Tracks \ Tracks)
        /\ SumFunctionOnSet(WrittenBy, Writers) = SumFunctionOnSet(WrittenBy, Writers \ Writers)
      BY <2>1, CacheIsFinite, SumOfRest
  <2>3. Tracks \ Tracks = {} /\ Writers \ Writers = {}
      OBVIOUS
  <2>4. HeldBytes(Tracks) = 0 /\ WritingBytes = 0
      BY <2>2, <2>3, SumOfNone DEF HeldBytes, WritingBytes, HeldBy, WrittenBy
  <2> QED
      BY <2>4 DEF CapHolds, CacheConstants
<1>2. IInv /\ IInv' /\ ReadsTell /\ BytesAreCounted /\ BytesAreCounted' /\ CapHolds /\ [Next]_vars
      => CapHolds'
    BY StepFits
<1> QED
    BY <1>1, <1>2, Invariant, CountsAgree, PTL DEF Spec

(* Formats of one size.                                                    *)
SameLengths == \A f, g \in Formats, n \in Chunks : Length[f][n] = Length[g][n]

(* So it is when the formats of a track are of one size.                   *)
THEOREM CapIsKeptOfOneSize ==
    ASSUME SameLengths
    PROVE  Spec => [](BytesAreCounted /\ CapHolds)
<1>1. IInv => ReadsTell
  <2> SUFFICES ASSUME IInv, NEW c \in Clients, clients[c] # None,
                      clients[c].pc = "leftReading", Held(clients[c].id)
               PROVE  Length[clients[c].format][clients[c].n]
                          = Length[rows[clients[c].id].format][clients[c].n]
      BY DEF ReadsTell
  <2>1. clients[c].id \in Tracks /\ clients[c].n \in Chunks /\ clients[c].format \in Formats
      BY ClientIs DEF IInv, NamingPcs
  <2>2. rows[clients[c].id].format \in Formats
      BY <2>1, RowIs DEF IInv
  <2> QED
      BY <2>1, <2>2 DEF SameLengths
<1> QED
    BY <1>1, Invariant, CountsAgree, CapIsKept, PTL
===============================================================================
