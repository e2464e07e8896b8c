--------------------------- MODULE RegistryProofs ---------------------------
(***************************************************************************)
(* Proofs about Registry, for every set of decoders, libraries and         *)
(* sessions and every number of instances.                                 *)
(*                                                                         *)
(* Type correctness, and UnstackedReleased, hold whatever the client does. *)
(* The stacks of the sessions are trees without shared parts (Forest) for  *)
(* clients that put only instances of a session's list on others and build *)
(* no circle (StacksAnywhere = FALSE), and OneFeed and UniqueFound follow. *)
(* That no freed instance is used and no closed library called             *)
(* (SafeMemory, StacksUsable) holds for those of them that unload decoders *)
(* only while there are no instances.                                      *)
(*                                                                         *)
(* What is stacked on an instance, however deep, is the smallest set       *)
(* closed under next_di, so the proofs bound Tree(s) by exhibiting a       *)
(* closed set (TreeWithin), never by induction on the depth of a stack.    *)
(***************************************************************************)
EXTENDS Registry, TLAPS, FiniteSetTheorems, FunctionTheorems,
        WellFoundedInduction

-----------------------------------------------------------------------------
(* Numbers: the smallest free instance ID exists.                          *)

\* A nonempty set of natural numbers has a least element.
LEMMA LeastElement ==
    ASSUME NEW S \in SUBSET Nat, S # {}
    PROVE  \E k \in S : \A m \in S : k <= m
<1>1. \E x \in S : \A y \in S : ~ (<<y, x>> \in OpToRel(<, Nat))
  BY NatLessThanWellFounded, WFMin
<1>2. PICK x \in S : \A y \in S : ~ (<<y, x>> \in OpToRel(<, Nat))
  BY <1>1
<1>3. ASSUME NEW m \in S PROVE x <= m
  <2>1. m < x => <<m, x>> \in OpToRel(<, Nat)
    BY DEF OpToRel
  <2>2. ~ (m < x)
    BY <2>1, <1>2, Zenon
  <2>3. QED
    BY <2>2, SMT
<1>4. QED
  BY <1>3

\* srd_inst_new can always number an instance: among one number more than there
\* are instances one is free, hence a first one.
LEMMA FirstFree ==
    ASSUME NEW n \in Nat, NEW K \in SUBSET (1 .. n), NEW f \in [K -> Int]
    PROVE  \E k \in 1 .. n + 1 :
               /\ k \notin {f[j] : j \in K}
               /\ \A m \in 1 .. k - 1 : m \in {f[j] : j \in K}
<1> DEFINE taken == {f[j] : j \in K}
           free == (1 .. n + 1) \ taken
<1>1. free # {}
  <2> SUFFICES ASSUME 1 .. n + 1 \subseteq taken PROVE FALSE
    OBVIOUS
  <2> DEFINE L == {j \in K : f[j] \in 1 .. n + 1}
             g == [j \in L |-> f[j]]
  <2>1. IsFiniteSet(1 .. n) /\ Cardinality(1 .. n) = n
    BY FS_Interval, SMT
  <2>2. IsFiniteSet(L) /\ Cardinality(L) <= n
    <3>1. L \in SUBSET (1 .. n)
      OBVIOUS
    <3> HIDE DEF L
    <3>2. IsFiniteSet(L) /\ Cardinality(L) <= Cardinality(1 .. n)
      BY ONLY <2>1, <3>1, FS_Subset
    <3>3. QED
      BY <3>2, <2>1
  <2>3. g \in Surjection(L, 1 .. n + 1)
    <3>1. g \in [L -> 1 .. n + 1]
      OBVIOUS
    <3>2. ASSUME NEW t \in 1 .. n + 1 PROVE \E s \in L : g[s] = t
      OBVIOUS
    <3>3. QED
      BY <3>1, <3>2 DEF Surjection
  <2> HIDE DEF g, L
  <2>4. Cardinality(1 .. n + 1) <= Cardinality(L)
    BY ONLY <2>2, <2>3, FS_Surjection
  <2>5. Cardinality(1 .. n + 1) = n + 1
    <3>1. n + 1 \in Int /\ ~ (1 > n + 1) /\ (n + 1) - 1 + 1 = n + 1
      BY SMT
    <3>2. 1 \in Int
      BY SMT
    <3>3. Cardinality(1 .. n + 1) =
              IF 1 > n + 1 THEN 0 ELSE (n + 1) - 1 + 1
      BY ONLY <3>1, <3>2, FS_Interval, Zenon
    <3>4. QED
      BY ONLY <3>1, <3>3
  <2>6. Cardinality(L) \in Nat
    BY <2>2, FS_CardinalityType
  <2>7. QED
    BY ONLY <2>2, <2>4, <2>5, <2>6, n \in Nat, SMT
<1>2. PICK k \in free : \A m \in free : k <= m
  <2>1. free \in SUBSET Nat
    BY SMT
  <2> HIDE DEF free
  <2>2. QED
    BY <1>1, <2>1, LeastElement
<1>3. QED
  BY <1>2, SMT

-----------------------------------------------------------------------------
(* The inductive invariant.                                                *)

\* No instance is listed twice: not in two sessions, not on top of two
\* instances nor twice on one, not in a session and on top of an instance.
Forest ==
    /\ twice = {}
    /\ \A r, s \in Sessions : \A i \in Insts :
          i \in di_list[r] /\ i \in di_list[s] => r = s
    /\ \A j, k \in Insts : \A i \in Insts :
          i \in next_di[j] /\ i \in next_di[k] => j = k
    /\ \A s \in Sessions : \A j, i \in Insts :
          ~ (i \in di_list[s] /\ i \in next_di[j])

\* Lists hold only instances that were made, and only lists of sessions do.
OnlyMade ==
    /\ \A s \in Sessions : \A i \in di_list[s] : i <= made
    /\ \A j \in Insts : \A i \in next_di[j] : i <= made /\ j <= made
    /\ \A s \in Sessions \ sessions : di_list[s] = {}

\* Listed C decoders have their library open, and srd_exit leaves no session
\* after its first and no decoder after its second step.
Shutdown ==
    /\ pd_list \cap Closed = {}
    /\ exiting # "no" => sessions = {}
    /\ exiting = "libraries" => pd_list = {}

Structure == TypeOK /\ OnlyMade /\ Shutdown

-----------------------------------------------------------------------------
(* Stacks.                                                                 *)

\* Everything that holds a session's list and is closed under stacking holds
\* the session's stacks.
LEMMA TreeWithin ==
    ASSUME NEW s, NEW C \in SUBSET Insts, di_list[s] \subseteq C,
           ClosedUnderStack(C)
    PROVE  Tree(s) \subseteq C
  BY DEF Tree, StackedOn

\* A session's stacks hold its list and are closed under stacking.
LEMMA TreeClosed ==
    ASSUME TypeOK, NEW s \in Sessions
    PROVE  /\ Tree(s) \subseteq Insts
           /\ di_list[s] \subseteq Tree(s)
           /\ ClosedUnderStack(Tree(s))
<1>1. Tree(s) \subseteq Insts
  BY DEF Tree, StackedOn
<1>2. di_list[s] \subseteq Tree(s)
  BY DEF Tree, StackedOn, TypeOK
<1>3. ASSUME NEW j \in Tree(s), NEW i \in next_di[j] PROVE i \in Tree(s)
  BY <1>1, <1>3 DEF Tree, StackedOn, ClosedUnderStack, TypeOK
<1>4. QED
  BY <1>1, <1>2, <1>3 DEF ClosedUnderStack

\* A session without instances has no stacks.
LEMMA TreeEmpty ==
    ASSUME TypeOK, NEW s \in Sessions, di_list[s] = {}
    PROVE  Tree(s) = {}
  BY TreeWithin DEF ClosedUnderStack

\* Only instances that were made are in the stacks of a session.
LEMMA TreeMade ==
    ASSUME TypeOK, OnlyMade, NEW s \in Sessions
    PROVE  Tree(s) \subseteq 1 .. made
<1>1. 1 .. made \in SUBSET Insts
  BY RegistryAssumption, SMT DEF TypeOK, Insts
<1>2. di_list[s] \subseteq 1 .. made
  BY RegistryAssumption, SMT DEF TypeOK, OnlyMade, Insts
<1>3. ClosedUnderStack(1 .. made)
  BY RegistryAssumption, SMT DEF TypeOK, OnlyMade, Insts, ClosedUnderStack
<1>4. QED
  BY <1>1, <1>2, <1>3, TreeWithin

\* The stacks of one session hold no instance of another session's list.
LEMMA TreesApart ==
    ASSUME TypeOK, Forest, NEW r \in Sessions, NEW s \in Sessions, r # s
    PROVE  Tree(s) \cap di_list[r] = {}
<1>1. di_list[s] \subseteq Insts \ di_list[r]
  BY DEF TypeOK, Forest
<1>2. ClosedUnderStack(Insts \ di_list[r])
  BY DEF TypeOK, Forest, ClosedUnderStack
<1>3. QED
  BY <1>1, <1>2, TreeWithin

\* srd_inst_new: the number it chooses is one that no instance has where
\* srd_inst_find_by_id looks.
LEMMA NewNumber ==
    ASSUME TypeOK, OnlyMade, made + 1 \in Insts, NEW s \in Sessions,
           NEW d \in Decoders
    PROVE  /\ FirstFreeId(s, d) \in Ids
           /\ \A j \in Searched(s) : inst_id[j] # FirstFreeId(s, d)
<1> DEFINE taken == {inst_id[j] : j \in Searched(s)}
           K == {j \in Searched(s) : \E k \in Nat : inst_id[j] = <<d, k>>}
           f == [j \in K |-> inst_id[j][2]]
           Free(k) == <<d, k>> \notin taken /\ \A m \in 1 .. k - 1 : <<d, m>> \in taken
<1>1. made \in Nat
  BY DEF TypeOK
<1>2. K \in SUBSET (1 .. made)
  BY RegistryAssumption, SMT DEF TypeOK, OnlyMade, Searched, Insts
<1>3. f \in [K -> Int]
  <2>1. ASSUME NEW j \in K PROVE inst_id[j][2] \in Int
    <3>1. PICK k \in Nat : inst_id[j] = <<d, k>>
      OBVIOUS
    <3>2. QED
      BY <3>1
  <2> HIDE DEF K
  <2>2. QED
    BY <2>1
<1>4. ASSUME NEW k \in Nat
      PROVE  <<d, k>> \in taken <=> k \in {f[j] : j \in K}
  <2>1. ASSUME NEW j \in Searched(s), inst_id[j] = <<d, k>> PROVE j \in K /\ f[j] = k
    BY <2>1
  <2>2. ASSUME NEW j \in K, f[j] = k PROVE inst_id[j] = <<d, k>>
    <3>1. PICK m \in Nat : inst_id[j] = <<d, m>>
      OBVIOUS
    <3>2. QED
      BY <2>2, <3>1
  <2>3. K \subseteq Searched(s)
    OBVIOUS
  <2> HIDE DEF f, K
  <2>4. QED
    BY <2>1, <2>2, <2>3
<1>5. \E k \in 1 .. made + 1 : /\ k \notin {f[j] : j \in K}
                               /\ \A m \in 1 .. k - 1 : m \in {f[j] : j \in K}
  <2> HIDE DEF f, K
  <2>1. QED
    BY <1>1, <1>2, <1>3, FirstFree
<1>6. \E k \in Insts : Free(k)
  <2> HIDE DEF f, K, taken
  <2>1. PICK k \in 1 .. made + 1 : /\ k \notin {f[j] : j \in K}
                                   /\ \A m \in 1 .. k - 1 : m \in {f[j] : j \in K}
    BY <1>5
  <2>2. k \in Nat /\ k \in Insts /\ \A m \in 1 .. k - 1 : m \in Nat
    BY <1>1, RegistryAssumption, SMT DEF Insts
  <2>3. QED
    BY <1>4, <2>1, <2>2
<1>7. FirstFreeId(s, d) = <<d, CHOOSE k \in Insts : Free(k)>>
  BY DEF FirstFreeId
<1> DEFINE n == CHOOSE k \in Insts : Free(k)
<1> HIDE DEF taken, Free
<1>8. n \in Insts /\ Free(n)
  BY <1>6
<1> HIDE DEF n
<1>9. FirstFreeId(s, d) \in Ids
  BY <1>7, <1>8, RegistryAssumption, SMT DEF Ids, Insts, n
<1>10. FirstFreeId(s, d) \notin taken
  BY <1>7, <1>8 DEF n, Free
<1>11. QED
  BY <1>9, <1>10 DEF taken

-----------------------------------------------------------------------------
(* The structure, whatever the client does.                                *)

\* The lists are empty before srd_init.
LEMMA StructureInit == Init => Structure
<1> SUFFICES ASSUME Init PROVE Structure
  OBVIOUS
<1>1. TypeOK
  <2>1. 0 \in 0 .. MaxInsts
    BY RegistryAssumption, SMT
  <2>2. QED
    BY <2>1 DEF Init, TypeOK
<1>2. OnlyMade
  BY DEF Init, OnlyMade
<1>3. Shutdown
  BY DEF Init, Shutdown
<1>4. QED
  BY <1>1, <1>2, <1>3 DEF Structure

\* Every call keeps the lists within their types.
LEMMA TypeStep == Structure /\ [Next]_vars => TypeOK'
<1> SUFFICES ASSUME Structure, [Next]_vars PROVE TypeOK'
  OBVIOUS
<1> USE RegistryAssumption DEF Structure, TypeOK, instances
<1>1. CASE SrdInit
  BY <1>1 DEF SrdInit
<1>2. CASE ExitSessions
  BY <1>2 DEF ExitSessions, Destroy, FreeAll
<1>3. CASE ExitDecoders
  BY <1>3 DEF ExitDecoders, UnloadEach
<1>4. CASE ExitLibraries
  BY <1>4 DEF ExitLibraries
<1>5. ASSUME NEW d \in PyDecoders, Load(d) PROVE TypeOK'
  BY <1>5 DEF Load, Decoders
<1>6. ASSUME NEW d \in CDecoders, CLoad(d) PROVE TypeOK'
  BY <1>6 DEF CLoad, Register, Decoders
<1>7. ASSUME NEW d \in CDecoders, CUnload(d) PROVE TypeOK'
  BY <1>7 DEF CUnload
<1>8. ASSUME NEW d \in Decoders, Unload(d) PROVE TypeOK'
  BY <1>8 DEF Unload, FreeAll
<1>9. CASE UnloadAll
  BY <1>9 DEF UnloadAll, UnloadEach
<1>10. ASSUME NEW s \in Sessions, SessionNew(s) PROVE TypeOK'
  BY <1>10 DEF SessionNew
<1>11. ASSUME NEW s \in Sessions, SessionDestroy(s) PROVE TypeOK'
  BY <1>11 DEF SessionDestroy, Destroy, FreeAll
<1>12. ASSUME NEW s \in Sessions, NEW d \in Decoders,
              NEW id \in GivenIds \cup {NoId}, InstNew(s, d, id)
       PROVE  TypeOK'
  <2>1. made + 1 \in Insts /\ made' = made + 1 /\ made' \in 0 .. MaxInsts
    BY <1>12, SMT DEF InstNew, Insts
  <2>2. FirstFreeId(s, d) \in Ids
    BY <2>1, NewNumber
  <2>3. inst_id' \in [Insts -> Ids \cup {NoId}]
    BY <1>12, <2>2 DEF InstNew
  <2>4. live' \subseteq 1 .. made'
    BY <1>12, <2>1, SMT DEF InstNew
  <2>5. given' \subseteq Insts
    BY <1>12, <2>1 DEF InstNew
  <2>6. QED
    BY <1>12, <2>1, <2>3, <2>4, <2>5 DEF InstNew
<1>13. ASSUME NEW s \in Sessions, NEW bottom \in Insts, NEW top \in Insts,
              Stack(s, bottom, top)
       PROVE  TypeOK'
  BY <1>13 DEF Stack
<1>14. CASE UNCHANGED vars
  BY <1>14 DEF vars
<1>15. QED
  BY <1>1, <1>2, <1>3, <1>4, <1>5, <1>6, <1>7, <1>8, <1>9, <1>10, <1>11,
     <1>12, <1>13, <1>14 DEF Next

\* A new instance gets a number that no list has seen.
LEMMA OnlyMadeStep == Structure /\ [Next]_vars => OnlyMade'
<1> SUFFICES ASSUME Structure, [Next]_vars PROVE OnlyMade'
  OBVIOUS
<1> USE DEF Structure, OnlyMade, instances
<1>1. CASE UNCHANGED <<di_list, next_di, made, sessions>>
  BY <1>1
<1>2. ASSUME NEW which, Destroy(which), UNCHANGED <<next_di, made>>
      PROVE  OnlyMade'
  BY <1>2 DEF Destroy, TypeOK
<1>3. CASE ExitSessions
  BY <1>2, <1>3 DEF ExitSessions
<1>4. ASSUME NEW s \in Sessions, SessionDestroy(s) PROVE OnlyMade'
  BY <1>2, <1>4 DEF SessionDestroy
<1>5. ASSUME NEW s \in Sessions, SessionNew(s) PROVE OnlyMade'
  BY <1>5 DEF SessionNew
<1>6. ASSUME NEW s \in Sessions, NEW d \in Decoders,
              NEW id \in GivenIds \cup {NoId}, InstNew(s, d, id)
      PROVE  OnlyMade'
  <2>1. /\ \A r \in Sessions : \A i \in di_list'[r] :
              i \in di_list[r] \/ (r = s /\ i = made + 1)
        /\ next_di' = next_di /\ made' = made + 1
        /\ s \in sessions /\ sessions' = sessions
    BY <1>6 DEF InstNew, TypeOK
  <2>2. /\ made \in Int
        /\ \A r \in Sessions : di_list[r] \subseteq Int
        /\ \A j \in Insts : next_di[j] \subseteq Int /\ j \in Int
    BY RegistryAssumption, SMT DEF TypeOK, Insts
  <2>3. \A r \in Sessions : \A i \in di_list'[r] : i <= made'
    BY <2>1, <2>2, SMT
  <2>4. \A j \in Insts : \A i \in next_di'[j] : i <= made' /\ j <= made'
    BY <2>1, <2>2, SMT
  <2>5. \A r \in Sessions \ sessions' : di_list'[r] = {}
    BY <2>1
  <2>6. QED
    BY <2>3, <2>4, <2>5
<1>7. ASSUME NEW s \in Sessions, NEW bottom \in Insts, NEW top \in Insts,
             Stack(s, bottom, top)
      PROVE  OnlyMade'
  <2>1. /\ \A r \in Sessions, i \in Insts : i \in di_list'[r] => i \in di_list[r]
        /\ \A j, i \in Insts :
              i \in next_di'[j] => i \in next_di[j] \/ (j = bottom /\ i = top)
        /\ made' = made /\ sessions' = sessions
        /\ \A r \in Sessions : di_list'[r] \subseteq Insts
        /\ \A j \in Insts : next_di'[j] \subseteq Insts
    BY <1>7 DEF Stack, TypeOK
  <2>2. bottom <= made /\ top <= made
    <3>1. CASE top \in di_list[s] /\ bottom \in Tree(s)
      BY <3>1, TreeMade, SMT DEF TypeOK
    <3>2. CASE {bottom, top} \subseteq live
      <4>1. bottom \in 1 .. made /\ top \in 1 .. made
        BY <3>2 DEF TypeOK
      <4>2. QED
        BY <4>1, SMT DEF TypeOK
    <3>3. QED
      BY <1>7, <3>1, <3>2 DEF Stack, MayStack
  <2>3. QED
    BY <2>1, <2>2
<1>8. QED
  BY <1>1, <1>3, <1>4, <1>5, <1>6, <1>7
     DEF Next, vars, SrdInit, ExitDecoders, ExitLibraries, Load, CLoad, CUnload,
         Unload, UnloadAll

\* srd_exit destroys sessions before decoders and decoders before libraries,
\* and a library is closed only after its decoder has left the list.
LEMMA ShutdownStep == Structure /\ [Next]_vars => Shutdown'
<1> SUFFICES ASSUME Structure, [Next]_vars PROVE Shutdown'
  OBVIOUS
<1> USE RegistryAssumption DEF Structure, Shutdown, Closed, MayCall, instances
<1>1. CASE SrdInit
  BY <1>1 DEF SrdInit
<1>2. CASE ExitSessions
  BY <1>2 DEF ExitSessions, Destroy
<1>3. CASE ExitDecoders
  BY <1>3 DEF ExitDecoders, UnloadEach
<1>4. CASE ExitLibraries
  BY <1>4 DEF ExitLibraries
<1>5. ASSUME NEW d \in PyDecoders, Load(d) PROVE Shutdown'
  BY <1>5 DEF Load
<1>6. ASSUME NEW d \in CDecoders, CLoad(d) PROVE Shutdown'
  BY <1>6 DEF CLoad, Register, TypeOK
<1>7. ASSUME NEW d \in CDecoders, CUnload(d) PROVE Shutdown'
  BY <1>7 DEF CUnload, TypeOK
<1>8. ASSUME NEW d \in Decoders, Unload(d) PROVE Shutdown'
  BY <1>8 DEF Unload
<1>9. CASE UnloadAll
  BY <1>9 DEF UnloadAll, UnloadEach
<1>10. ASSUME NEW s \in Sessions, SessionNew(s) PROVE Shutdown'
  BY <1>10 DEF SessionNew
<1>11. ASSUME NEW s \in Sessions, SessionDestroy(s) PROVE Shutdown'
  BY <1>11 DEF SessionDestroy, Destroy
<1>12. ASSUME NEW s \in Sessions, NEW d \in Decoders,
              NEW id \in GivenIds \cup {NoId}, InstNew(s, d, id)
       PROVE  Shutdown'
  BY <1>12 DEF InstNew
<1>13. ASSUME NEW s \in Sessions, NEW bottom \in Insts, NEW top \in Insts,
              Stack(s, bottom, top)
       PROVE  Shutdown'
  BY <1>13 DEF Stack
<1>14. CASE UNCHANGED vars
  BY <1>14 DEF vars
<1>15. QED
  BY <1>1, <1>2, <1>3, <1>4, <1>5, <1>6, <1>7, <1>8, <1>9, <1>10, <1>11,
     <1>12, <1>13, <1>14 DEF Next

\* The lists hold made instances of sessions only, and listed C decoders are
\* open, for every client: one that unloads decoders in use, that stacks what is
\* stacked already, or that gives instances equal IDs.
THEOREM StructureInvariant == Spec => []Structure
<1>1. Structure /\ [Next]_vars => Structure'
  BY TypeStep, OnlyMadeStep, ShutdownStep DEF Structure
<1>2. QED
  BY StructureInit, <1>1, PTL DEF Spec

\* All lists stay within their types.
THEOREM TypeCorrect == Spec => []TypeOK
<1>1. Structure => TypeOK
  BY DEF Structure
<1>2. QED
  BY StructureInvariant, <1>1, PTL

-----------------------------------------------------------------------------
(* One feed, found numbers, released instances.                            *)

\* An instance is put into a list only when it is new, or moved there.
LEMMA ForestStep ==
    ASSUME StacksAnywhere = FALSE, Structure, Forest, [Next]_vars
    PROVE  Forest'
<1> USE DEF Structure, Forest, instances
<1>1. CASE UNCHANGED <<di_list, next_di, twice>>
  BY <1>1
<1>2. ASSUME NEW which, Destroy(which), UNCHANGED <<next_di, twice>>
      PROVE  Forest'
  BY <1>2 DEF Destroy, TypeOK
<1>3. CASE ExitSessions
  BY <1>2, <1>3 DEF ExitSessions
<1>4. ASSUME NEW s \in Sessions, SessionDestroy(s) PROVE Forest'
  BY <1>2, <1>4 DEF SessionDestroy
<1>5. ASSUME NEW s \in Sessions, NEW d \in Decoders,
              NEW id \in GivenIds \cup {NoId}, InstNew(s, d, id)
      PROVE  Forest'
  <2>1. \A r \in Sessions, j \in Insts :
            made + 1 \notin di_list[r] /\ made + 1 \notin next_di[j]
    BY RegistryAssumption, SMT DEF OnlyMade, TypeOK, Insts
  <2>2. /\ \A r \in Sessions, i \in Insts :
              i \in di_list'[r] => i \in di_list[r] \/ (r = s /\ i = made + 1)
        /\ next_di' = next_di /\ twice' = {}
    BY <1>5 DEF InstNew, TypeOK
  <2>3. \A r, q \in Sessions : \A i \in Insts :
            i \in di_list'[r] /\ i \in di_list'[q] => r = q
    BY <2>1, <2>2
  <2>4. \A r \in Sessions : \A j, i \in Insts :
            ~ (i \in di_list'[r] /\ i \in next_di'[j])
    BY <2>1, <2>2
  <2>5. QED
    BY <2>2, <2>3, <2>4
<1>6. ASSUME NEW s \in Sessions, NEW bottom \in Insts, NEW top \in Insts,
             Stack(s, bottom, top)
      PROVE  Forest'
  <2>1. /\ top \in di_list[s] /\ twice' = {}
        /\ \A r \in Sessions, i \in Insts :
              i \in di_list'[r] => i \in di_list[r] /\ ~ (r = s /\ i = top)
        /\ \A j, i \in Insts :
              i \in next_di'[j] => i \in next_di[j] \/ (j = bottom /\ i = top)
    BY <1>6 DEF Stack, MayStack, TypeOK
  <2>2. \A r, q \in Sessions : \A i \in Insts :
            i \in di_list'[r] /\ i \in di_list'[q] => r = q
    BY <2>1
  <2>3. \A j, k \in Insts : \A i \in Insts :
            i \in next_di'[j] /\ i \in next_di'[k] => j = k
    BY <2>1
  <2>4. \A r \in Sessions : \A j, i \in Insts :
            ~ (i \in di_list'[r] /\ i \in next_di'[j])
    BY <2>1
  <2>5. QED
    BY <2>1, <2>2, <2>3, <2>4
<1>7. QED
  BY <1>1, <1>3, <1>4, <1>5, <1>6
     DEF Next, vars, SrdInit, ExitDecoders, ExitLibraries, Load, CLoad, CUnload,
         Unload, UnloadAll, SessionNew

\* The stacks of the sessions are trees without shared parts, for clients that
\* put only unstacked instances on others and build no circle.
LEMMA ForestInvariant ==
    ASSUME StacksAnywhere = FALSE
    PROVE  Spec => []Forest
<1>1. Init => Forest
  BY DEF Init, Forest
<1>2. Structure /\ Forest /\ [Next]_vars => Forest'
  BY ForestStep
<1>3. QED
  BY StructureInvariant, <1>1, <1>2, PTL DEF Spec

\* A set with at most one element has at most one element by count.
LEMMA AtMostOne ==
    ASSUME NEW S, \A x, y \in S : x = y
    PROVE  Cardinality(S) \in {0, 1} /\ (Cardinality(S) = 1 => S # {})
<1>1. CASE S = {}
  BY <1>1, FS_EmptySet
<1>2. ASSUME NEW x \in S PROVE S = {x}
  OBVIOUS
<1>3. QED
  BY <1>1, <1>2, FS_Singleton

\* An instance is fed by the frontend or by one instance below it, and belongs
\* to one session, and is fed once, for clients that put only unstacked instances
\* on others and build no circle, for every number of instances.
THEOREM OneFeedInvariant ==
    ASSUME StacksAnywhere = FALSE
    PROVE  Spec => []OneFeed
<1>1. Structure /\ Forest => OneFeed
  <2> SUFFICES ASSUME Structure, Forest, NEW i \in live
               PROVE  Cardinality({s \in sessions : i \in di_list[s]})
                        + Cardinality({j \in live : i \in next_di[j]}) <= 1
    BY DEF OneFeed, Forest
  <2> DEFINE S == {s \in sessions : i \in di_list[s]}
             J == {j \in live : i \in next_di[j]}
  <2>1. live \subseteq Insts /\ sessions \subseteq Sessions
    BY RegistryAssumption, SMT DEF Structure, TypeOK, Insts
  <2>2. /\ \A x, y \in S : x = y
        /\ \A x, y \in J : x = y
        /\ ~ (S # {} /\ J # {})
    BY <2>1 DEF Structure, Forest
  <2> HIDE DEF S, J
  <2>3. /\ Cardinality(S) \in {0, 1} /\ (Cardinality(S) = 1 => S # {})
        /\ Cardinality(J) \in {0, 1} /\ (Cardinality(J) = 1 => J # {})
    BY <2>2, AtMostOne
  <2>4. Cardinality(S) + Cardinality(J) <= 1
    BY <2>2, <2>3, SMT
  <2>5. QED
    BY <2>4 DEF S, J
<1>2. QED
  BY StructureInvariant, ForestInvariant, <1>1, PTL

\* Only made instances are searched.
LEMMA SearchedMade ==
    ASSUME Structure, NEW s \in Sessions
    PROVE  Searched(s) \subseteq Insts /\ made + 1 \notin Searched(s)
  BY RegistryAssumption, SMT DEF Structure, TypeOK, OnlyMade, Searched, Insts

\* Of two instances one is the older.
LEMMA OlderFirst == \A x, y \in Insts : x < y => ~ (y < x) /\ x # y
  BY RegistryAssumption, SMT DEF Insts

\* A call keeps found numbers unique.
LEMMA UniqueFoundStep ==
    ASSUME StacksAnywhere = FALSE, Structure, Forest, UniqueFound, [Next]_vars
    PROVE  UniqueFound'
<1> USE DEF instances
<1>1. ASSUME UNCHANGED <<given, inst_id>>, sessions' \subseteq Sessions,
             \A s \in sessions' : \/ Searched(s)' = {}
                                  \/ s \in sessions /\ Searched(s)' \subseteq Searched(s)
      PROVE  UniqueFound'
  BY <1>1 DEF UniqueFound, UniqueIn
<1>2. sessions \subseteq Sessions /\ sessions' \subseteq Sessions
  BY TypeStep DEF Structure, TypeOK
<1>3. CASE UNCHANGED <<given, inst_id, di_list, next_di, sessions>>
  BY <1>1, <1>2, <1>3 DEF Searched
<1>4. ASSUME NEW which, Destroy(which), UNCHANGED <<given, inst_id, next_di>>
      PROVE  UniqueFound'
  <2>1. ASSUME NEW s \in sessions' PROVE s \in sessions /\ Searched(s)' = Searched(s)
    BY <1>2, <1>4, <2>1 DEF Destroy, Searched
  <2>2. QED
    BY <1>1, <1>2, <1>4, <2>1
<1>5. CASE ExitSessions
  BY <1>4, <1>5 DEF ExitSessions
<1>6. ASSUME NEW s \in Sessions, SessionDestroy(s) PROVE UniqueFound'
  BY <1>4, <1>6 DEF SessionDestroy
<1>7. ASSUME NEW s \in Sessions, SessionNew(s) PROVE UniqueFound'
  <2>1. UNCHANGED <<given, inst_id, di_list, next_di>> /\ sessions' = sessions \cup {s}
    BY <1>7 DEF SessionNew
  <2>2. Searched(s)' = {}
    BY <1>7, <2>1 DEF SessionNew, Searched, Structure, OnlyMade
  <2>3. \A r \in sessions : Searched(r)' = Searched(r)
    BY <2>1 DEF Searched
  <2>4. QED
    BY <1>1, <1>2, <2>1, <2>2, <2>3
<1>8. ASSUME NEW s \in Sessions, NEW d \in Decoders,
             NEW id \in GivenIds \cup {NoId}, InstNew(s, d, id)
      PROVE  UniqueFound'
  <2> DEFINE n == made + 1
  <2>1. /\ \A r \in Sessions : n \notin Searched(r) /\ Searched(r) \subseteq Insts
        /\ n \in Insts
    <3>1. n \in Insts
      BY <1>8, RegistryAssumption, SMT DEF InstNew, Structure, TypeOK, Insts
    <3>2. QED
      BY <3>1, SearchedMade
  <2>2. /\ sessions' = sessions /\ next_di' = next_di
        /\ di_list' = [di_list EXCEPT ![s] = @ \cup {n}]
        /\ \A j \in Insts : j # n => inst_id'[j] = inst_id[j]
    BY <1>8 DEF InstNew, Structure, TypeOK
  <2>3. next_di[n] = {}
    BY <2>1, RegistryAssumption, SMT DEF Structure, OnlyMade, TypeOK, Insts
  <2>4. \A r \in Sessions : \A j \in Searched(r)' :
            j \in Searched(r) \/ (r = s /\ j = n)
    BY <2>2, <2>3 DEF Searched, Structure, TypeOK
  <2>5. given \subseteq given' /\ (n \notin given' => inst_id'[n] = FirstFreeId(s, d))
    BY <1>8, <2>1 DEF InstNew, Structure, TypeOK
  <2>6. \A j \in Searched(s) : inst_id[j] # FirstFreeId(s, d)
    BY <2>1, NewNumber DEF Structure
  <2>7. \A r \in Sessions : \A j \in Searched(r) : j < n
    <3>1. \A r \in Sessions : \A j \in Searched(r) : j <= made
      BY DEF Structure, OnlyMade, TypeOK, Searched
    <3>2. QED
      BY <2>1, <3>1, RegistryAssumption, SMT DEF Structure, TypeOK, Insts
  <2>8. \A x, y \in Insts : x < y => ~ (y < x) /\ x # y
    BY OlderFirst
  <2> HIDE DEF n
  <2>9. ASSUME NEW r \in sessions', NEW i \in Searched(r)', NEW j \in Searched(r)',
               i < j, inst_id'[i] = inst_id'[j]
        PROVE  j \in given'
    <3>1. CASE i # n /\ j # n
      <4>1. i \in Searched(r) /\ j \in Searched(r) /\ i \in Insts /\ j \in Insts
        BY <1>2, <2>1, <2>4, <3>1
      <4>2. inst_id[i] = inst_id[j]
        BY <2>2, <2>9, <3>1, <4>1
      <4>3. j \in given
        BY <2>2, <2>9, <4>1, <4>2 DEF UniqueFound, UniqueIn
      <4>4. QED
        BY <2>5, <4>3
    <3>2. CASE i = n
      <4>1. j \in Insts /\ (j = n \/ j < n)
        BY <1>2, <2>1, <2>4, <2>7
      <4>2. QED
        BY <2>1, <2>8, <2>9, <3>2, <4>1
    <3>3. CASE j = n /\ i # n
      <4>1. r = s /\ i \in Searched(s) /\ i \in Insts
        <5>1. i \in Searched(r) /\ r \in Sessions
          BY <1>2, <2>4, <3>3
        <5>2. n \notin Searched(r)
          BY <2>1, <5>1
        <5>3. QED
          BY <2>1, <2>4, <2>9, <3>3, <5>1, <5>2
      <4>2. inst_id[i] = inst_id'[n]
        BY <2>2, <2>9, <3>3, <4>1
      <4>3. QED
        BY <2>5, <2>6, <3>3, <4>1, <4>2
    <3>4. QED
      BY <3>1, <3>2, <3>3
  <2>10. QED
    BY <2>9 DEF UniqueFound, UniqueIn
<1>9. ASSUME NEW s \in Sessions, NEW bottom \in Insts, NEW top \in Insts,
             Stack(s, bottom, top)
      PROVE  UniqueFound'
  <2>1. /\ top \in di_list[s] /\ bottom \in Tree(s)
        /\ sessions' = sessions /\ UNCHANGED <<given, inst_id>>
        /\ di_list' = [di_list EXCEPT ![s] = @ \ {top}]
        /\ next_di' = [next_di EXCEPT ![bottom] = @ \cup {top}]
    BY <1>9 DEF Stack, MayStack
  <2>2. ASSUME NEW r \in Sessions PROVE Searched(r)' \subseteq Searched(r)
    <3>1. CASE r = s
      BY <2>1, <3>1 DEF Searched, Structure, TypeOK
    <3>2. CASE r # s
      <4>1. bottom \notin di_list[r] /\ di_list'[r] = di_list[r]
        BY <2>1, <3>2, TreesApart DEF Structure, TypeOK
      <4>2. QED
        BY <2>1, <4>1 DEF Searched, Structure, TypeOK
    <3>3. QED
      BY <3>1, <3>2
  <2>3. QED
    BY <1>1, <1>2, <2>1, <2>2
<1>10. QED
  BY <1>3, <1>5, <1>6, <1>7, <1>8, <1>9
     DEF Next, vars, SrdInit, ExitDecoders, ExitLibraries, Load, CLoad, CUnload,
         Unload, UnloadAll

\* Where srd_inst_find_by_id looks, a number that srd_inst_new chose is no older
\* instance's ID, whatever IDs the client gives to others, for clients that put
\* only unstacked instances on others and build no circle.
THEOREM UniqueFoundInvariant ==
    ASSUME StacksAnywhere = FALSE
    PROVE  Spec => []UniqueFound
<1>1. Init => UniqueFound
  BY DEF Init, UniqueFound
<1>2. Structure /\ Forest /\ UniqueFound /\ [Next]_vars => UniqueFound'
  BY UniqueFoundStep
<1>3. QED
  BY StructureInvariant, ForestInvariant, <1>1, <1>2, PTL DEF Spec

\* A call forgets no instance that nothing is below.
LEMMA UnstackedStep == Structure /\ UnstackedReleased /\ [Next]_vars => UnstackedReleased'
<1> SUFFICES ASSUME Structure, UnstackedReleased, [Next]_vars
             PROVE  UnstackedReleased'
  OBVIOUS
<1>1. ASSUME UNCHANGED <<di_list, next_di>>, live' \subseteq live,
             sessions \subseteq sessions'
      PROVE  UnstackedReleased'
  BY <1>1 DEF UnstackedReleased
<1> USE DEF instances, Structure, TypeOK
<1>2. ASSUME NEW which \in SUBSET Sessions, Destroy(which), UNCHANGED next_di
      PROVE  UnstackedReleased'
  <2>1. /\ live' = live \ UNION {di_list[s] : s \in which}
        /\ \A s \in sessions \ which : s \in sessions' /\ di_list'[s] = di_list[s]
    BY <1>2 DEF Destroy, FreeAll
  <2>2. QED
    BY <1>2, <2>1 DEF UnstackedReleased
<1>3. CASE ExitSessions
  BY <1>2, <1>3 DEF ExitSessions
<1>4. ASSUME NEW s \in Sessions, SessionDestroy(s) PROVE UnstackedReleased'
  BY <1>2, <1>4 DEF SessionDestroy
<1>5. ASSUME NEW s \in Sessions, NEW d \in Decoders,
              NEW id \in GivenIds \cup {NoId}, InstNew(s, d, id)
      PROVE  UnstackedReleased'
  <2>1. /\ live' = live \cup {made + 1} /\ next_di' = next_di
        /\ s \in sessions /\ sessions' = sessions
        /\ made + 1 \in di_list'[s]
        /\ \A r \in Sessions : di_list[r] \subseteq di_list'[r]
    BY <1>5 DEF InstNew
  <2>2. QED
    BY <2>1 DEF UnstackedReleased
<1>6. ASSUME NEW s \in Sessions, NEW bottom \in Insts, NEW top \in Insts,
             Stack(s, bottom, top)
      PROVE  UnstackedReleased'
  <2>1. /\ live' = live /\ sessions' = sessions
        /\ top \in next_di'[bottom]
        /\ \A j \in Insts : next_di[j] \subseteq next_di'[j]
        /\ \A r \in Sessions : di_list[r] \ {top} \subseteq di_list'[r]
    BY <1>6 DEF Stack
  <2>2. QED
    BY <2>1 DEF UnstackedReleased
<1>7. QED
  BY <1>1, <1>3, <1>4, <1>5, <1>6
     DEF Next, vars, SrdInit, ExitDecoders, ExitLibraries, Load, CLoad, CUnload,
         Unload, UnloadAll, FreeAll, UnloadEach, SessionNew

\* Destroying its sessions releases every instance that nothing is below.
THEOREM UnstackedReleasedInvariant == Spec => []UnstackedReleased
<1>1. Init => UnstackedReleased
  BY DEF Init, UnstackedReleased
<1>2. QED
  BY StructureInvariant, <1>1, UnstackedStep, PTL DEF Spec

-----------------------------------------------------------------------------
(* Memory, for clients that unload decoders only without instances.        *)

\* Closing no library, freeing no instance and unlisting no decoder leaves the
\* stacks usable, if they only lost instances.
LEMMA UsableKept ==
    ASSUME StacksUsable, exiting = "no", decoder' = decoder,
           \A d \in pd_list \ Closed : d \in pd_list' \ Closed',
           \A s \in sessions' : Tree(s)' = {} \/
               \E r \in sessions : Tree(s)' \subseteq Tree(r) \cap live'
    PROVE  StacksUsable'
  BY DEF StacksUsable

\* Destroying sessions uses no freed instance and frees none of the others.
LEMMA DestroySafe ==
    ASSUME Structure, Forest, StacksUsable, SafeMemory, exiting = "no",
           NEW which \in SUBSET sessions, Destroy(which), UNCHANGED next_di
    PROVE  /\ SafeMemory'
           /\ \A s \in sessions' :
                 s \in sessions /\ Tree(s)' \subseteq Tree(s) \cap live'
<1>1. sessions \subseteq Sessions
  BY DEF Structure, TypeOK
<1>2. ASSUME NEW s \in which, NEW i \in di_list[s]
      PROVE  i \in live /\ decoder[i] \notin Closed
  BY <1>1, <1>2, TreeClosed DEF Structure, StacksUsable
<1>3. ~ FreeUses(UNION {di_list[s] : s \in which})
  BY <1>2 DEF FreeUses
<1>4. SafeMemory'
  BY <1>3 DEF SafeMemory, Destroy, FreeAll
<1>5. ASSUME NEW s \in sessions'
      PROVE  s \in sessions /\ Tree(s)' \subseteq Tree(s) \cap live'
  <2>1. s \in sessions \ which /\ s \in Sessions
    BY <1>1, <1>5 DEF Destroy
  <2>2. Tree(s)' = Tree(s)
    BY <2>1 DEF Destroy, Tree, StackedOn, ClosedUnderStack
  <2>3. \A r \in which : Tree(s) \cap di_list[r] = {}
    BY <1>1, <2>1, TreesApart DEF Structure
  <2>4. Tree(s) \subseteq live
    BY <2>1 DEF StacksUsable
  <2>5. QED
    BY <2>1, <2>2, <2>3, <2>4 DEF Destroy, FreeAll
<1>6. QED
  BY <1>4, <1>5

\* Stacking moves an instance within its session: it stays reachable, and no
\* session reaches an instance that none has reached before.
LEMMA StackSafe ==
    ASSUME StacksAnywhere = FALSE, Structure, StacksUsable, NEW s \in Sessions,
           NEW bottom \in Insts, NEW top \in Insts, Stack(s, bottom, top),
           NEW r \in sessions
    PROVE  Tree(r)' \subseteq Tree(r) \cup Tree(s)
<1> DEFINE C == Tree(r) \cup Tree(s)
<1>1. r \in Sessions
  BY DEF Structure, TypeOK
<1>2. /\ Tree(r) \subseteq Insts /\ Tree(s) \subseteq Insts
      /\ di_list[r] \subseteq Tree(r) /\ di_list[s] \subseteq Tree(s)
      /\ ClosedUnderStack(Tree(r)) /\ ClosedUnderStack(Tree(s))
  BY <1>1, TreeClosed DEF Structure
<1>3. di_list'[r] \subseteq C
  BY <1>1, <1>2 DEF Stack, MayStack, Structure, TypeOK
<1>4. \A j \in C : next_di'[j] \subseteq C
  BY <1>2 DEF Stack, MayStack, Structure, TypeOK, ClosedUnderStack
<1>5. C \in SUBSET Insts
  BY <1>2
<1> HIDE DEF C
<1>6. Tree(r)' \subseteq C
  BY <1>3, <1>4, <1>5 DEF Tree, StackedOn, ClosedUnderStack
<1>7. QED
  BY <1>6 DEF C

\* No call of such a client uses a freed instance or a closed library, and
\* everything a session reaches can be run.
LEMMA MemoryStep ==
    ASSUME UnloadsInUse = FALSE, StacksAnywhere = FALSE, Structure, Forest,
           SafeMemory, StacksUsable, [Next]_vars
    PROVE  SafeMemory' /\ StacksUsable'
<1> USE DEF instances
<1>1. sessions \subseteq Sessions
  BY DEF Structure, TypeOK
<1>2. CASE SrdInit
  BY <1>2 DEF SrdInit, SafeMemory, StacksUsable, Closed, Tree, StackedOn, ClosedUnderStack
<1>3. CASE ExitSessions
  <2>1. exiting = "no" /\ Destroy(sessions) /\ UNCHANGED next_di /\ exiting' = "decoders"
    BY <1>3 DEF ExitSessions, MayCall
  <2>2. QED
    BY <2>1, DestroySafe DEF StacksUsable
<1>4. CASE ExitDecoders
  <2>1. sessions = {} /\ exiting' = "libraries"
    BY <1>4 DEF ExitDecoders, Structure, Shutdown
  <2>2. QED
    BY <1>4, <2>1 DEF ExitDecoders, UnloadEach, FreeUses, SafeMemory, StacksUsable
<1>5. CASE ExitLibraries
  <2>1. sessions' = {}
    BY <1>5 DEF ExitLibraries, Structure, Shutdown
  <2>2. QED
    BY <1>5, <2>1 DEF ExitLibraries, SafeMemory, StacksUsable
<1>6. ASSUME UNCHANGED <<sessions, di_list, next_di, decoder, live, exiting>>,
             SafeMemory', exiting = "no",
             \A d \in pd_list \ Closed : d \in pd_list' \ Closed'
      PROVE  SafeMemory' /\ StacksUsable'
  BY <1>6 DEF StacksUsable, Tree, StackedOn, ClosedUnderStack
<1>7. ASSUME NEW d \in PyDecoders, Load(d) PROVE SafeMemory' /\ StacksUsable'
  BY <1>6, <1>7 DEF Load, MayCall, SafeMemory, Closed
<1>8. ASSUME NEW d \in CDecoders, CLoad(d) PROVE SafeMemory' /\ StacksUsable'
  <2>1. \A e \in pd_list \ Closed : e \in pd_list' \ Closed'
    BY <1>8 DEF CLoad, Register, Closed, Structure, TypeOK
  <2>2. QED
    BY <1>6, <1>8, <2>1 DEF CLoad, MayCall, SafeMemory
<1>9. ASSUME MayUnload, UNCHANGED <<sessions, di_list, next_di>>, live' = live \/
             live' = live \ UNION {di_list[s] : s \in sessions}
      PROVE  /\ \A s \in sessions : di_list[s] = {}
             /\ StacksUsable'
  <2>1. \A s \in sessions : di_list[s] = {}
    BY <1>9 DEF MayUnload
  <2>2. \A s \in sessions : Tree(s) = {}
    BY <1>1, <2>1, TreeEmpty DEF Structure
  <2>3. \A s \in sessions' : Tree(s)' = {}
    BY <1>9, <2>2 DEF Tree, StackedOn, ClosedUnderStack
  <2>4. QED
    BY <2>1, <2>3 DEF StacksUsable
<1>10. ASSUME NEW d \in CDecoders, CUnload(d) PROVE SafeMemory' /\ StacksUsable'
  BY <1>9, <1>10 DEF CUnload, SafeMemory
<1>11. ASSUME NEW d \in Decoders, Unload(d) PROVE SafeMemory' /\ StacksUsable'
  <2>1. (\A s \in sessions : di_list[s] = {}) /\ StacksUsable'
    BY <1>9, <1>11 DEF Unload, FreeAll
  <2>2. SafeMemory'
    BY <1>11, <2>1 DEF Unload, FreeAll, FreeUses, SafeMemory
  <2>3. QED
    BY <2>1, <2>2
<1>12. CASE UnloadAll
  <2>1. (\A s \in sessions : di_list[s] = {}) /\ StacksUsable'
    BY <1>9, <1>12 DEF UnloadAll, UnloadEach
  <2>2. SafeMemory'
    BY <1>12, <2>1 DEF UnloadAll, UnloadEach, FreeUses, SafeMemory
  <2>3. QED
    BY <2>1, <2>2
<1>13. ASSUME NEW s \in Sessions, SessionNew(s) PROVE SafeMemory' /\ StacksUsable'
  <2>1. /\ exiting = "no" /\ sessions' = sessions \cup {s} /\ live' = live
        /\ decoder' = decoder /\ Closed' = Closed /\ pd_list' = pd_list
        /\ \A r : Tree(r)' = Tree(r)
    BY <1>13 DEF SessionNew, MayCall, Closed, Tree, StackedOn, ClosedUnderStack
  <2>2. Tree(s) = {}
    BY <1>13, TreeEmpty DEF SessionNew, Structure, OnlyMade
  <2>3. \A r \in sessions : Tree(r) \subseteq live
    BY <2>1 DEF StacksUsable
  <2>4. StacksUsable'
    BY <2>1, <2>2, <2>3, UsableKept
  <2>5. QED
    BY <1>13, <2>4 DEF SessionNew, SafeMemory
<1>14. ASSUME NEW s \in Sessions, SessionDestroy(s) PROVE SafeMemory' /\ StacksUsable'
  <2>1. /\ exiting = "no" /\ s \in sessions /\ Destroy({s}) /\ UNCHANGED next_di
        /\ decoder' = decoder /\ Closed' = Closed /\ pd_list' = pd_list
    BY <1>14 DEF SessionDestroy, MayCall, Closed
  <2>2. SafeMemory' /\ \A r \in sessions' :
            r \in sessions /\ Tree(r)' \subseteq Tree(r) \cap live'
    BY <2>1, DestroySafe
  <2>3. QED
    BY <2>1, <2>2, UsableKept
<1>15. ASSUME NEW s \in Sessions, NEW d \in Decoders,
              NEW id \in GivenIds \cup {NoId}, InstNew(s, d, id)
       PROVE  SafeMemory' /\ StacksUsable'
  <2> DEFINE n == made + 1
  <2>1. /\ exiting = "no" /\ s \in sessions /\ d \in pd_list /\ sessions' = sessions
        /\ live' = live \cup {n} /\ decoder' = [decoder EXCEPT ![n] = d]
        /\ di_list' = [di_list EXCEPT ![s] = @ \cup {n}] /\ next_di' = next_di
        /\ Closed' = Closed /\ pd_list' = pd_list
    BY <1>15 DEF InstNew, MayCall, Closed
  <2>2. n \in Insts /\ d \notin Closed
    BY <1>15, <2>1, RegistryAssumption, SMT
       DEF InstNew, Structure, TypeOK, Shutdown, Insts
  <2>3. next_di[n] = {} /\ \A r \in sessions : n \notin Tree(r)
    BY <1>1, <2>2, TreeMade, RegistryAssumption, SMT
       DEF Structure, OnlyMade, TypeOK, Insts
  <2> HIDE DEF n
  <2>4. \A r \in sessions : /\ Tree(r) \subseteq Insts
                            /\ di_list[r] \subseteq Tree(r)
                            /\ ClosedUnderStack(Tree(r))
    BY <1>1, TreeClosed DEF Structure
  <2>5. SafeMemory'
    <3>1. Searched(s) \subseteq Tree(s)
      BY <2>1, <2>4 DEF Searched, ClosedUnderStack
    <3>2. Tree(s) \subseteq live
      BY <2>1 DEF StacksUsable
    <3>3. QED
      BY <1>15, <2>2, <3>1, <3>2 DEF InstNew, SafeMemory
  <2>6. ASSUME NEW r \in sessions PROVE Tree(r)' \subseteq Tree(r) \cup {n}
    <3> DEFINE C == Tree(r) \cup {n}
    <3>1. C \in SUBSET Insts
      BY <2>2, <2>4
    <3>2. di_list'[r] \subseteq C
      BY <1>1, <2>1, <2>4 DEF Structure, TypeOK
    <3>3. \A j \in C : next_di'[j] \subseteq C
      BY <2>1, <2>3, <2>4 DEF ClosedUnderStack
    <3> HIDE DEF C
    <3>4. Tree(r)' \subseteq C
      BY <3>1, <3>2, <3>3 DEF Tree, StackedOn, ClosedUnderStack
    <3>5. QED
      BY <3>4 DEF C
  <2>7. ASSUME NEW r \in sessions, NEW i \in Tree(r)'
        PROVE  i \in live' /\ decoder'[i] \in pd_list' /\ decoder'[i] \notin Closed'
    <3>1. CASE i = n
      BY <2>1, <2>2, <3>1 DEF Structure, TypeOK
    <3>2. CASE i # n
      <4>1. i \in Tree(r) /\ i \in Insts
        BY <2>4, <2>6, <2>7, <3>2
      <4>2. decoder'[i] = decoder[i]
        BY <2>1, <3>2, <4>1 DEF Structure, TypeOK
      <4>3. QED
        BY <2>1, <4>1, <4>2 DEF StacksUsable
    <3>3. QED
      BY <3>1, <3>2
  <2>8. QED
    BY <2>1, <2>5, <2>7 DEF StacksUsable
<1>16. ASSUME NEW s \in Sessions, NEW bottom \in Insts, NEW top \in Insts,
              Stack(s, bottom, top)
       PROVE  SafeMemory' /\ StacksUsable'
  <2>1. /\ exiting = "no" /\ s \in sessions /\ sessions' = sessions /\ live' = live
        /\ decoder' = decoder /\ Closed' = Closed /\ pd_list' = pd_list
        /\ top \in di_list[s] /\ bottom \in Tree(s)
    BY <1>16 DEF Stack, MayStack, MayCall, Closed
  <2>2. \A r \in sessions : Tree(r)' \subseteq Tree(r) \cup Tree(s)
    BY <1>16, StackSafe
  <2>3. StacksUsable'
    BY <2>1, <2>2 DEF StacksUsable
  <2>4. top \in Tree(s)
    BY <2>1, TreeClosed DEF Structure
  <2>5. SafeMemory'
    BY <1>16, <2>1, <2>4 DEF Stack, SafeMemory, StacksUsable
  <2>6. QED
    BY <2>3, <2>5
<1>17. CASE UNCHANGED vars
  BY <1>17 DEF vars, SafeMemory, StacksUsable, Closed, Tree, StackedOn, ClosedUnderStack
<1>18. QED
  BY <1>2, <1>3, <1>4, <1>5, <1>7, <1>8, <1>10, <1>11, <1>12, <1>13, <1>14,
     <1>15, <1>16, <1>17 DEF Next

\* For these clients memory safety and usable stacks are one invariant: freeing
\* a stack is safe because it is usable, and it stays usable because nothing
\* else was freed.
LEMMA MemoryInvariant ==
    ASSUME UnloadsInUse = FALSE, StacksAnywhere = FALSE
    PROVE  Spec => [](SafeMemory /\ StacksUsable)
<1>1. Init => SafeMemory /\ StacksUsable
  BY DEF Init, SafeMemory, StacksUsable
<1>2. Structure /\ Forest /\ SafeMemory /\ StacksUsable /\ [Next]_vars
          => (SafeMemory /\ StacksUsable)'
  BY MemoryStep
<1>3. QED
  BY StructureInvariant, ForestInvariant, <1>1, <1>2, PTL DEF Spec

\* No call uses a freed instance or calls into a closed C library, srd_exit in
\* any state included, if decoders are unloaded only without instances.
THEOREM SafeMemoryInvariant ==
    ASSUME UnloadsInUse = FALSE, StacksAnywhere = FALSE
    PROVE  Spec => []SafeMemory
  BY MemoryInvariant, PTL

\* Everything a session reaches at any depth of a stack is alive and its
\* decoder listed and open, if decoders are unloaded only without instances.
THEOREM StacksUsableInvariant ==
    ASSUME UnloadsInUse = FALSE, StacksAnywhere = FALSE
    PROVE  Spec => []StacksUsable
  BY MemoryInvariant, PTL

-----------------------------------------------------------------------------
(* Clients that do not stack instances get what the comments promise.      *)

\* Nothing is stacked on any instance.
NoStacks == \A i \in Insts : next_di[i] = {}

\* Only srd_inst_stack puts an instance on top of another.
LEMMA FlatStep ==
    ASSUME Stacks = FALSE, NoStacks, [Next]_vars
    PROVE  NoStacks'
  BY DEF NoStacks, Next, vars, instances, SrdInit, ExitSessions, ExitDecoders,
         ExitLibraries, Load, CLoad, CUnload, Unload, UnloadAll, SessionNew,
         SessionDestroy, InstNew, Stack

\* Nothing is ever stacked for such a client.
LEMMA FlatInvariant ==
    ASSUME Stacks = FALSE
    PROVE  Spec => []NoStacks
<1>1. Init => NoStacks
  BY DEF Init, NoStacks
<1>2. NoStacks /\ [Next]_vars => NoStacks'
  BY FlatStep
<1>3. QED
  BY <1>1, <1>2, PTL DEF Spec

\* What srd_inst_new promises: an ID it chooses is unique in its session when it
\* is chosen, and stays unlike any older one, for clients that do not stack
\* instances.
THEOREM UniqueIdsUnstacked ==
    ASSUME Stacks = FALSE, StacksAnywhere = FALSE
    PROVE  Spec => []UniqueIds
<1>1. Structure /\ NoStacks /\ UniqueFound => UniqueIds
  <2> SUFFICES ASSUME Structure, NoStacks, UniqueFound PROVE UniqueIds
    OBVIOUS
  <2>1. ASSUME NEW s \in sessions PROVE Tree(s) \subseteq Searched(s)
    <3>1. s \in Sessions /\ di_list[s] \in SUBSET Insts
      BY DEF Structure, TypeOK
    <3>2. ClosedUnderStack(di_list[s])
      BY <3>1 DEF NoStacks, ClosedUnderStack
    <3>3. QED
      BY <3>1, <3>2, TreeWithin DEF Searched
  <2>2. QED
    BY <2>1 DEF UniqueIds, UniqueFound, UniqueIn
<1>2. QED
  BY StructureInvariant, FlatInvariant, UniqueFoundInvariant, <1>1, PTL

\* What srd_session_destroy promises: without sessions there are no instances,
\* for clients that do not stack instances.
THEOREM AllReleasedUnstacked ==
    ASSUME Stacks = FALSE
    PROVE  Spec => []AllReleased
<1>1. NoStacks /\ UnstackedReleased => AllReleased
  BY DEF NoStacks, UnstackedReleased, AllReleased
<1>2. QED
  BY FlatInvariant, UnstackedReleasedInvariant, <1>1, PTL
=============================================================================
