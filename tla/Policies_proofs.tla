--------------------------- MODULE Policies_proofs ---------------------------
(****************************************************************************)
(* Proofs about Policies: that the sort orders the classes and the analysis *)
(* finds what derives from every vtable and class, that types are told      *)
(* apart, that no policy forbids a legal call, that the policies of the     *)
(* hierarchy are nested, and that no result of an earlier link is lost.     *)
(****************************************************************************)
EXTENDS Policies, Hierarchy_proofs, SequenceTheorems

------------------------------------------------------------------------------
(* The steps                                                                 *)

\* The steps of the sort and of the loop over the sorted classes.
SortStep == (\E r \in todo : VisitRoot(r)) \/ VisitChild \/ LeaveClass

\* The steps that build on the hierarchies.
MatchStep ==
  \/ \E v \in todo : MatchTargetsInVTable(v)
  \/ \E c \in todo : MatchTargetsInClass(c)
  \/ \E r \in todo : ClaimIsland(r)
  \/ CollectIslands
  \/ FindAllVFunctions

CallStep ==
  \/ \E f \in todo : AnalyseCallee(f)
  \/ \E i \in todo : ProcessVirtualCallSite(i)
  \/ \E s \in todo : ProcessIndirectCallSite(s)

StoreStep == \E opened \in SUBSET {"Virtual", "Indirect"} : StoreData(opened)

LEMMA StepCases ==
  ASSUME [Next]_vars
  PROVE  \/ SortStep \/ BuildSubHierarchy \/ MatchStep \/ NextLoop \/ CallStep
         \/ StoreStep \/ UNCHANGED vars
BY DEF Next, AnalyseCHA, AnalyseCalls, Finished, SortStep, MatchStep, CallStep, StoreStep

\* What the groups of steps leave alone.
LEMMA SortFrame ==
  ASSUME SortStep
  PROVE  /\ UNCHANGED <<program, cha, hierarchies, targets, marx, functions, sites, outputs>>
         /\ pc = "sort" /\ pc' \in {"sort", "aborted"}
BY DEF SortStep, VisitRoot, VisitChild, LeaveClass, TopoSortHelper

LEMMA BuildFrame ==
  ASSUME BuildSubHierarchy
  PROVE  /\ UNCHANGED <<program, cha, frames, todo, targets, marx, functions, sites, outputs>>
         /\ pc = "hierarchies" /\ pc' \in {"hierarchies", "aborted"}
BY DEF BuildSubHierarchy

Matching == {"vtable targets", "class targets", "islands", "collect", "vfunctions",
             "callees"}

LEMMA MatchFrame ==
  ASSUME MatchStep
  PROVE  /\ UNCHANGED <<program, cha, sorted, hierarchies, sites, outputs, callees,
                        callees_virtual>>
         /\ pc \in Matching \ {"callees"} /\ pc' \in Matching
<1> USE DEF Matching, functions, targets, marx
<1>1. ASSUME NEW v \in todo, MatchTargetsInVTable(v)
      PROVE  /\ UNCHANGED <<program, cha, sorted, hierarchies, sites, outputs, callees,
                            callees_virtual>>
             /\ pc \in Matching \ {"callees"} /\ pc' \in Matching
  BY <1>1 DEF MatchTargetsInVTable
<1>2. ASSUME NEW c \in todo, MatchTargetsInClass(c)
      PROVE  /\ UNCHANGED <<program, cha, sorted, hierarchies, sites, outputs, callees,
                            callees_virtual>>
             /\ pc \in Matching \ {"callees"} /\ pc' \in Matching
  BY <1>2 DEF MatchTargetsInClass
<1>3. ASSUME NEW r \in todo, ClaimIsland(r)
      PROVE  /\ UNCHANGED <<program, cha, sorted, hierarchies, sites, outputs, callees,
                            callees_virtual>>
             /\ pc \in Matching \ {"callees"} /\ pc' \in Matching
  BY <1>3 DEF ClaimIsland
<1>4. CASE CollectIslands
  BY <1>4 DEF CollectIslands
<1>5. CASE FindAllVFunctions
  BY <1>5 DEF FindAllVFunctions
<1>6. QED
  BY <1>1, <1>2, <1>3, <1>4, <1>5 DEF MatchStep

LEMMA LoopFrame ==
  ASSUME NextLoop
  PROVE  /\ UNCHANGED <<program, cha, sorted, hierarchies, targets, marx, functions, sites,
                        outputs>>
         /\ pc' \in (Matching \ {"vfunctions", "callees"})
                     \cup {"hierarchies", "virtual", "indirect", "store"}
         /\ pc \notin {"done", "aborted", "store", "collect", "vfunctions"}
BY DEF NextLoop, Matching

LEMMA CallFrame ==
  ASSUME CallStep
  PROVE  /\ UNCHANGED <<program, cha, sorted, hierarchies, targets, marx, outputs>>
         /\ pc' = pc /\ pc \in {"callees", "virtual", "indirect"}
BY DEF CallStep, AnalyseCallee, ProcessVirtualCallSite, ProcessIndirectCallSite

LEMMA StoreFrame ==
  ASSUME StoreStep
  PROVE  /\ UNCHANGED <<program, cha, sorted, todo, hierarchies, targets, marx, functions,
                        sites>>
         /\ pc = "store" /\ pc' = "done"
BY DEF StoreStep, StoreData, sorted

------------------------------------------------------------------------------
(* The files                                                                 *)

\* Of the numbers from one on, one is free.
LEMMA FreeNumber ==
  ASSUME NEW D, IsFiniteSet(D)
  PROVE  \E n \in 1 .. Cardinality(D) + 1 :
           /\ <<"Virtual", n>> \notin D
           /\ \A m \in 1 .. n - 1 : <<"Virtual", m>> \in D
<1> DEFINE k == Cardinality(D)
           T == {n \in Nat : n >= 1 /\ <<"Virtual", n>> \notin D}
<1>1. k \in Nat
  BY FS_CardinalityType
<1>2. \E n \in 1 .. k + 1 : n \in T
  <2> SUFFICES ASSUME \A n \in 1 .. k + 1 : n \notin T
               PROVE  FALSE
    OBVIOUS
  <2> DEFINE b == k + 1
             A == {"Virtual"}
             B == 1 .. b
             S == A \X B
  <2>1. S \subseteq D
    BY <1>1
  <2>2. IsFiniteSet(A) /\ Cardinality(A) = 1
    BY FS_Singleton
  <2>3. IsFiniteSet(B) /\ Cardinality(B) = b
    <3>1. b \in Int /\ 1 \in Int /\ b >= 1
      BY <1>1
    <3> HIDE DEF b
    <3>2. IsFiniteSet(1 .. b) /\ Cardinality(1 .. b) = IF 1 > b THEN 0 ELSE b - 1 + 1
      BY <3>1, FS_Interval
    <3>3. QED
      BY <3>1, <3>2
  <2> HIDE DEF A, B
  <2>4. Cardinality(S) = 1 * b
    BY <2>2, <2>3, FS_Product
  <2> HIDE DEF S
  <2>5. Cardinality(S) <= k
    BY <2>1, FS_Subset
  <2> HIDE DEF k, T
  <2>6. QED
    BY <1>1, <2>4, <2>5
<1>3. T \subseteq Nat /\ T # {}
  BY <1>1, <1>2
<1> HIDE DEF T, k
<1>4. PICK n \in T : \A m \in T : n <= m
  BY <1>3, LeastNat
<1>5. n \in 1 .. k + 1
  BY <1>1, <1>2, <1>3, <1>4 DEF T
<1>6. ASSUME NEW m \in 1 .. n - 1
      PROVE  <<"Virtual", m>> \in D
  <2>1. m \in Nat /\ m >= 1 /\ m < n
    BY <1>1, <1>5, <1>6
  <2>2. m \notin T
    BY <1>1, <1>4, <1>5, <2>1
  <2>3. QED
    BY <2>1, <2>2 DEF T
<1>7. QED
  BY <1>4, <1>5, <1>6 DEF T, k

\* A result of an earlier link with the number of the new files is the exposed one,
\* and the directory is not in pairs then.
LEMMA NumberIsFree ==
  ASSUME program \in Programs, outputs = program.dir
  PROVE  /\ OutputNumber \in Nat
         /\ <<"Virtual", OutputNumber>> \notin DOMAIN outputs
         /\ <<"Indirect", OutputNumber>> \in DOMAIN outputs =>
              /\ Exposed(outputs, <<"Indirect", OutputNumber>>)
              /\ Paired(outputs) => outputs[<<"Indirect", OutputNumber>>] = "empty"
<1> DEFINE n == OutputNumber
           x == <<"Indirect", n>>
           y == <<"Virtual", n>>
<1>1. /\ IsFiniteSet(DOMAIN outputs)
      /\ DOMAIN outputs \subseteq {"Virtual", "Indirect"} \X Nat
  BY ProgramsAssumption DEF IsProgram
<1>2. CASE exists("Virtual", 0) \/ exists("Indirect", 0)
  <2>1. n = CHOOSE m \in 1 .. Cardinality(DOMAIN outputs) + 1 :
              /\ <<"Virtual", m>> \notin DOMAIN outputs
              /\ \A l \in 1 .. m - 1 : <<"Virtual", l>> \in DOMAIN outputs
    BY <1>2 DEF OutputNumber, exists
  <2>2. \E m \in 1 .. Cardinality(DOMAIN outputs) + 1 :
          /\ <<"Virtual", m>> \notin DOMAIN outputs
          /\ \A l \in 1 .. m - 1 : <<"Virtual", l>> \in DOMAIN outputs
    BY <1>1, FreeNumber
  <2> HIDE DEF n
  <2>3. /\ n \in 1 .. Cardinality(DOMAIN outputs) + 1
        /\ y \notin DOMAIN outputs
        /\ \A l \in 1 .. n - 1 : <<"Virtual", l>> \in DOMAIN outputs
    BY <2>1, <2>2
  <2>4. n \in Nat /\ n > 0
    <3>1. Cardinality(DOMAIN outputs) \in Nat
      BY <1>1, FS_CardinalityType
    <3>2. QED
      BY <2>3, <3>1
  <2>5. Exposed(outputs, x)
    BY <2>3, <2>4 DEF Exposed
  <2>6. ASSUME x \in DOMAIN outputs, outputs[x] # "empty", Paired(outputs)
        PROVE  FALSE
    <3>1. n \in {z[2] : z \in DOMAIN outputs}
      <4>1. x \in DOMAIN outputs /\ x[2] = n
        BY <2>6
      <4>2. QED
        BY <4>1
    <3>2. x \in {"Virtual", "Indirect"} \X {n} /\ y \in {"Virtual", "Indirect"} \X {n}
      OBVIOUS
    <3>3. y \in DOMAIN outputs
      BY <2>6, <3>1, <3>2 DEF Paired
    <3>4. QED
      BY <2>3, <3>3
  <2>7. QED
    BY <2>3, <2>4, <2>5, <2>6 DEF n
<1>3. CASE ~ (exists("Virtual", 0) \/ exists("Indirect", 0))
  BY <1>3 DEF OutputNumber, exists
<1>4. QED
  BY <1>2, <1>3

\* Nothing is written before the end.
FilesInv ==
  /\ program \in Programs
  /\ pc # "done" => outputs = program.dir
  /\ OutputsKept

LEMMA StoreKeeps ==
  ASSUME FilesInv, NEW opened \in SUBSET {"Virtual", "Indirect"}, StoreData(opened)
  PROVE  OutputsKept'
<1> DEFINE n == OutputNumber
           new == [x \in opened \X {n} |->
                     IF opened = {"Virtual", "Indirect"} THEN "results" ELSE "empty"]
           Pair == {"Virtual", "Indirect"}
<1>1. /\ program' = program /\ program \in Programs /\ outputs = program.dir
      /\ DOMAIN outputs \subseteq Pair \X Nat
  <2>1. pc = "store"
    BY DEF StoreData
  <2>2. QED
    BY <2>1, ProgramsAssumption DEF FilesInv, StoreData, IsProgram
<1>2. /\ n \in Nat
      /\ <<"Virtual", n>> \notin DOMAIN outputs
      /\ <<"Indirect", n>> \in DOMAIN outputs =>
           /\ Exposed(outputs, <<"Indirect", n>>)
           /\ Paired(outputs) => outputs[<<"Indirect", n>>] = "empty"
  BY <1>1, NumberIsFree
<1>3. outputs' = outputs \/ outputs' = Merge(outputs, new)
  BY DEF StoreData
<1> HIDE DEF n
<1>4. CASE outputs' = outputs
  BY <1>1, <1>4 DEF OutputsKept, Paired
<1>5. CASE outputs' = Merge(outputs, new)
  <2>1. /\ DOMAIN outputs' = DOMAIN outputs \cup (opened \X {n})
        /\ \A x \in DOMAIN outputs' :
             outputs'[x] = IF x \in opened \X {n}
                           THEN IF opened = Pair THEN "results" ELSE "empty"
                           ELSE outputs[x]
    BY <1>5 DEF Merge
  <2>2. ASSUME NEW x \in DOMAIN outputs, outputs[x] # "empty",
               ~ Exposed(outputs, x) \/ Paired(outputs)
        PROVE  x \in DOMAIN outputs' /\ outputs'[x] = outputs[x]
    <3>1. ASSUME x \in opened \X {n}
          PROVE  FALSE
      <4>1. x = <<"Virtual", n>> \/ x = <<"Indirect", n>>
        BY <1>1, <2>2, <3>1
      <4>2. x = <<"Indirect", n>>
        BY <1>2, <4>1
      <4>3. QED
        BY <1>2, <2>2, <4>2
    <3>2. QED
      BY <2>1, <3>1
  <2>3. ASSUME Paired(outputs), NEW m, NEW x \in Pair \X {m}, NEW y \in Pair \X {m},
               x \in DOMAIN outputs', outputs'[x] # "empty"
        PROVE  y \in DOMAIN outputs' /\ outputs'[y] = outputs'[x]
    <3>1. CASE m = n
      <4>1. x \in opened \X {n} /\ opened = Pair
        <5>1. x = <<"Virtual", n>> \/ x = <<"Indirect", n>>
          BY <3>1
        <5>2. x \notin DOMAIN outputs \/ outputs[x] = "empty"
          BY <1>2, <2>3, <5>1
        <5>3. QED
          BY <2>1, <2>3, <5>2
      <4>2. y \in opened \X {n}
        BY <3>1, <4>1
      <4>3. QED
        BY <2>1, <4>1, <4>2
    <3>2. CASE m # n
      <4>1. x \notin opened \X {n} /\ y \notin opened \X {n} /\ x[2] = m
        BY <3>2
      <4>2. x \in DOMAIN outputs /\ outputs[x] # "empty" /\ outputs'[x] = outputs[x]
        BY <2>1, <2>3, <4>1
      <4>3. m \in {z[2] : z \in DOMAIN outputs}
        BY <4>1, <4>2
      <4>4. y \in DOMAIN outputs /\ outputs[y] = outputs[x]
        BY <2>3, <4>2, <4>3 DEF Paired
      <4>5. QED
        BY <2>1, <4>1, <4>2, <4>4
    <3>3. QED
      BY <3>1, <3>2
  <2>4. Paired(outputs) => Paired(outputs')
    BY <2>3 DEF Paired
  <2>5. QED
    BY <1>1, <2>2, <2>4 DEF OutputsKept
<1>6. QED
  BY <1>3, <1>4, <1>5

\* For any content of the directory no earlier result is overwritten but perhaps the
\* one Indirect file the search never asks for, and results in pairs stay in pairs.
THEOREM ResultsKept == Spec => []OutputsKept
<1>1. Init => FilesInv
  <2> SUFFICES ASSUME Init
               PROVE  FilesInv
    OBVIOUS
  <2>1. program \in Programs /\ outputs = program.dir
    BY DEF Init
  <2>2. QED
    BY <2>1 DEF FilesInv, OutputsKept
<1>2. ASSUME FilesInv, [Next]_vars
      PROVE  FilesInv'
  <2>1. ASSUME program' = program, outputs' = outputs, pc = "done" => pc' = "done"
        PROVE  FilesInv'
    BY <1>2, <2>1 DEF FilesInv, OutputsKept, Paired
  <2>2. CASE StoreStep
    <3>1. OutputsKept'
      BY <1>2, <2>2, StoreKeeps DEF StoreStep
    <3>2. QED
      BY <1>2, <2>2, <3>1, StoreFrame DEF FilesInv
  <2>3. CASE SortStep
    BY <2>1, <2>3, SortFrame
  <2>4. CASE BuildSubHierarchy
    BY <2>1, <2>4, BuildFrame
  <2>5. CASE MatchStep
    BY <2>1, <2>5, MatchFrame DEF Matching
  <2>6. CASE NextLoop
    BY <2>1, <2>6, LoopFrame DEF Matching
  <2>7. CASE CallStep
    BY <2>1, <2>7, CallFrame
  <2>8. CASE UNCHANGED vars
    BY <2>1, <2>8 DEF vars
  <2>9. QED
    BY <1>2, <2>2, <2>3, <2>4, <2>5, <2>6, <2>7, <2>8, StepCases
<1>3. FilesInv => OutputsKept
  BY DEF FilesInv
<1>4. QED
  BY <1>1, <1>2, <1>3, PTL DEF Spec


------------------------------------------------------------------------------
(* Types and their numbers                                                   *)

Codes == Kinds \cup {"ptr"}

\* The codes are digits, one for each kind.
LEMMA CodeFacts ==
  /\ \A k \in Codes : Code[k] \in 1 .. 14
  /\ \A k, l \in Codes : Code[k] = Code[l] => k = l
<1>1. /\ Code["void"] = 1 /\ Code["i1"] = 2 /\ Code["i8"] = 3 /\ Code["i16"] = 4
      /\ Code["i32"] = 5 /\ Code["i64"] = 6 /\ Code["half"] = 7 /\ Code["float"] = 8
      /\ Code["double"] = 9 /\ Code["fp80"] = 10 /\ Code["ptr"] = 11
      /\ Code["struct"] = 12 /\ Code["array"] = 13 /\ Code["other"] = 14
  BY DEF Code
<1>2. QED
  BY <1>1 DEF Codes, Kinds

LEMMA CodesShifted ==
  \A a, b \in 1 .. 14 :
    /\ a \in 1 .. 30 /\ 16 + a \in 1 .. 30 /\ 16 + a # b
    /\ 16 + a = 16 + b => a = b
OBVIOUS

\* A type is told from another by its digit if pointers are looked through once.
LEMMA TypeDigit ==
  ASSUME NEW t, IsType(t)
  PROVE  /\ encodeType(t, TRUE) \in 1 .. 30
         /\ \A u : IsType(u) =>
              (encodeType(t, TRUE) = encodeType(u, TRUE) <=> Flat(t) = Flat(u))
<1>1. ASSUME NEW u, IsType(u)
      PROVE  /\ u[1] \in Codes
             /\ u[1] = "ptr" => /\ u[2] \in Codes
                                /\ Flat(u) = <<u[1], u[2]>>
             /\ u[1] # "ptr" => Flat(u) = <<u[1]>>
  <2>1. u \in Seq(Codes) /\ Len(u) \in Nat /\ Len(u) >= 1 /\ u[Len(u)] \in Kinds
    BY <1>1 DEF IsType, Codes
  <2>2. u[1] \in Codes
    BY <2>1
  <2>3. ASSUME u[1] = "ptr"
        PROVE  u[2] \in Codes /\ Flat(u) = <<u[1], u[2]>>
    <3>1. Len(u) # 1
      BY <2>1, <2>3 DEF Kinds
    <3>2. Len(u) >= 2 /\ u[2] \in Codes
      <4> DEFINE m == Len(u)
      <4>0. m \in Nat /\ m >= 1 /\ m # 1
        BY <2>1, <3>1
      <4> HIDE DEF m
      <4>1. m >= 2 /\ 2 \in 1 .. m
        BY <4>0
      <4>2. QED
        BY <2>1, <4>1 DEF m
    <3>3. SubSeq(u, 1, 2) = <<u[1], u[2]>>
      <4> DEFINE s == SubSeq(u, 1, 2)
                 w == <<u[1], u[2]>>
      <4>1. s \in Seq(Codes) /\ Len(s) = 2 /\ s[1] = u[1] /\ s[2] = u[2]
        BY <2>1, <3>2
      <4>2. w \in Seq(Codes) /\ Len(w) = 2 /\ w[1] = u[1] /\ w[2] = u[2]
        BY <2>2, <3>2
      <4> HIDE DEF s, w
      <4>3. \A i \in 1 .. 2 : s[i] = w[i]
        BY <4>1, <4>2
      <4>4. s = w
        BY <4>1, <4>2, <4>3
      <4>5. QED
        BY <4>4 DEF s, w
    <3>4. QED
      BY <2>3, <3>2, <3>3 DEF Flat
  <2>4. QED
    BY <2>2, <2>3 DEF Flat
<1>2. ASSUME NEW u, IsType(u)
      PROVE  /\ u[1] = "ptr" => encodeType(u, TRUE) = 16 + Code[u[2]]
             /\ u[1] # "ptr" => encodeType(u, TRUE) = Code[u[1]]
  BY DEF encodeType
<1>3. encodeType(t, TRUE) \in 1 .. 30
  <2>1. CASE t[1] = "ptr"
    <3>1. Code[t[2]] \in 1 .. 14
      BY <1>1, <2>1, CodeFacts
    <3>2. encodeType(t, TRUE) = 16 + Code[t[2]]
      BY <1>2, <2>1
    <3>3. QED
      BY <3>1, <3>2, CodesShifted
  <2>2. CASE t[1] # "ptr"
    <3>1. Code[t[1]] \in 1 .. 14
      BY <1>1, <2>2, CodeFacts
    <3>2. encodeType(t, TRUE) = Code[t[1]]
      BY <1>2, <2>2
    <3>3. QED
      BY <3>1, <3>2, CodesShifted
  <2>3. QED
    BY <2>1, <2>2
<1>4. ASSUME NEW u, IsType(u)
      PROVE  encodeType(t, TRUE) = encodeType(u, TRUE) <=> Flat(t) = Flat(u)
  <2>1. CASE t[1] = "ptr" /\ u[1] = "ptr"
    <3>1. /\ Code[t[2]] \in 1 .. 14 /\ Code[u[2]] \in 1 .. 14
          /\ Code[t[2]] = Code[u[2]] => t[2] = u[2]
      BY <1>1, <1>4, <2>1, CodeFacts
    <3>2. encodeType(t, TRUE) = 16 + Code[t[2]] /\ encodeType(u, TRUE) = 16 + Code[u[2]]
      BY <1>2, <1>4, <2>1
    <3>3. Flat(t) = <<t[1], t[2]>> /\ Flat(u) = <<u[1], u[2]>>
      BY <1>1, <1>4, <2>1
    <3>4. encodeType(t, TRUE) = encodeType(u, TRUE) <=> t[2] = u[2]
      BY <3>1, <3>2, CodesShifted
    <3>5. Flat(t) = Flat(u) <=> t[2] = u[2]
      BY <2>1, <3>3
    <3>6. QED
      BY <3>4, <3>5
  <2>2. CASE t[1] # "ptr" /\ u[1] # "ptr"
    <3>1. /\ encodeType(t, TRUE) = Code[t[1]] /\ encodeType(u, TRUE) = Code[u[1]]
          /\ Flat(t) = <<t[1]>> /\ Flat(u) = <<u[1]>>
          /\ t[1] \in Codes /\ u[1] \in Codes
      BY <1>1, <1>2, <1>4, <2>2
    <3>2. Code[t[1]] = Code[u[1]] <=> t[1] = u[1]
      BY <3>1, CodeFacts
    <3>3. Flat(t) = Flat(u) <=> t[1] = u[1]
      BY <3>1
    <3>4. QED
      BY <3>1, <3>2, <3>3
  <2>3. ASSUME NEW x, NEW y, IsType(x), IsType(y), x[1] = "ptr", y[1] # "ptr"
        PROVE  encodeType(x, TRUE) # encodeType(y, TRUE) /\ Flat(x) # Flat(y)
    <3>1. /\ encodeType(x, TRUE) = 16 + Code[x[2]] /\ encodeType(y, TRUE) = Code[y[1]]
          /\ Flat(x) = <<x[1], x[2]>> /\ Flat(y) = <<y[1]>>
          /\ x[2] \in Codes /\ y[1] \in Codes
      BY <1>1, <1>2, <2>3
    <3>2. Code[x[2]] \in 1 .. 14 /\ Code[y[1]] \in 1 .. 14
      BY <3>1, CodeFacts
    <3>3. encodeType(x, TRUE) # encodeType(y, TRUE)
      BY <3>1, <3>2, CodesShifted
    <3>4. Len(Flat(x)) # Len(Flat(y))
      BY <3>1
    <3>5. QED
      BY <3>3, <3>4
  <2>4. QED
    BY <1>4, <2>1, <2>2, <2>3
<1>5. QED
  BY <1>3, <1>4

\* The digit of a parameter, or in front of all of them that of the result.
Digit(t, i) == IF i = 0 THEN encodeType(t.ret, TRUE) ELSE encodeType(t.params[i], TRUE)

LEMMA DigitRange ==
  ASSUME NEW t, IsFunctionType(t), NEW i \in 0 .. Len(t.params)
  PROVE  /\ Digit(t, i) \in 1 .. 30
         /\ i = 0 => Digit(t, i) = encodeType(t.ret, TRUE) /\ IsType(t.ret)
         /\ i # 0 => Digit(t, i) = encodeType(t.params[i], TRUE) /\ IsType(t.params[i])
<1>1. i # 0 => i \in DOMAIN t.params
  BY DEF IsFunctionType
<1>2. QED
  BY <1>1, TypeDigit DEF IsFunctionType, Digit

\* The number of a type with its first i parameters.
IsEncoding(t, E) ==
  /\ E \in [0 .. Len(t.params) -> Nat]
  /\ E[0] = Digit(t, 0)
  /\ \A i \in 1 .. Len(t.params) : E[i] = Digit(t, i) + E[i - 1] * 32

LEMMA EncodingExists ==
  ASSUME NEW t, IsFunctionType(t)
  PROVE  \E E : /\ IsEncoding(t, E)
                /\ Normal(t) = IF Len(t.params) >= 8 THEN 32 ELSE E[Len(t.params)]
<1> DEFINE n == Len(t.params)
           Is(g, k) == /\ g \in [0 .. k -> Nat]
                       /\ g[0] = Digit(t, 0)
                       /\ \A i \in 1 .. k : g[i] = Digit(t, i) + g[i - 1] * 32
           Bad == {k \in 0 .. n : ~ \E g : Is(g, k)}
<1>1. n \in Nat /\ \A i \in 0 .. n : Digit(t, i) \in Nat
  <2>1. n \in Nat
    BY DEF IsFunctionType
  <2>2. \A i \in 0 .. n : Digit(t, i) \in 1 .. 30
    BY DigitRange
  <2>3. 1 .. 30 \subseteq Nat
    OBVIOUS
  <2>4. QED
    BY <2>1, <2>2, <2>3
<1> HIDE DEF n
<1>2. Bad = {}
  <2> SUFFICES ASSUME Bad # {}
               PROVE  FALSE
    OBVIOUS
  <2>1. PICK k \in Bad : \A j \in Bad : k <= j
    <3>1. Bad \subseteq Nat
      BY <1>1
    <3> HIDE DEF Bad
    <3>2. QED
      BY <3>1, LeastNat
  <2>2. k \in 0 .. n /\ ~ \E g : Is(g, k)
    BY <2>1
  <2>3. CASE k = 0
    <3> DEFINE g == [i \in 0 .. 0 |-> Digit(t, 0)]
    <3>1. g \in [0 .. 0 -> Nat] /\ g[0] = Digit(t, 0)
      BY <1>1
    <3> HIDE DEF g
    <3>2. Is(g, 0)
      BY <3>1
    <3>3. QED
      BY <2>2, <2>3, <3>2
  <2>4. CASE k # 0
    <3>1. k \in Nat /\ k - 1 \in 0 .. n /\ ~ (k <= k - 1) /\ k >= 1
      BY <1>1, <2>2, <2>4
    <3>2. k - 1 \notin Bad
      BY <2>1, <3>1
    <3>3. PICK h : Is(h, k - 1)
      BY <3>1, <3>2
    <3> DEFINE g == [i \in 0 .. k |-> IF i = k THEN Digit(t, k) + h[k - 1] * 32 ELSE h[i]]
    <3>4. h[k - 1] \in Nat /\ Digit(t, k) \in Nat
      BY <1>1, <2>2, <3>1, <3>3
    <3>5. \A i \in 0 .. k : i # k => i \in 0 .. k - 1 /\ h[i] \in Nat
      BY <3>1, <3>3
    <3>6. Digit(t, k) + h[k - 1] * 32 \in Nat
      BY <3>4
    <3>7. g \in [0 .. k -> Nat]
      BY <3>5, <3>6
    <3>8. /\ g[k] = Digit(t, k) + h[k - 1] * 32
          /\ \A i \in 0 .. k - 1 : g[i] = h[i]
      BY <3>1
    <3> HIDE DEF g
    <3>9. g[0] = Digit(t, 0)
      BY <3>1, <3>3, <3>8
    <3>10. ASSUME NEW i \in 1 .. k
           PROVE  g[i] = Digit(t, i) + g[i - 1] * 32
      <4>1. i - 1 \in 0 .. k - 1
        BY <3>1
      <4>2. CASE i = k
        BY <3>8, <4>1, <4>2
      <4>3. CASE i # k
        <5>1. i \in 1 .. k - 1 /\ i \in 0 .. k - 1
          BY <3>1, <4>3
        <5>2. h[i] = Digit(t, i) + h[i - 1] * 32
          BY <3>3, <5>1
        <5>3. QED
          BY <3>8, <4>1, <5>1, <5>2
      <4>4. QED
        BY <4>2, <4>3
    <3>11. Is(g, k)
      BY <3>7, <3>9, <3>10
    <3>12. QED
      BY <2>2, <3>11
  <2>5. QED
    BY <2>3, <2>4
<1>3. PICK g : Is(g, n)
  <2>1. n \in 0 .. n
    BY <1>1
  <2> HIDE DEF Is
  <2>2. QED
    BY <1>2, <2>1
<1> DEFINE Eq(f) == f = [i \in 0 .. n |-> IF i = 0 THEN encodeType(t.ret, TRUE)
                                          ELSE encodeType(t.params[i], TRUE) + f[i - 1] * 32]
           F == CHOOSE f : Eq(f)
<1>4. Eq(g)
  <2>1. DOMAIN g = 0 .. n /\ g = [i \in 0 .. n |-> g[i]]
    BY <1>3
  <2>2. ASSUME NEW i \in 0 .. n
        PROVE  g[i] = IF i = 0 THEN encodeType(t.ret, TRUE)
                      ELSE encodeType(t.params[i], TRUE) + g[i - 1] * 32
    <3>1. i # 0 => i \in 1 .. n
      BY <1>1
    <3>2. QED
      BY <1>3, <3>1 DEF Digit
  <2> HIDE DEF Is
  <2>3. QED
    BY <2>1, <2>2
<1>5. Eq(F)
  <2> HIDE DEF Eq
  <2>1. QED
    BY <1>4
<1>6. Normal(t) = IF n >= 8 THEN 32 ELSE F[n]
  BY DEF Normal, encodeFunction, n
<1> HIDE DEF F, Is
<1>7. \A i \in 0 .. n : F[i] = IF i = 0 THEN encodeType(t.ret, TRUE)
                               ELSE encodeType(t.params[i], TRUE) + F[i - 1] * 32
  BY <1>5
<1>8. \A i \in 0 .. n : F[i] = g[i]
  <2> DEFINE Diff == {i \in 0 .. n : F[i] # g[i]}
  <2>1. SUFFICES ASSUME Diff # {}
                 PROVE  FALSE
    OBVIOUS
  <2>2. PICK i \in Diff : \A j \in Diff : i <= j
    <3>1. Diff \subseteq Nat
      BY <1>1
    <3> HIDE DEF Diff
    <3>2. QED
      BY <2>1, <3>1, LeastNat
  <2>3. F[i] = IF i = 0 THEN encodeType(t.ret, TRUE)
               ELSE encodeType(t.params[i], TRUE) + F[i - 1] * 32
    BY <1>7
  <2>4. i \in 0 .. n
    OBVIOUS
  <2>5. g[i] = IF i = 0 THEN encodeType(t.ret, TRUE)
               ELSE encodeType(t.params[i], TRUE) + g[i - 1] * 32
    BY <1>4, <2>4
  <2>6. i # 0
    BY <2>2, <2>3, <2>5
  <2>7. i - 1 \in 0 .. n /\ ~ (i <= i - 1)
    BY <1>1, <2>4, <2>6
  <2>8. F[i - 1] = g[i - 1]
    BY <2>2, <2>7
  <2>9. QED
    BY <2>2, <2>3, <2>5, <2>8
<1>9. F[n] = g[n]
  BY <1>1, <1>8
<1>10. IsEncoding(t, g)
  BY <1>3 DEF IsEncoding, Is, n
<1>11. QED
  BY <1>6, <1>9, <1>10 DEF n

LEMMA Base32 ==
  \A a, b \in 1 .. 30 : \A x, y \in Nat :
    a + x * 32 = b + y * 32 => a = b /\ x = y
OBVIOUS

\* What is read off an encoding, digit by digit.
LEMMA EncodingStep ==
  ASSUME NEW t, IsFunctionType(t), NEW E, IsEncoding(t, E)
  PROVE  /\ Len(t.params) \in Nat
         /\ E[0] \in 1 .. 30 /\ E[0] = Digit(t, 0)
         /\ \A i \in 0 .. Len(t.params) : E[i] \in Nat /\ E[i] >= 1
         /\ \A i \in 1 .. Len(t.params) :
              /\ E[i] = Digit(t, i) + E[i - 1] * 32
              /\ Digit(t, i) \in 1 .. 30 /\ E[i - 1] \in Nat /\ E[i - 1] >= 1
<1> DEFINE n == Len(t.params)
<1>1. n \in Nat
  BY DEF IsFunctionType
<1>2. \A i \in 0 .. n : Digit(t, i) \in 1 .. 30
  BY DigitRange
<1>3. /\ E \in [0 .. n -> Nat] /\ E[0] = Digit(t, 0)
      /\ \A i \in 1 .. n : E[i] = Digit(t, i) + E[i - 1] * 32
  BY DEF IsEncoding
<1> HIDE DEF n
<1>4. E[0] \in 1 .. 30
  <2>1. 0 \in 0 .. n
    BY <1>1
  <2>2. QED
    BY <1>2, <1>3, <2>1
<1>5. ASSUME NEW i \in 0 .. n
      PROVE  E[i] \in Nat /\ E[i] >= 1
  <2>1. CASE i = 0
    BY <1>4, <2>1
  <2>2. CASE i # 0
    <3>1. i \in 1 .. n /\ i - 1 \in 0 .. n
      BY <1>1, <2>2
    <3>2. /\ E[i] = Digit(t, i) + E[i - 1] * 32
          /\ E[i - 1] \in Nat /\ E[i] \in Nat /\ Digit(t, i) \in 1 .. 30
      BY <1>2, <1>3, <3>1
    <3>3. \A a \in 1 .. 30 : \A x \in Nat : a + x * 32 >= 1
      OBVIOUS
    <3>4. QED
      BY <3>2, <3>3
  <2>3. QED
    BY <2>1, <2>2
<1>6. ASSUME NEW i \in 1 .. n
      PROVE  /\ E[i] = Digit(t, i) + E[i - 1] * 32
             /\ Digit(t, i) \in 1 .. 30 /\ E[i - 1] \in Nat /\ E[i - 1] >= 1
  <2>1. i \in 0 .. n /\ i - 1 \in 0 .. n
    BY <1>1
  <2>2. QED
    BY <1>2, <1>3, <1>5, <2>1
<1>7. QED
  BY <1>1, <1>3, <1>4, <1>5, <1>6 DEF n

\* Equal numbers have as many digits, and the same ones.
LEMMA DigitsDetermined ==
  ASSUME NEW t, IsFunctionType(t), NEW E, IsEncoding(t, E),
         NEW u, IsFunctionType(u), NEW F, IsEncoding(u, F),
         Len(t.params) <= Len(u.params),
         E[Len(t.params)] = F[Len(u.params)]
  PROVE  /\ Len(t.params) = Len(u.params)
         /\ \A i \in 0 .. Len(t.params) : Digit(t, i) = Digit(u, i)
<1> DEFINE m == Len(t.params)
           n == Len(u.params)
           Bad == {k \in 0 .. m : E[m - k] # F[n - k]}
<1>1. /\ m \in Nat
      /\ E[0] \in 1 .. 30 /\ E[0] = Digit(t, 0)
      /\ \A i \in 1 .. m :
           /\ E[i] = Digit(t, i) + E[i - 1] * 32
           /\ Digit(t, i) \in 1 .. 30 /\ E[i - 1] \in Nat /\ E[i - 1] >= 1
  BY EncodingStep
<1>2. /\ n \in Nat
      /\ F[0] \in 1 .. 30 /\ F[0] = Digit(u, 0)
      /\ \A i \in 1 .. n :
           /\ F[i] = Digit(u, i) + F[i - 1] * 32
           /\ Digit(u, i) \in 1 .. 30 /\ F[i - 1] \in Nat /\ F[i - 1] >= 1
  BY EncodingStep
<1>3. m <= n /\ E[m] = F[n]
  OBVIOUS
<1> HIDE DEF m, n
<1>4. Bad = {}
  <2> SUFFICES ASSUME Bad # {}
               PROVE  FALSE
    OBVIOUS
  <2>1. PICK k \in Bad : \A j \in Bad : k <= j
    <3>1. Bad \subseteq Nat
      BY <1>1
    <3> HIDE DEF Bad
    <3>2. QED
      BY <3>1, LeastNat
  <2>2. k \in 0 .. m /\ E[m - k] # F[n - k]
    OBVIOUS
  <2>3. k # 0
    BY <1>1, <1>2, <1>3, <2>2
  <2> DEFINE i == m - k + 1
             j == n - k + 1
  <2>4. /\ k - 1 \in 0 .. m /\ ~ (k <= k - 1)
        /\ i \in 1 .. m /\ j \in 1 .. n
        /\ m - (k - 1) = i /\ n - (k - 1) = j /\ m - k = i - 1 /\ n - k = j - 1
    BY <1>1, <1>2, <1>3, <2>2, <2>3
  <2> HIDE DEF i, j
  <2>5. E[i] = F[j]
    <3>1. k - 1 \notin Bad
      BY <2>1, <2>4
    <3>2. E[m - (k - 1)] = F[n - (k - 1)]
      BY <2>4, <3>1
    <3>3. QED
      BY <2>4, <3>2
  <2>6. Digit(t, i) + E[i - 1] * 32 = Digit(u, j) + F[j - 1] * 32
    BY <1>1, <1>2, <2>4, <2>5
  <2>7. E[i - 1] = F[j - 1]
    <3> DEFINE a == Digit(t, i)
               b == Digit(u, j)
               x == E[i - 1]
               y == F[j - 1]
    <3>1. a \in 1 .. 30 /\ b \in 1 .. 30 /\ x \in Nat /\ y \in Nat
      BY <1>1, <1>2, <2>4
    <3>2. a + x * 32 = b + y * 32
      BY <2>6
    <3> HIDE DEF a, b, x, y
    <3>3. x = y
      BY <3>1, <3>2, Base32
    <3>4. QED
      BY <3>3 DEF x, y
  <2>8. QED
    BY <2>2, <2>4, <2>7
<1>5. \A k \in 0 .. m : E[m - k] = F[n - k]
  BY <1>4
<1> HIDE DEF Bad
<1>6. m = n
  <2> SUFFICES ASSUME m # n
               PROVE  FALSE
    OBVIOUS
  <2>1. E[0] = F[n - m]
    <3>1. m \in 0 .. m /\ m - m = 0
      BY <1>1
    <3>2. E[m - m] = F[n - m]
      BY <1>5, <3>1
    <3>3. QED
      BY <3>1, <3>2
  <2> DEFINE i == n - m
  <2>2. i \in 1 .. n
    BY <1>1, <1>2, <1>3
  <2> HIDE DEF i
  <2>3. F[i] = Digit(u, i) + F[i - 1] * 32
    BY <1>2, <2>2
  <2>4. \A a \in 1 .. 30 : \A x \in Nat : x >= 1 => a + x * 32 \notin 1 .. 30
    OBVIOUS
  <2>5. F[i] \notin 1 .. 30
    BY <1>2, <2>2, <2>3, <2>4
  <2>6. QED
    BY <1>1, <2>1, <2>5 DEF i
<1>7. ASSUME NEW i \in 0 .. m
      PROVE  E[i] = F[i]
  <2>1. m - i \in 0 .. m /\ m - (m - i) = i /\ n - (m - i) = i
    BY <1>1, <1>6
  <2>2. E[m - (m - i)] = F[n - (m - i)]
    BY <1>5, <2>1
  <2>3. QED
    BY <2>1, <2>2
<1>8. ASSUME NEW i \in 0 .. m
      PROVE  Digit(t, i) = Digit(u, i)
  <2>1. CASE i = 0
    BY <1>1, <1>2, <1>7, <2>1
  <2>2. CASE i # 0
    <3>1. i \in 1 .. m /\ i \in 1 .. n
      BY <1>1, <1>6, <2>2
    <3>2. Digit(t, i) + E[i - 1] * 32 = Digit(u, i) + F[i - 1] * 32
      BY <1>1, <1>2, <1>7, <3>1
    <3> DEFINE a == Digit(t, i)
               b == Digit(u, i)
               x == E[i - 1]
               y == F[i - 1]
    <3>3. a \in 1 .. 30 /\ b \in 1 .. 30 /\ x \in Nat /\ y \in Nat
      BY <1>1, <1>2, <3>1
    <3>4. a + x * 32 = b + y * 32
      BY <3>2
    <3> HIDE DEF a, b, x, y
    <3>5. a = b
      BY <3>3, <3>4, Base32
    <3>6. QED
      BY <3>5 DEF a, b
  <2>3. QED
    BY <2>1, <2>2
<1>9. QED
  BY <1>6, <1>8 DEF m, n

\* The same digits give the same number.
LEMMA DigitsDetermine ==
  ASSUME NEW t, IsFunctionType(t), NEW E, IsEncoding(t, E),
         NEW u, IsFunctionType(u), NEW F, IsEncoding(u, F),
         Len(t.params) = Len(u.params),
         \A i \in 0 .. Len(t.params) : Digit(t, i) = Digit(u, i)
  PROVE  E[Len(t.params)] = F[Len(u.params)]
<1> DEFINE m == Len(t.params)
           Diff == {i \in 0 .. m : E[i] # F[i]}
<1>1. /\ m \in Nat /\ E[0] = Digit(t, 0)
      /\ \A i \in 1 .. m : E[i] = Digit(t, i) + E[i - 1] * 32
  BY EncodingStep
<1>2. /\ F[0] = Digit(u, 0)
      /\ \A i \in 1 .. m : F[i] = Digit(u, i) + F[i - 1] * 32
  BY EncodingStep
<1>3. \A i \in 0 .. m : Digit(t, i) = Digit(u, i)
  OBVIOUS
<1> HIDE DEF m
<1>4. Diff = {}
  <2> SUFFICES ASSUME Diff # {}
               PROVE  FALSE
    OBVIOUS
  <2>1. PICK i \in Diff : \A j \in Diff : i <= j
    <3>1. Diff \subseteq Nat
      BY <1>1
    <3> HIDE DEF Diff
    <3>2. QED
      BY <3>1, LeastNat
  <2>2. i \in 0 .. m /\ E[i] # F[i]
    OBVIOUS
  <2>3. i # 0
    BY <1>1, <1>2, <1>3, <2>2
  <2>4. i \in 1 .. m /\ i - 1 \in 0 .. m /\ ~ (i <= i - 1)
    BY <1>1, <2>2, <2>3
  <2>5. E[i - 1] = F[i - 1]
    BY <2>1, <2>4
  <2>6. QED
    BY <1>1, <1>2, <1>3, <2>2, <2>4, <2>5
<1>5. m \in 0 .. m
  BY <1>1
<1>6. E[m] = F[m]
  BY <1>4, <1>5
<1>7. QED
  BY <1>6 DEF m

\* Types have the same number exactly if they have the same shape.
LEMMA SameNumber ==
  ASSUME NEW t, IsFunctionType(t), NEW u, IsFunctionType(u)
  PROVE  Normal(t) = Normal(u) <=> SameShape(t, u)
<1> DEFINE m == Len(t.params)
           n == Len(u.params)
<1>1. PICK E : /\ IsEncoding(t, E)
               /\ Normal(t) = IF m >= 8 THEN 32 ELSE E[m]
  BY EncodingExists
<1>2. PICK F : /\ IsEncoding(u, F)
               /\ Normal(u) = IF n >= 8 THEN 32 ELSE F[n]
  BY EncodingExists
<1>3. m \in Nat /\ n \in Nat /\ DOMAIN t.params = 1 .. m /\ DOMAIN u.params = 1 .. n
  BY DEF IsFunctionType
<1>4. ASSUME NEW v, IsFunctionType(v), NEW G, IsEncoding(v, G)
      PROVE  G[Len(v.params)] # 32
  <2> DEFINE l == Len(v.params)
  <2>1. /\ l \in Nat /\ G[0] \in 1 .. 30
        /\ \A i \in 1 .. l :
             /\ G[i] = Digit(v, i) + G[i - 1] * 32
             /\ Digit(v, i) \in 1 .. 30 /\ G[i - 1] \in Nat /\ G[i - 1] >= 1
    BY <1>4, EncodingStep
  <2> HIDE DEF l
  <2>2. CASE l = 0
    <3>1. G[l] # 32
      BY <2>1, <2>2
    <3>2. QED
      BY <3>1 DEF l
  <2>3. CASE l # 0
    <3>1. l \in 1 .. l
      BY <2>1, <2>3
    <3>2. \A a \in 1 .. 30 : \A x \in Nat : a + x * 32 # 32
      OBVIOUS
    <3>3. G[l] = Digit(v, l) + G[l - 1] * 32 /\ Digit(v, l) \in 1 .. 30 /\ G[l - 1] \in Nat
      BY <2>1, <3>1
    <3>4. G[l] # 32
      BY <3>2, <3>3
    <3>5. QED
      BY <3>4 DEF l
  <2>4. QED
    BY <2>2, <2>3
<1>5. m = n => ((\A i \in 0 .. m : Digit(t, i) = Digit(u, i)) <=>
                 (/\ Flat(t.ret) = Flat(u.ret)
                  /\ \A i \in DOMAIN t.params : Flat(t.params[i]) = Flat(u.params[i])))
  <2> SUFFICES ASSUME m = n
               PROVE  (\A i \in 0 .. m : Digit(t, i) = Digit(u, i)) <=>
                        (/\ Flat(t.ret) = Flat(u.ret)
                         /\ \A i \in DOMAIN t.params : Flat(t.params[i]) = Flat(u.params[i]))
    OBVIOUS
  <2>1. Digit(t, 0) = Digit(u, 0) <=> Flat(t.ret) = Flat(u.ret)
    <3>1. /\ Digit(t, 0) = encodeType(t.ret, TRUE) /\ Digit(u, 0) = encodeType(u.ret, TRUE)
          /\ IsType(t.ret) /\ IsType(u.ret)
      BY DEF Digit, IsFunctionType
    <3>2. QED
      BY <3>1, TypeDigit
  <2>2. ASSUME NEW i \in 1 .. m
        PROVE  Digit(t, i) = Digit(u, i) <=> Flat(t.params[i]) = Flat(u.params[i])
    <3>1. i \in DOMAIN t.params /\ i \in DOMAIN u.params /\ i # 0
      BY <1>3
    <3>2. /\ Digit(t, i) = encodeType(t.params[i], TRUE)
          /\ Digit(u, i) = encodeType(u.params[i], TRUE)
          /\ IsType(t.params[i]) /\ IsType(u.params[i])
      BY <3>1 DEF Digit, IsFunctionType
    <3>3. QED
      BY <3>2, TypeDigit
  <2> HIDE DEF m, n
  <2>3. \A i : i \in 0 .. m <=> (i = 0 \/ i \in 1 .. m)
    BY <1>3
  <2>4. (\A i \in 0 .. m : Digit(t, i) = Digit(u, i)) <=>
          (Digit(t, 0) = Digit(u, 0) /\ \A i \in 1 .. m : Digit(t, i) = Digit(u, i))
    BY <2>3, Zenon
  <2>5. QED
    BY <1>3, <2>1, <2>2, <2>4
<1>6. ASSUME m < 8, n < 8
      PROVE  Normal(t) = Normal(u) <=> SameShape(t, u)
  <2>1. Normal(t) = E[m] /\ Normal(u) = F[n]
    BY <1>1, <1>2, <1>3, <1>6
  <2>2. E[m] = F[n] => m = n /\ \A i \in 0 .. m : Digit(t, i) = Digit(u, i)
    <3> SUFFICES ASSUME E[m] = F[n]
                 PROVE  m = n /\ \A i \in 0 .. m : Digit(t, i) = Digit(u, i)
      OBVIOUS
    <3>1. CASE m <= n
      BY <1>1, <1>2, <3>1, DigitsDetermined
    <3>2. CASE n <= m
      <4>1. n = m /\ \A i \in 0 .. n : Digit(u, i) = Digit(t, i)
        BY <1>1, <1>2, <3>2, DigitsDetermined
      <4>2. QED
        BY <4>1
    <3>3. QED
      BY <1>3, <3>1, <3>2
  <2>3. (m = n /\ \A i \in 0 .. m : Digit(t, i) = Digit(u, i)) => E[m] = F[n]
    BY <1>1, <1>2, DigitsDetermine
  <2>4. SameShape(t, u) <=> (m = n /\ \A i \in 0 .. m : Digit(t, i) = Digit(u, i))
    <3>1. SameShape(t, u) <=>
            (/\ m = n /\ Flat(t.ret) = Flat(u.ret)
             /\ \A i \in DOMAIN t.params : Flat(t.params[i]) = Flat(u.params[i]))
      BY <1>3, <1>6 DEF SameShape
    <3>2. QED
      BY <1>5, <3>1
  <2>5. QED
    BY <2>1, <2>2, <2>3, <2>4
<1>7. ASSUME m >= 8, n >= 8
      PROVE  Normal(t) = Normal(u) <=> SameShape(t, u)
  BY <1>1, <1>2, <1>7 DEF SameShape
<1>8. ASSUME m >= 8, n < 8
      PROVE  Normal(t) # Normal(u) /\ ~ SameShape(t, u)
  <2>1. Normal(t) = 32 /\ Normal(u) = F[n]
    BY <1>1, <1>2, <1>3, <1>8
  <2>2. F[n] # 32
    BY <1>2, <1>4
  <2>3. QED
    BY <1>3, <1>8, <2>1, <2>2 DEF SameShape
<1>9. ASSUME m < 8, n >= 8
      PROVE  Normal(t) # Normal(u) /\ ~ SameShape(t, u)
  <2>1. Normal(u) = 32 /\ Normal(t) = E[m]
    BY <1>1, <1>2, <1>3, <1>9
  <2>2. E[m] # 32
    BY <1>1, <1>4
  <2>3. QED
    BY <1>3, <1>9, <2>1, <2>2 DEF SameShape
<1>10. (m < 8 \/ m >= 8) /\ (n < 8 \/ n >= 8)
  BY <1>3
<1>11. QED
  BY <1>6, <1>7, <1>8, <1>9, <1>10

------------------------------------------------------------------------------
(* Functions by their types                                                  *)

\* Functions are filed under the numbers of their types.
FiledInv ==
  /\ program \in Programs
  /\ pc = "callees" => todo \subseteq DOMAIN program.functions
  /\ \A k \in DOMAIN callees.Normal : \A f \in callees.Normal[k] :
       f \in DOMAIN program.functions /\ Normal(program.functions[f]) = k

LEMMA CalleeFiled ==
  ASSUME FiledInv, NEW f \in todo, AnalyseCallee(f)
  PROVE  FiledInv'
<1>1. /\ program' = program /\ pc' = "callees" /\ program \in Programs
      /\ f \in DOMAIN program.functions /\ todo' \subseteq DOMAIN program.functions
  BY DEF AnalyseCallee, FiledInv
<1>2. CASE callees' = callees
  BY <1>1, <1>2 DEF FiledInv
<1>3. CASE callees' = WithCallee(callees, f)
  <2> DEFINE n == Normal(program.functions[f])
  <2>1. callees'.Normal = AddTo(callees.Normal, n, f)
    BY <1>3 DEF WithCallee
  <2> HIDE DEF n
  <2>2. /\ DOMAIN callees'.Normal = DOMAIN callees.Normal \cup {n}
        /\ \A k \in DOMAIN callees'.Normal :
             callees'.Normal[k] = IF k = n THEN Lookup(callees.Normal, n) \cup {f}
                                  ELSE callees.Normal[k]
    BY <2>1 DEF AddTo, Merge
  <2>3. ASSUME NEW k \in DOMAIN callees'.Normal, NEW g \in callees'.Normal[k]
        PROVE  g \in DOMAIN program.functions /\ Normal(program.functions[g]) = k
    <3>1. CASE k = n /\ g = f
      BY <1>1, <3>1 DEF n
    <3>2. CASE ~ (k = n /\ g = f)
      <4>1. k \in DOMAIN callees.Normal /\ g \in callees.Normal[k]
        BY <2>2, <2>3, <3>2 DEF Lookup
      <4>2. QED
        BY <4>1 DEF FiledInv
    <3>3. QED
      BY <3>1, <3>2
  <2>4. QED
    BY <1>1, <2>3 DEF FiledInv
<1>4. QED
  BY <1>2, <1>3 DEF AnalyseCallee, functions

LEMMA FiledStep ==
  ASSUME FiledInv, [Next]_vars
  PROVE  FiledInv'
<1>1. ASSUME program' = program, callees' = callees,
             pc' = "callees" => (pc = "callees" /\ todo' = todo) \/
                                todo' = DOMAIN program.functions
      PROVE  FiledInv'
  BY <1>1 DEF FiledInv
<1>2. CASE StoreStep
  BY <1>1, <1>2, StoreFrame DEF functions
<1>3. CASE SortStep
  BY <1>1, <1>3, SortFrame DEF functions
<1>4. CASE BuildSubHierarchy
  BY <1>1, <1>4, BuildFrame DEF functions
<1>5. CASE MatchStep
  <2>1. ASSUME pc' = "callees"
        PROVE  todo' = DOMAIN program.functions
    <3>1. FindAllVFunctions
      BY <1>5, <2>1 DEF MatchStep, MatchTargetsInVTable, MatchTargetsInClass, ClaimIsland,
                        CollectIslands
    <3>2. QED
      BY <3>1 DEF FindAllVFunctions
  <2>2. QED
    BY <1>1, <1>5, <2>1, MatchFrame
<1>6. CASE NextLoop
  BY <1>1, <1>6, LoopFrame DEF Matching, functions
<1>7. CASE CallStep
  <2>1. CASE \E f \in todo : AnalyseCallee(f)
    BY <2>1, CalleeFiled
  <2>2. CASE (\E i \in todo : ProcessVirtualCallSite(i)) \/ \E s \in todo : ProcessIndirectCallSite(s)
    <3>1. callees' = callees /\ pc # "callees"
      BY <2>2 DEF ProcessVirtualCallSite, ProcessIndirectCallSite, functions
    <3>2. QED
      BY <1>1, <1>7, <3>1, CallFrame
  <2>3. QED
    BY <1>7, <2>1, <2>2 DEF CallStep
<1>8. CASE UNCHANGED vars
  BY <1>1, <1>8 DEF vars, functions
<1>9. QED
  BY <1>2, <1>3, <1>4, <1>5, <1>6, <1>7, <1>8, StepCases

\* Functions are in one set of IFCC exactly if their types have the same shape.
THEOREM TypesToldApart == Spec => []SignaturesSeparate
<1>1. Init => FiledInv
  <2> SUFFICES ASSUME Init
               PROVE  FiledInv
    OBVIOUS
  <2>1. DOMAIN callees.Normal = {}
    BY DEF Init, NoCallees, EmptyMap
  <2>2. QED
    BY <2>1 DEF Init, FiledInv
<1>2. FiledInv /\ [Next]_vars => FiledInv'
  BY FiledStep
<1>3. FiledInv => SignaturesSeparate
  <2> SUFFICES ASSUME FiledInv,
                      NEW f \in UNION {callees.Normal[k] : k \in DOMAIN callees.Normal},
                      NEW g \in UNION {callees.Normal[k] : k \in DOMAIN callees.Normal}
               PROVE  (\E k \in DOMAIN callees.Normal : {f, g} \subseteq callees.Normal[k])
                        <=> SameShape(program.functions[f], program.functions[g])
    BY DEF SignaturesSeparate
  <2>1. PICK k \in DOMAIN callees.Normal : f \in callees.Normal[k]
    OBVIOUS
  <2>2. PICK l \in DOMAIN callees.Normal : g \in callees.Normal[l]
    OBVIOUS
  <2>3. /\ f \in DOMAIN program.functions /\ IsFunctionType(program.functions[f])
        /\ g \in DOMAIN program.functions /\ IsFunctionType(program.functions[g])
    BY <2>1, <2>2, ProgramsAssumption DEF FiledInv, IsProgram
  <2>4. \A j \in DOMAIN callees.Normal :
          /\ f \in callees.Normal[j] => Normal(program.functions[f]) = j
          /\ g \in callees.Normal[j] => Normal(program.functions[g]) = j
    BY DEF FiledInv
  <2>5. (\E j \in DOMAIN callees.Normal : {f, g} \subseteq callees.Normal[j])
          <=> Normal(program.functions[f]) = Normal(program.functions[g])
    BY <2>1, <2>2, <2>4
  <2>6. QED
    BY <2>3, <2>5, SameNumber
<1>4. QED
  BY <1>1, <1>2, <1>3, PTL DEF Spec

------------------------------------------------------------------------------
(* The topological order                                                     *)

\* How far a class is from the classes without a base.
IsDepth(md, d) ==
  /\ d \in [DOMAIN md -> Nat]
  /\ \A v \in Described(md) : \A w \in Children(md, v) : d[v[1]] < d[w[1]]

Depth(md) == CHOOSE d : IsDepth(md, d)

LEMMA DepthExists ==
  ASSUME NEW md, IsMetadata(md)
  PROVE  IsDepth(md, Depth(md))
<1>1. PICK d \in [DOMAIN md -> 1 .. Cardinality(DOMAIN md)] :
        \A v \in Described(md) : \A p \in Parents(md, v) \cap Described(md) :
          d[p[1]] < d[v[1]]
  BY DEF IsMetadata
<1>2. Cardinality(DOMAIN md) \in Nat
  BY FS_CardinalityType DEF IsMetadata
<1>3. d \in [DOMAIN md -> Nat]
  BY <1>1, <1>2
<1>4. ASSUME NEW v \in Described(md), NEW w \in Children(md, v)
      PROVE  d[v[1]] < d[w[1]]
  BY <1>1 DEF Children
<1>5. IsDepth(md, d)
  BY <1>3, <1>4 DEF IsDepth
<1>6. QED
  BY <1>5 DEF Depth

\* Of vtables there is a first one.
LEMMA FirstVTableIn ==
  ASSUME NEW S, S \subseteq VTable, S # {}
  PROVE  FirstVTable(S) \in S
<1> DEFINE R == {NameRank[v[1]] : v \in S}
<1>1. \A v \in S : v[1] \in Class /\ v[2] \in Nat /\ NameRank[v[1]] \in Nat
  BY NameRankAssumption DEF VTable
<1>2. R \subseteq Nat /\ R # {}
  BY <1>1
<1> HIDE DEF R
<1>3. PICK r \in R : \A q \in R : r <= q
  BY <1>2, LeastNat
<1>4. PICK a \in S : r = NameRank[a[1]]
  BY <1>3 DEF R
<1> DEFINE N == {v[2] : v \in {w \in S : w[1] = a[1]}}
<1>5. N \subseteq Nat /\ N # {}
  BY <1>1, <1>4
<1> HIDE DEF N
<1>6. PICK n \in N : \A k \in N : n <= k
  BY <1>5, LeastNat
<1>7. PICK v \in S : v[1] = a[1] /\ v[2] = n
  BY <1>6 DEF N
<1>8. ASSUME NEW w \in S
      PROVE  VTableLeq(v, w)
  <2>1. NameRank[w[1]] \in R
    BY DEF R
  <2>2. r <= NameRank[w[1]]
    BY <1>3, <2>1
  <2>3. v[1] # w[1] => NameLeq(v[1], w[1])
    BY <1>4, <1>7, <2>2 DEF NameLeq
  <2>4. v[1] = w[1] => w[2] \in N
    BY <1>7 DEF N
  <2>5. v[1] = w[1] => v[2] <= w[2]
    BY <1>6, <1>7, <2>4
  <2>6. QED
    BY <2>3, <2>5 DEF VTableLeq
<1>9. QED
  BY <1>8 DEF FirstVTable

LEMMA FrontFacts ==
  ASSUME NEW S, NEW s \in Seq(S), s # <<>>
  PROVE  /\ Len(s) \in Nat /\ Len(s) >= 1
         /\ Last(s) = s[Len(s)] /\ Last(s) \in S
         /\ Front(s) \in Seq(S) /\ Len(Front(s)) = Len(s) - 1
         /\ DOMAIN Front(s) = 1 .. Len(s) - 1
         /\ \A i \in 1 .. Len(s) - 1 : Front(s)[i] = s[i]
<1> DEFINE n == Len(s)
<1>1. n \in Nat /\ n >= 1
  OBVIOUS
<1>2. /\ \A i \in 1 .. n : s[i] \in S
      /\ Front(s) = SubSeq(s, 1, n - 1) /\ Last(s) = s[n]
  BY DEF Front, Last
<1>3. /\ SubSeq(s, 1, n - 1) \in Seq(S) /\ Len(SubSeq(s, 1, n - 1)) = n - 1
      /\ DOMAIN SubSeq(s, 1, n - 1) = 1 .. n - 1
      /\ \A i \in 1 .. n - 1 : SubSeq(s, 1, n - 1)[i] = s[i]
  <2> DEFINE k == n - 1
             u == SubSeq(s, 1, k)
  <2>1. k \in Nat /\ \A i \in 1 .. k : i \in 1 .. n
    BY <1>1
  <2>2. \A i \in 1 .. k : s[i] \in S
    BY <1>2, <2>1
  <2> HIDE DEF k
  <2>3. u = [i \in 1 .. k |-> s[i]]
    BY <2>1
  <2>4. u \in Seq(S)
    BY <2>1, <2>2, <2>3
  <2>5. Len(u) = k /\ DOMAIN u = 1 .. k /\ \A i \in 1 .. k : u[i] = s[i]
    BY <2>1, <2>3
  <2>6. QED
    BY <2>4, <2>5 DEF k
<1> HIDE DEF n
<1>4. n \in 1 .. n
  BY <1>1
<1>5. QED
  BY <1>1, <1>2, <1>3, <1>4 DEF n

\* A sequence with an element put in front.
LEMMA InFront ==
  ASSUME NEW S, NEW s \in Seq(S), NEW c \in S
  PROVE  /\ <<c>> \o s \in Seq(S) /\ Len(<<c>> \o s) = Len(s) + 1
         /\ DOMAIN (<<c>> \o s) = 1 .. Len(s) + 1
         /\ (<<c>> \o s)[1] = c
         /\ \A i \in 1 .. Len(s) : (<<c>> \o s)[i + 1] = s[i]
         /\ ToSet(<<c>> \o s) = ToSet(s) \cup {c}
<1> DEFINE one == <<c>>
           new == one \o s
           m == Len(s)
<1>1. one \in Seq(S) /\ Len(one) = 1 /\ one[1] = c
  OBVIOUS
<1>2. m \in Nat /\ DOMAIN s = 1 .. m
  OBVIOUS
<1> HIDE DEF one
<1>3. /\ new \in Seq(S)
      /\ Len(new) = Len(one) + Len(s)
      /\ \A i \in 1 .. Len(one) + Len(s) :
           new[i] = IF i <= Len(one) THEN one[i] ELSE s[i - Len(one)]
  BY <1>1, ConcatProperties
<1> HIDE DEF new, m
<1>4. DOMAIN new = 1 .. Len(new)
  BY <1>3
<1>5. Len(new) = m + 1 /\ Len(one) + Len(s) = m + 1
  BY <1>1, <1>2, <1>3 DEF m
<1>6. \A i \in 1 .. m + 1 : new[i] = IF i <= 1 THEN one[i] ELSE s[i - 1]
  BY <1>1, <1>3, <1>5
<1>7. new[1] = c
  <2>1. 1 \in 1 .. m + 1
    BY <1>2
  <2>2. QED
    BY <1>1, <1>6, <2>1
<1>8. ASSUME NEW i \in 1 .. m
      PROVE  i + 1 \in 1 .. m + 1 /\ new[i + 1] = s[i]
  <2>1. i + 1 \in 1 .. m + 1 /\ ~ (i + 1 <= 1) /\ i + 1 - 1 = i
    BY <1>2
  <2> DEFINE k == i + 1
  <2>2. k \in 1 .. m + 1 /\ ~ (k <= 1) /\ k - 1 = i
    BY <2>1
  <2> HIDE DEF k
  <2>3. new[k] = s[i]
    BY <1>6, <2>2
  <2>4. QED
    BY <2>1, <2>3 DEF k
<1>9. ASSUME NEW i \in 1 .. m + 1
      PROVE  new[i] = c \/ \E j \in 1 .. m : new[i] = s[j]
  <2>1. CASE i = 1
    BY <1>7, <2>1
  <2>2. CASE i # 1
    <3>1. i - 1 \in 1 .. m /\ ~ (i <= 1)
      BY <1>2, <2>2
    <3>2. QED
      BY <1>6, <3>1
  <2>3. QED
    BY <2>1, <2>2
<1>10. ToSet(new) = ToSet(s) \cup {c}
  <2>1. ToSet(new) = {new[i] : i \in 1 .. m + 1} /\ ToSet(s) = {s[i] : i \in 1 .. m}
    BY <1>2, <1>4, <1>5 DEF ToSet
  <2>2. 1 \in 1 .. m + 1
    BY <1>2
  <2>3. QED
    BY <1>7, <1>8, <1>9, <2>1, <2>2
<1>11. QED
  BY <1>3, <1>4, <1>5, <1>7, <1>8, <1>10 DEF new, one, m

Frame == [class : Class, rest : SUBSET VTable]

\* The calls go down the hierarchy.
Deepens(md, calls) ==
  \A i, j \in DOMAIN calls :
    i < j => Depth(md)[calls[i].class] < Depth(md)[calls[j].class]

\* A child that a call need not visit any more was left, or the call is in its
\* visit, or about to begin it.
Followed(md, calls, order, next) ==
  \A i \in DOMAIN calls :
    /\ calls[i].class \in DOMAIN md
    /\ calls[i].rest \subseteq Children(md, <<calls[i].class, 0>>)
    /\ \A w \in Children(md, <<calls[i].class, 0>>) \ calls[i].rest :
         \/ w[1] \in ToSet(order)
         \/ i < Len(calls) /\ calls[i + 1].class = w[1]
         \/ i = Len(calls) /\ w[1] \in next

\* The children of primary vtables come later in the order than their parents.
Topological(md, order) ==
  \A i \in DOMAIN order : \A w \in Children(md, <<order[i], 0>>) :
    \E j \in DOMAIN order : i < j /\ order[j] = w[1]

SortState(md, calls, order, next) ==
  /\ calls \in Seq(Frame)
  /\ order \in Seq(DOMAIN md)
  /\ Deepens(md, calls)
  /\ Followed(md, calls, order, next)
  /\ Topological(md, order)

\* A class that was left already is not visited.
LEMMA VisitSkips ==
  ASSUME NEW md, NEW calls, NEW order, NEW c,
         SortState(md, calls, order, {c}), c \in ToSet(order)
  PROVE  SortState(md, calls, order, {})
BY DEF SortState, Followed

\* The visit of a class that is deeper than the calls so far.
LEMMA VisitPushes ==
  ASSUME NEW md, IsMetadata(md), NEW calls, NEW order, NEW c \in DOMAIN md,
         SortState(md, calls, order, {c}),
         \A i \in DOMAIN calls : Depth(md)[calls[i].class] < Depth(md)[c]
  PROVE  SortState(md, Append(calls, [class |-> c, rest |-> Children(md, <<c, 0>>)]),
                   order, {})
<1> DEFINE f == [class |-> c, rest |-> Children(md, <<c, 0>>)]
           n == Len(calls)
           new == Append(calls, f)
<1>1. calls \in Seq(Frame) /\ n \in Nat
  BY DEF SortState
<1>2. f \in Frame
  <2>1. c \in Class
    BY DEF IsMetadata
  <2>2. Children(md, <<c, 0>>) \subseteq VTable
    BY DescribedType DEF Children
  <2>3. QED
    BY <2>1, <2>2 DEF Frame
<1>3. f.class = c /\ f.rest = Children(md, <<c, 0>>)
  OBVIOUS
<1> HIDE DEF f
<1>4. /\ new \in Seq(Frame) /\ Len(new) = n + 1 /\ DOMAIN new = 1 .. n + 1
      /\ new[n + 1] = f
      /\ \A i \in 1 .. n : new[i] = calls[i]
  BY <1>1, <1>2
<1>5. DOMAIN calls = 1 .. n
  BY <1>1
<1> HIDE DEF new, n
<1>6. Deepens(md, new)
  <2> SUFFICES ASSUME NEW i \in DOMAIN new, NEW j \in DOMAIN new, i < j
               PROVE  Depth(md)[new[i].class] < Depth(md)[new[j].class]
    BY DEF Deepens
  <2>1. i \in 1 .. n
    BY <1>1, <1>4
  <2>2. CASE j = n + 1
    BY <1>3, <1>4, <1>5, <2>1, <2>2
  <2>3. CASE j # n + 1
    <3>1. j \in 1 .. n
      BY <1>1, <1>4, <2>3
    <3>2. QED
      BY <1>4, <1>5, <2>1, <3>1 DEF SortState, Deepens
  <2>4. QED
    BY <2>2, <2>3
<1>7. Followed(md, new, order, {})
  <2> SUFFICES ASSUME NEW i \in DOMAIN new
               PROVE  /\ new[i].class \in DOMAIN md
                      /\ new[i].rest \subseteq Children(md, <<new[i].class, 0>>)
                      /\ \A w \in Children(md, <<new[i].class, 0>>) \ new[i].rest :
                           \/ w[1] \in ToSet(order)
                           \/ i < Len(new) /\ new[i + 1].class = w[1]
    BY DEF Followed
  <2>1. CASE i = n + 1
    BY <1>3, <1>4, <2>1
  <2>2. CASE i # n + 1
    <3>1. i \in 1 .. n /\ i < Len(new) /\ new[i] = calls[i]
      BY <1>1, <1>4, <2>2
    <3>2. /\ calls[i].class \in DOMAIN md
          /\ calls[i].rest \subseteq Children(md, <<calls[i].class, 0>>)
          /\ \A w \in Children(md, <<calls[i].class, 0>>) \ calls[i].rest :
               \/ w[1] \in ToSet(order)
               \/ i < n /\ calls[i + 1].class = w[1]
               \/ i = n /\ w[1] = c
      BY <1>5, <3>1 DEF SortState, Followed, n
    <3>3. i < n => new[i + 1] = calls[i + 1]
      BY <1>1, <1>4, <3>1
    <3>4. i = n => new[i + 1].class = c
      BY <1>3, <1>4
    <3>5. QED
      BY <3>1, <3>2, <3>3, <3>4
  <2>3. QED
    BY <2>1, <2>2
<1>8. QED
  BY <1>4, <1>6, <1>7 DEF SortState, new, f

\* The last call turns to one of its children.
LEMMA ChildTaken ==
  ASSUME NEW md, IsMetadata(md), NEW calls, NEW order,
         SortState(md, calls, order, {}), calls # <<>>, NEW v \in Last(calls).rest
  PROVE  LET new == Append(Front(calls), [Last(calls) EXCEPT !.rest = @ \ {v}])
         IN  /\ SortState(md, new, order, {v[1]})
             /\ new # <<>> /\ new[1].class = calls[1].class
             /\ v[1] \in DOMAIN md
             /\ \A i \in DOMAIN new : Depth(md)[new[i].class] < Depth(md)[v[1]]
<1> DEFINE n == Len(calls)
           last == Last(calls)
           f == [last EXCEPT !.rest = @ \ {v}]
           front == Front(calls)
           new == Append(front, f)
<1>1. calls \in Seq(Frame)
  BY DEF SortState
<1>2. /\ n \in Nat /\ n >= 1 /\ last = calls[n] /\ last \in Frame
      /\ front \in Seq(Frame) /\ Len(front) = n - 1
      /\ \A i \in 1 .. n - 1 : front[i] = calls[i]
  BY <1>1, FrontFacts
<1>3. DOMAIN calls = 1 .. n /\ n \in DOMAIN calls
  BY <1>1, <1>2
<1>4. f \in Frame /\ f.class = last.class /\ f.rest = last.rest \ {v}
  BY <1>2 DEF Frame
<1>5. v \in last.rest
  OBVIOUS
<1> HIDE DEF f, front, last, n
<1>6. /\ new \in Seq(Frame) /\ Len(new) = n /\ DOMAIN new = 1 .. n
      /\ new[n] = f
      /\ \A i \in 1 .. n : i # n => i \in 1 .. n - 1 /\ new[i] = calls[i]
  BY <1>2, <1>4
<1> HIDE DEF new
<1>7. \A i \in 1 .. n : new[i].class = calls[i].class
  BY <1>2, <1>4, <1>6
<1>8. Deepens(md, new)
  BY <1>3, <1>6, <1>7 DEF SortState, Deepens
<1>9. /\ \A i \in 1 .. n :
           /\ calls[i].class \in DOMAIN md
           /\ calls[i].rest \subseteq Children(md, <<calls[i].class, 0>>)
           /\ \A w \in Children(md, <<calls[i].class, 0>>) \ calls[i].rest :
                w[1] \in ToSet(order) \/ (i < n /\ calls[i + 1].class = w[1])
  BY <1>3 DEF SortState, Followed, n
<1>10. ASSUME NEW i \in 1 .. n
       PROVE  /\ new[i].class \in DOMAIN md
              /\ new[i].rest \subseteq Children(md, <<new[i].class, 0>>)
              /\ \A w \in Children(md, <<new[i].class, 0>>) \ new[i].rest :
                   \/ w[1] \in ToSet(order)
                   \/ i < n /\ new[i + 1].class = w[1]
                   \/ i = n /\ w[1] \in {v[1]}
  <2>1. CASE i = n
    <3>1. new[i] = f /\ calls[i] = last
      BY <1>2, <1>6, <2>1
    <3>2. /\ last.class \in DOMAIN md
          /\ last.rest \subseteq Children(md, <<last.class, 0>>)
          /\ \A w \in Children(md, <<last.class, 0>>) \ last.rest :
               w[1] \in ToSet(order) \/ (i < n /\ calls[i + 1].class = w[1])
      BY <1>9, <3>1
    <3>3. ~ (i < n)
      BY <1>2, <2>1
    <3>4. QED
      BY <1>4, <2>1, <3>1, <3>2, <3>3
  <2>2. CASE i # n
    <3>1. new[i] = calls[i] /\ i + 1 \in 1 .. n
      BY <1>2, <1>6, <2>2
    <3>2. new[i + 1].class = calls[i + 1].class
      BY <1>7, <3>1
    <3>3. QED
      BY <1>9, <3>1, <3>2
  <2>3. QED
    BY <2>1, <2>2
<1>11. Followed(md, new, order, {v[1]})
  BY <1>6, <1>10 DEF Followed
<1>12. SortState(md, new, order, {v[1]})
  BY <1>6, <1>8, <1>11 DEF SortState
<1>13. 1 \in 1 .. n /\ new # <<>>
  BY <1>2, <1>6
<1>14. v \in Children(md, <<last.class, 0>>) /\ last.class \in DOMAIN md
  BY <1>2, <1>3, <1>5, <1>9
<1>15. v \in Described(md) /\ <<last.class, 0>> \in Described(md)
  BY <1>14, PrimaryVTable DEF Children, Described
<1>16. v[1] \in DOMAIN md
  BY <1>15, OwnVTableType DEF Described
<1>17. /\ \A i \in 1 .. n : Depth(md)[calls[i].class] \in Nat
       /\ Depth(md)[v[1]] \in Nat
       /\ Depth(md)[last.class] < Depth(md)[v[1]]
  BY <1>9, <1>14, <1>15, <1>16, DepthExists DEF IsDepth
<1>18. ASSUME NEW i \in 1 .. n
       PROVE  Depth(md)[new[i].class] < Depth(md)[v[1]]
  <2>1. new[i].class = calls[i].class
    BY <1>7
  <2>2. CASE i = n
    BY <1>2, <1>17, <2>1, <2>2
  <2>3. CASE i # n
    <3>1. i < n
      BY <1>2, <2>3
    <3>2. Depth(md)[calls[i].class] < Depth(md)[last.class]
      BY <1>2, <1>3, <3>1 DEF SortState, Deepens
    <3> DEFINE x == Depth(md)[calls[i].class]
               y == Depth(md)[last.class]
               z == Depth(md)[v[1]]
    <3>3. x \in Nat /\ y \in Nat /\ z \in Nat /\ x < y /\ y < z
      BY <1>2, <1>3, <1>17, <3>2
    <3> HIDE DEF x, y, z
    <3>4. x < z
      BY <3>3
    <3>5. QED
      BY <2>1, <3>4 DEF x, z
  <2>4. QED
    BY <2>2, <2>3
<1>19. new[1].class = calls[1].class
  BY <1>7, <1>13
<1>20. QED
  BY <1>6, <1>12, <1>13, <1>16, <1>18, <1>19 DEF new, front, f, last

\* The last call is over.
LEMMA LeaveKeeps ==
  ASSUME NEW md, NEW calls, NEW order,
         SortState(md, calls, order, {}), calls # <<>>, Last(calls).rest = {}
  PROVE  SortState(md, Front(calls), <<Last(calls).class>> \o order, {})
<1> DEFINE n == Len(calls)
           m == Len(order)
           c == Last(calls).class
           front == Front(calls)
           new == <<c>> \o order
<1>1. calls \in Seq(Frame) /\ order \in Seq(DOMAIN md) /\ m \in Nat /\ DOMAIN order = 1 .. m
  BY DEF SortState
<1>2. /\ n \in Nat /\ n >= 1 /\ Last(calls) = calls[n]
      /\ front \in Seq(Frame) /\ Len(front) = n - 1 /\ DOMAIN front = 1 .. n - 1
      /\ \A i \in 1 .. n - 1 : front[i] = calls[i]
  BY <1>1, FrontFacts
<1>3. DOMAIN calls = 1 .. n /\ n \in DOMAIN calls
  BY <1>1, <1>2
<1>4. /\ \A i \in 1 .. n :
           /\ calls[i].class \in DOMAIN md
           /\ calls[i].rest \subseteq Children(md, <<calls[i].class, 0>>)
           /\ \A w \in Children(md, <<calls[i].class, 0>>) \ calls[i].rest :
                w[1] \in ToSet(order) \/ (i < n /\ calls[i + 1].class = w[1])
  BY <1>3 DEF SortState, Followed, n
<1>5. c = calls[n].class /\ calls[n].rest = {}
  BY <1>2
<1>6. c \in DOMAIN md /\ \A w \in Children(md, <<c, 0>>) : w[1] \in ToSet(order)
  BY <1>2, <1>3, <1>4, <1>5
<1> HIDE DEF c, n, front
<1>7. c \in DOMAIN md
  BY <1>6
<1>8. /\ new \in Seq(DOMAIN md) /\ Len(new) = m + 1 /\ DOMAIN new = 1 .. m + 1
      /\ new[1] = c
      /\ \A i \in 1 .. m : new[i + 1] = order[i]
  BY <1>1, <1>7, InFront
<1> HIDE DEF new, m
<1>9. \A x : x \in ToSet(order) => \E j \in 1 .. m : order[j] = x
  BY <1>1 DEF ToSet
<1>10. \A x : x \in ToSet(order) => x \in ToSet(new) /\ \E j \in DOMAIN new : 1 < j /\ new[j] = x
  <2> SUFFICES ASSUME NEW x \in ToSet(order)
               PROVE  x \in ToSet(new) /\ \E j \in DOMAIN new : 1 < j /\ new[j] = x
    OBVIOUS
  <2>1. PICK j \in 1 .. m : order[j] = x
    BY <1>9
  <2>2. j + 1 \in DOMAIN new /\ 1 < j + 1 /\ new[j + 1] = x
    BY <1>1, <1>8, <2>1
  <2>3. QED
    BY <2>2 DEF ToSet
<1>11. c \in ToSet(new)
  <2>1. 1 \in DOMAIN new
    BY <1>1, <1>8
  <2>2. QED
    BY <1>8, <2>1 DEF ToSet
<1>12. Topological(md, new)
  <2> SUFFICES ASSUME NEW i \in DOMAIN new, NEW w \in Children(md, <<new[i], 0>>)
               PROVE  \E j \in DOMAIN new : i < j /\ new[j] = w[1]
    BY DEF Topological
  <2>1. CASE i = 1
    BY <1>6, <1>8, <1>10, <2>1
  <2>2. CASE i # 1
    <3> DEFINE k == i - 1
    <3>1. k \in 1 .. m /\ k + 1 = i
      BY <1>1, <1>8, <2>2
    <3>2. new[i] = order[k]
      BY <1>8, <3>1
    <3>3. w \in Children(md, <<order[k], 0>>)
      BY <3>2
    <3>4. PICK j \in DOMAIN order : k < j /\ order[j] = w[1]
      BY <1>1, <3>1, <3>3 DEF SortState, Topological
    <3>5. j + 1 \in DOMAIN new /\ i < j + 1 /\ new[j + 1] = w[1]
      BY <1>1, <1>8, <3>1, <3>4
    <3>6. QED
      BY <3>5
  <2>3. QED
    BY <2>1, <2>2
<1>13. Deepens(md, front)
  <2>1. \A i \in 1 .. n - 1 : i \in DOMAIN calls /\ front[i] = calls[i]
    BY <1>2, <1>3
  <2>2. QED
    BY <1>2, <2>1 DEF SortState, Deepens
<1>14. ASSUME NEW i \in DOMAIN front
       PROVE  /\ front[i].class \in DOMAIN md
              /\ front[i].rest \subseteq Children(md, <<front[i].class, 0>>)
              /\ \A w \in Children(md, <<front[i].class, 0>>) \ front[i].rest :
                   \/ w[1] \in ToSet(new)
                   \/ i < Len(front) /\ front[i + 1].class = w[1]
  <2>1. i \in 1 .. n - 1 /\ i \in 1 .. n /\ i < n /\ front[i] = calls[i]
    BY <1>2
  <2>2. i = n - 1 => calls[i + 1].class = c
    <3>1. i = n - 1 => i + 1 = n
      BY <1>2
    <3>2. QED
      BY <1>5, <3>1
  <2>3. i # n - 1 => i < Len(front) /\ front[i + 1] = calls[i + 1]
    <3>1. i # n - 1 => i < n - 1 /\ i + 1 \in 1 .. n - 1
      BY <1>2, <2>1
    <3>2. QED
      BY <1>2, <3>1
  <2>4. QED
    BY <1>4, <1>10, <1>11, <2>1, <2>2, <2>3
<1>15. Followed(md, front, new, {})
  BY <1>14 DEF Followed
<1>16. QED
  BY <1>2, <1>8, <1>12, <1>13, <1>15 DEF SortState, new, front, c

\* The children of any vtable of a class come later than the class.
LEMMA ChildrenLater ==
  ASSUME NEW md, IsMetadata(md), ExtendsPrimaries(md),
         NEW order \in Seq(DOMAIN md), Topological(md, order),
         NEW i \in DOMAIN order, NEW v \in OwnVTables(md, order[i]),
         NEW w \in Children(md, v)
  PROVE  \E j \in DOMAIN order : i < j /\ order[j] = w[1]
<1>1. order[i] \in DOMAIN md
  OBVIOUS
<1>2. v[1] = order[i]
  BY <1>1, OwnVTableType
<1>3. w \in Described(md) /\ v \in Parents(md, w)
  BY DEF Children
<1>4. PICK d \in DOMAIN md : w \in OwnVTables(md, d)
  BY <1>3 DEF Described
<1>5. w[1] = d
  BY <1>4, OwnVTableType
<1> DEFINE extended == UNION {Parents(md, u) : u \in OwnVTables(md, d)}
<1>6. \A p \in extended : <<p[1], 0>> \in extended
  BY <1>4 DEF ExtendsPrimaries
<1>7. v \in extended
  BY <1>3, <1>4
<1>8. <<v[1], 0>> \in extended
  BY <1>6, <1>7
<1>9. PICK u \in OwnVTables(md, d) : <<order[i], 0>> \in Parents(md, u)
  BY <1>2, <1>8
<1>10. u[1] = d /\ u \in Children(md, <<order[i], 0>>)
  BY <1>4, <1>9, OwnVTableType DEF Children, Described
<1>11. QED
  BY <1>5, <1>10 DEF Topological

\* Every class is reached from the roots.
LEMMA AllSorted ==
  ASSUME NEW md, IsMetadata(md), ExtendsPrimaries(md), NamedParents(md) \subseteq Described(md),
         NEW order \in Seq(DOMAIN md), Topological(md, order),
         RootClasses(md) \subseteq ToSet(order)
  PROVE  DOMAIN md = ToSet(order)
<1> DEFINE S == {v \in Described(md) : v[1] \in ToSet(order)}
<1>1. ASSUME NEW v \in Described(md), IsRoot(md, v)
      PROVE  v \in S
  <2>1. PICK c \in DOMAIN md : v \in OwnVTables(md, c)
    BY <1>1 DEF Described
  <2>2. v[1] = c /\ c \in RootClasses(md)
    BY <1>1, <2>1, OwnVTableType DEF RootClasses
  <2>3. QED
    BY <2>2
<1>2. ASSUME NEW v \in S, NEW w \in Children(md, v)
      PROVE  w \in S
  <2>1. PICK i \in DOMAIN order : v[1] = order[i]
    BY DEF ToSet
  <2>2. v \in OwnVTables(md, order[i])
    BY <2>1, OwnVTableType DEF Described
  <2>3. PICK j \in DOMAIN order : order[j] = w[1]
    BY <1>2, <2>2, ChildrenLater
  <2>4. w \in Described(md) /\ w[1] \in ToSet(order)
    BY <2>3 DEF ToSet, Children
  <2>5. QED
    BY <2>4
<1> HIDE DEF S
<1>3. Described(md) \subseteq S
  BY <1>1, <1>2, ForestReached
<1>4. ASSUME NEW c \in DOMAIN md
      PROVE  c \in ToSet(order)
  <2>1. <<c, 0>> \in Described(md)
    BY PrimaryVTable DEF Described
  <2>2. <<c, 0>> \in S
    BY <1>3, <2>1
  <2>3. QED
    BY <2>2 DEF S
<1>5. ToSet(order) \subseteq DOMAIN md
  BY DEF ToSet
<1>6. QED
  BY <1>4, <1>5

------------------------------------------------------------------------------
(* What is filed below vtables and classes                                   *)

ClassesBelow(c) == {w[1] : w \in UNION {DefinedBelow(v) : v \in OwnVTables(metadata, c)}}

\* What is filed is exact.
Exact ==
  /\ VTableSubHierarchy = [v \in DOMAIN VTableSubHierarchy |-> VTableSubHierarchy[v]]
  /\ ClassSubHierarchy = [c \in DOMAIN ClassSubHierarchy |-> ClassSubHierarchy[c]]
  /\ DOMAIN VTableSubHierarchy \subseteq Described(metadata)
  /\ \A v \in DOMAIN VTableSubHierarchy : VTableSubHierarchy[v] = DefinedBelow(v)
  /\ DOMAIN ClassSubHierarchy \subseteq Classes
  /\ \A c \in DOMAIN ClassSubHierarchy : ClassSubHierarchy[c] = ClassesBelow(c)

\* The roots are in the order, or still to be visited.
RootsSorted ==
  /\ todo \subseteq cha.roots
  /\ \A r \in cha.roots \ todo :
       r \in ToSet(ordered) \/ (frames # <<>> /\ frames[1].class = r)

\* The children of a class to come are filed or come before it, from the end.
\* A class that does not come is filed.
Remaining ==
  /\ ordered \in Seq(Classes)
  /\ \A i \in DOMAIN ordered : \A v \in OwnVTables(metadata, ordered[i]) :
       \A w \in Children(metadata, v) :
         \/ w \in DOMAIN VTableSubHierarchy
         \/ \E j \in DOMAIN ordered : i < j /\ ordered[j] = w[1]
  /\ \A c \in Classes \ ToSet(ordered) :
       OwnVTables(metadata, c) \subseteq DOMAIN VTableSubHierarchy /\ c \in DOMAIN ClassSubHierarchy

IsInput ==
  /\ program \in Programs
  /\ cha = [children |-> [v \in Described(metadata) |-> Children(metadata, v)],
            roots    |-> RootClasses(metadata)]

HierarchiesInv ==
  /\ IsInput
  /\ pc # "aborted"
  /\ Exact
  /\ pc = "sort" => /\ SortState(metadata, frames, ordered, {})
                    /\ RootsSorted
                    /\ DOMAIN VTableSubHierarchy = {} /\ DOMAIN ClassSubHierarchy = {}
  /\ pc # "sort" => frames = <<>>
  /\ pc = "hierarchies" => Remaining
  /\ pc \notin {"sort", "hierarchies"} =>
       /\ ordered = <<>>
       /\ DOMAIN VTableSubHierarchy = Described(metadata) /\ DOMAIN ClassSubHierarchy = Classes

LEMMA InputFacts ==
  ASSUME IsInput
  PROVE  /\ IsMetadata(metadata) /\ ExtendsPrimaries(metadata)
         /\ NamedParents(metadata) \subseteq Described(metadata)
         /\ VTables = Described(metadata)
         /\ \A v \in Described(metadata) : ChildrenOf(v) = Children(metadata, v)
         /\ cha.roots = RootClasses(metadata) /\ cha.roots \subseteq Classes
<1>1. IsProgram(program)
  BY ProgramsAssumption DEF IsInput
<1>2. /\ cha.children = [v \in Described(metadata) |-> Children(metadata, v)]
      /\ cha.roots = RootClasses(metadata)
  BY DEF IsInput
<1>3. QED
  BY <1>1, <1>2 DEF IsProgram, metadata, VTables, ChildrenOf, RootClasses, Classes

LEMMA HierarchiesInit ==
  ASSUME Init
  PROVE  HierarchiesInv
<1>1. IsInput
  BY DEF Init, IsInput
<1>2. DOMAIN VTableSubHierarchy = {} /\ DOMAIN ClassSubHierarchy = {}
  BY DEF Init, EmptyMap
<1>3. pc = "sort" /\ frames = <<>> /\ ordered = <<>> /\ todo = cha.roots
  BY DEF Init
<1>4. Exact
  BY <1>2 DEF Exact, Init, EmptyMap
<1>5. SortState(metadata, frames, ordered, {})
  BY <1>3 DEF SortState, Deepens, Followed, Topological
<1>6. RootsSorted
  BY <1>3 DEF RootsSorted
<1>7. QED
  BY <1>1, <1>2, <1>3, <1>4, <1>5, <1>6 DEF HierarchiesInv

\* Visiting c from the calls so far.
LEMMA HelperKeeps ==
  ASSUME IsInput, NEW callers, NEW c \in Classes,
         SortState(metadata, callers, ordered, {c}), TopoSortHelper(c, callers),
         \A i \in DOMAIN callers : Depth(metadata)[callers[i].class] < Depth(metadata)[c],
         \A i \in DOMAIN frames : frames[i].class # c
  PROVE  /\ SortState(metadata, frames', ordered, {})
         /\ pc' = pc
         /\ callers # <<>> => frames' # <<>> /\ frames'[1].class = callers[1].class
         /\ callers = <<>> => c \in ToSet(ordered) \/ (frames' # <<>> /\ frames'[1].class = c)
<1> USE DEF Classes
<1>1. CASE c \in ToSet(ordered)
  <2>1. frames' = callers /\ pc' = pc
    BY <1>1 DEF TopoSortHelper
  <2>2. QED
    BY <1>1, <2>1, VisitSkips
<1>2. CASE c \notin ToSet(ordered)
  <2> DEFINE f == [class |-> c, rest |-> Children(metadata, <<c, 0>>)]
  <2>1. <<c, 0>> \in Described(metadata)
    BY InputFacts, PrimaryVTable DEF Described
  <2>2. frames' = Append(callers, f) /\ pc' = pc
    BY <1>2, <2>1, InputFacts DEF TopoSortHelper
  <2>3. SortState(metadata, frames', ordered, {})
    BY <2>2, InputFacts, VisitPushes
  <2>4. callers \in Seq(Frame) /\ f.class = c
    BY DEF SortState
  <2> HIDE DEF f
  <2>5. frames' # <<>>
    BY <2>2, <2>4
  <2>6. callers = <<>> => frames'[1] = f
    BY <2>2
  <2>7. callers # <<>> => frames'[1] = callers[1]
    BY <2>2, <2>4
  <2>8. QED
    BY <2>2, <2>3, <2>4, <2>5, <2>6, <2>7
<1>3. QED
  BY <1>1, <1>2

LEMMA SameInput ==
  ASSUME program' = program, cha' = cha
  PROVE  /\ metadata' = metadata /\ Classes' = Classes
         /\ IsInput => IsInput'
         /\ \A v : DefinedBelow(v)' = DefinedBelow(v)
         /\ \A c : ClassesBelow(c)' = ClassesBelow(c)
<1>1. metadata' = metadata
  BY DEF metadata
<1>2. \A v : DefinedBelow(v)' = DefinedBelow(v)
  BY <1>1 DEF DefinedBelow, isDefined
<1>3. \A c : ClassesBelow(c)' = ClassesBelow(c)
  BY <1>1, <1>2 DEF ClassesBelow
<1>4. QED
  BY <1>1, <1>2, <1>3 DEF IsInput, Classes

LEMMA SameExact ==
  ASSUME program' = program, cha' = cha, hierarchies' = hierarchies, Exact
  PROVE  Exact'
<1>1. VTableSubHierarchy' = VTableSubHierarchy /\ ClassSubHierarchy' = ClassSubHierarchy
  BY DEF hierarchies
<1>2. metadata' = metadata /\ Classes' = Classes
  BY SameInput
<1>3. \A v \in DOMAIN VTableSubHierarchy : VTableSubHierarchy'[v] = DefinedBelow(v)'
  BY <1>1, SameInput DEF Exact
<1>4. \A c \in DOMAIN ClassSubHierarchy : ClassSubHierarchy'[c] = ClassesBelow(c)'
  BY <1>1, SameInput DEF Exact
<1>5. QED
  BY <1>1, <1>2, <1>3, <1>4 DEF Exact

\* A step of the sort keeps it topological and meets no class that is being visited.
LEMMA SortKeeps ==
  ASSUME HierarchiesInv, SortStep
  PROVE  HierarchiesInv'
<1>1. /\ program' = program /\ cha' = cha /\ hierarchies' = hierarchies
      /\ pc = "sort" /\ pc' \in {"sort", "aborted"}
  BY SortFrame DEF hierarchies
<1>2. IsInput /\ IsInput' /\ Exact' /\ metadata' = metadata
  BY <1>1, SameInput, SameExact DEF HierarchiesInv
<1>3. /\ SortState(metadata, frames, ordered, {}) /\ RootsSorted
      /\ VTableSubHierarchy' = VTableSubHierarchy /\ ClassSubHierarchy' = ClassSubHierarchy
      /\ DOMAIN VTableSubHierarchy = {} /\ DOMAIN ClassSubHierarchy = {}
  BY <1>1 DEF HierarchiesInv, hierarchies
<1>4. /\ IsMetadata(metadata)
      /\ cha.roots \subseteq Classes
  BY <1>2, InputFacts
<1>5. ASSUME pc' = "sort", SortState(metadata, frames', ordered', {}), RootsSorted'
      PROVE  HierarchiesInv'
  BY <1>1, <1>2, <1>3, <1>5 DEF HierarchiesInv
<1>6. ASSUME NEW r \in todo, VisitRoot(r)
      PROVE  HierarchiesInv'
  <2>1. /\ frames = <<>> /\ todo' = todo \ {r} /\ TopoSortHelper(r, <<>>)
        /\ ordered' = ordered
    BY <1>6 DEF VisitRoot
  <2>2. r \in Classes
    BY <1>3, <1>4 DEF RootsSorted
  <2>3. SortState(metadata, <<>>, ordered, {r})
    BY <1>3, <2>1 DEF SortState, Followed, Deepens
  <2>4. /\ SortState(metadata, frames', ordered, {}) /\ pc' = pc
        /\ r \in ToSet(ordered) \/ (frames' # <<>> /\ frames'[1].class = r)
    BY <1>2, <2>1, <2>2, <2>3, HelperKeeps
  <2>5. RootsSorted'
    BY <1>1, <1>3, <2>1, <2>4 DEF RootsSorted
  <2>6. QED
    BY <1>1, <1>5, <2>1, <2>4, <2>5
<1>7. CASE VisitChild
  <2> DEFINE v == FirstVTable(Last(frames).rest)
             callers == Append(Front(frames), [Last(frames) EXCEPT !.rest = @ \ {v}])
  <2>1. /\ frames # <<>> /\ Last(frames).rest # {} /\ TopoSortHelper(v[1], callers)
        /\ ordered' = ordered /\ todo' = todo
    BY <1>7 DEF VisitChild
  <2>2. v \in Last(frames).rest
    <3>1. frames \in Seq(Frame)
      BY <1>3 DEF SortState
    <3>2. Last(frames) \in Frame
      BY <2>1, <3>1, FrontFacts
    <3>3. Last(frames).rest \subseteq VTable
      BY <3>2 DEF Frame
    <3>4. QED
      BY <2>1, <3>3, FirstVTableIn
  <2> HIDE DEF v
  <2>3. /\ SortState(metadata, callers, ordered, {v[1]})
        /\ callers # <<>> /\ callers[1].class = frames[1].class
        /\ v[1] \in Classes
        /\ \A i \in DOMAIN callers : Depth(metadata)[callers[i].class] < Depth(metadata)[v[1]]
    BY <1>3, <1>4, <2>1, <2>2, ChildTaken DEF Classes
  <2>4. \A i \in DOMAIN frames : frames[i].class # v[1]
    <3> SUFFICES ASSUME NEW i \in DOMAIN frames, frames[i].class = v[1]
                 PROVE  FALSE
      OBVIOUS
    <3> DEFINE n == Len(frames)
    <3>1. /\ frames \in Seq(Frame) /\ n \in Nat /\ n >= 1 /\ DOMAIN frames = 1 .. n
          /\ Front(frames) \in Seq(Frame) /\ Len(Front(frames)) = n - 1
          /\ \A j \in 1 .. n - 1 : Front(frames)[j] = frames[j]
          /\ Last(frames) = frames[n] /\ Last(frames) \in Frame
      <4>1. frames \in Seq(Frame)
        BY <1>3 DEF SortState
      <4>2. QED
        BY <2>1, <4>1, FrontFacts
    <3> DEFINE f == [Last(frames) EXCEPT !.rest = @ \ {v}]
               front == Front(frames)
    <3>2. f \in Frame /\ f.class = Last(frames).class
      BY <3>1 DEF Frame
    <3> HIDE DEF f, front, n
    <3>3. callers = Append(front, f)
      BY DEF front, f
    <3>4. /\ DOMAIN callers = 1 .. n /\ callers[n] = f
          /\ \A j \in 1 .. n : j # n => j \in 1 .. n - 1 /\ callers[j] = front[j]
      BY <3>1, <3>2, <3>3 DEF front
    <3>5. callers[i].class = frames[i].class /\ i \in DOMAIN callers
      BY <3>1, <3>2, <3>4 DEF front
    <3>6. Depth(metadata)[v[1]] < Depth(metadata)[v[1]]
      BY <2>3, <3>5
    <3>7. Depth(metadata)[v[1]] \in Nat
      BY <1>4, <2>3, DepthExists DEF IsDepth, Classes
    <3>8. QED
      BY <3>6, <3>7
  <2> HIDE DEF callers
  <2>5. /\ SortState(metadata, frames', ordered, {}) /\ pc' = pc
        /\ frames' # <<>> /\ frames'[1].class = frames[1].class
    BY <1>2, <2>1, <2>3, <2>4, HelperKeeps DEF callers
  <2>6. RootsSorted'
    BY <1>1, <1>3, <2>1, <2>5 DEF RootsSorted
  <2>7. QED
    BY <1>1, <1>5, <2>1, <2>5, <2>6
<1>8. CASE LeaveClass
  <2>1. /\ frames # <<>> /\ Last(frames).rest = {}
        /\ ordered' = <<Last(frames).class>> \o ordered
        /\ frames' = Front(frames) /\ todo' = todo /\ pc' = pc
    BY <1>8 DEF LeaveClass
  <2>2. SortState(metadata, frames', ordered', {})
    BY <1>3, <2>1, LeaveKeeps
  <2> DEFINE c == Last(frames).class
             n == Len(frames)
  <2>3. /\ frames \in Seq(Frame) /\ n \in Nat /\ n >= 1
        /\ Last(frames) = frames[n]
        /\ frames' \in Seq(Frame) /\ Len(frames') = n - 1
        /\ \A j \in 1 .. n - 1 : frames'[j] = frames[j]
    <3>1. frames \in Seq(Frame)
      BY <1>3 DEF SortState
    <3>2. QED
      BY <2>1, <3>1, FrontFacts
  <2>4. ordered' \in Seq(Classes) /\ ordered \in Seq(Classes)
    BY <1>3, <2>2 DEF SortState, Classes
  <2>5. ToSet(ordered') = ToSet(ordered) \cup {c}
    <3>1. c \in Classes
      <4>1. n \in DOMAIN frames
        BY <2>3
      <4>2. Followed(metadata, frames, ordered, {})
        BY <1>3 DEF SortState
      <4>3. \A i \in DOMAIN frames : frames[i].class \in DOMAIN metadata
        BY <4>2 DEF Followed
      <4>4. QED
        BY <2>3, <4>1, <4>3 DEF Classes
    <3> HIDE DEF c
    <3>2. ToSet(<<c>> \o ordered) = ToSet(ordered) \cup {c}
      BY <2>4, <3>1, InFront
    <3>3. QED
      BY <2>1, <3>2 DEF c
  <2>6. CASE n = 1
    <3>1. c = frames[1].class
      BY <2>3, <2>6
    <3>2. RootsSorted'
      BY <1>1, <1>3, <2>1, <2>5, <3>1 DEF RootsSorted
    <3>3. QED
      BY <1>1, <1>5, <2>1, <2>2, <3>2
  <2>7. CASE n # 1
    <3>1. n - 1 >= 1 /\ 1 \in 1 .. n - 1
      BY <2>3, <2>7
    <3>2. frames' # <<>> /\ frames'[1] = frames[1]
      BY <2>3, <3>1
    <3>3. RootsSorted'
      BY <1>1, <1>3, <2>1, <2>5, <3>2 DEF RootsSorted
    <3>4. QED
      BY <1>1, <1>5, <2>1, <2>2, <3>3
  <2>8. QED
    BY <2>6, <2>7
<1>9. QED
  BY <1>6, <1>7, <1>8 DEF SortStep

\* What is filed under a vtable is found from what is filed under its children.
LEMMA SubHierarchyExact ==
  ASSUME IsInput, Exact, NEW v \in Described(metadata),
         Children(metadata, v) \subseteq DOMAIN VTableSubHierarchy
  PROVE  SubHierarchy(v) = DefinedBelow(v)
<1>1. Derived(metadata, v) =
        {v} \cup UNION {Derived(metadata, w) : w \in Children(metadata, v)}
  BY DerivedOfChildren
<1>2. \A w \in Children(metadata, v) :
        VTableSubHierarchy[w] = {u \in Derived(metadata, w) : isDefined(u[1])}
  BY DEF Exact, DefinedBelow
<1>3. SubHierarchy(v) =
        {w \in {v} : isDefined(w[1])}
          \cup UNION {VTableSubHierarchy[w] : w \in Children(metadata, v)}
  BY InputFacts DEF SubHierarchy
<1>4. UNION {VTableSubHierarchy[w] : w \in Children(metadata, v)} =
        {u \in UNION {Derived(metadata, w) : w \in Children(metadata, v)} : isDefined(u[1])}
  BY <1>2
<1>5. QED
  BY <1>1, <1>3, <1>4 DEF DefinedBelow

\* The assert holds, and a class is filed when all that derives from it is.
LEMMA BuildKeeps ==
  ASSUME HierarchiesInv, BuildSubHierarchy
  PROVE  HierarchiesInv'
<1> DEFINE n == Len(ordered)
           c == Last(ordered)
           own == OwnVTables(metadata, c)
<1>1. /\ program' = program /\ cha' = cha /\ frames' = frames /\ pc = "hierarchies"
  BY DEF BuildSubHierarchy
<1>2. IsInput /\ Exact /\ Remaining /\ frames = <<>>
  BY <1>1 DEF HierarchiesInv
<1>3. /\ metadata' = metadata /\ Classes' = Classes /\ IsInput'
      /\ \A v : DefinedBelow(v)' = DefinedBelow(v)
      /\ \A d : ClassesBelow(d)' = ClassesBelow(d)
  BY <1>1, <1>2, SameInput
<1>4. ordered # <<>> /\ ordered' = Front(ordered) /\ ordered \in Seq(Classes)
  BY <1>2 DEF BuildSubHierarchy, Remaining
<1>5. /\ n \in Nat /\ n >= 1 /\ c = ordered[n] /\ c \in Classes
      /\ ordered' \in Seq(Classes) /\ DOMAIN ordered' = 1 .. n - 1
      /\ \A i \in 1 .. n - 1 : ordered'[i] = ordered[i]
      /\ DOMAIN ordered = 1 .. n
  <2>1. DOMAIN ordered = 1 .. n
    BY <1>4
  <2>2. QED
    BY <1>4, <2>1, FrontFacts
<1> HIDE DEF n, c
<1>6. own \subseteq Described(metadata) /\ \A v \in own : v[1] = c
  BY <1>2, <1>5, InputFacts, OwnVTableType DEF Described, Classes
<1>7. \A v \in own : Children(metadata, v) \subseteq DOMAIN VTableSubHierarchy
  <2> SUFFICES ASSUME NEW v \in own, NEW w \in Children(metadata, v)
               PROVE  w \in DOMAIN VTableSubHierarchy
    OBVIOUS
  <2>1. n \in DOMAIN ordered /\ v \in OwnVTables(metadata, ordered[n])
    BY <1>5
  <2>2. \A j \in DOMAIN ordered : ~ (n < j)
    BY <1>5
  <2>3. QED
    BY <1>2, <2>1, <2>2 DEF Remaining
<1>8. \A v \in own : SubHierarchy(v) = DefinedBelow(v)
  BY <1>2, <1>6, <1>7, SubHierarchyExact
<1>9. UNION {ChildrenOf(v) : v \in own} \subseteq DOMAIN VTableSubHierarchy
  BY <1>2, <1>6, <1>7, InputFacts
<1>10. /\ VTableSubHierarchy' = Merge(VTableSubHierarchy, [v \in own |-> SubHierarchy(v)])
       /\ ClassSubHierarchy' =
            Merge(ClassSubHierarchy,
                  [x \in {c} |-> {w[1] : w \in UNION {SubHierarchy(v) : v \in own}}])
       /\ pc' = pc
  BY <1>9 DEF BuildSubHierarchy, c
<1>11. {w[1] : w \in UNION {SubHierarchy(v) : v \in own}} = ClassesBelow(c)
  BY <1>8 DEF ClassesBelow
<1> HIDE DEF own
<1>12. /\ DOMAIN VTableSubHierarchy' = DOMAIN VTableSubHierarchy \cup own
       /\ \A v \in DOMAIN VTableSubHierarchy' :
            VTableSubHierarchy'[v] = IF v \in own THEN SubHierarchy(v) ELSE VTableSubHierarchy[v]
  BY <1>10 DEF Merge
<1>13. /\ DOMAIN ClassSubHierarchy' = DOMAIN ClassSubHierarchy \cup {c}
       /\ \A d \in DOMAIN ClassSubHierarchy' :
            ClassSubHierarchy'[d] = IF d = c THEN ClassesBelow(c) ELSE ClassSubHierarchy[d]
  BY <1>10, <1>11 DEF Merge
<1>14. Exact'
  <2>1. \A v \in DOMAIN VTableSubHierarchy' : VTableSubHierarchy'[v] = DefinedBelow(v)
    BY <1>2, <1>8, <1>12 DEF Exact
  <2>2. \A d \in DOMAIN ClassSubHierarchy' : ClassSubHierarchy'[d] = ClassesBelow(d)
    BY <1>2, <1>13 DEF Exact
  <2>3. DOMAIN VTableSubHierarchy' \subseteq Described(metadata) /\ DOMAIN ClassSubHierarchy' \subseteq Classes
    BY <1>2, <1>5, <1>6, <1>12, <1>13 DEF Exact
  <2>4. /\ VTableSubHierarchy' = [v \in DOMAIN VTableSubHierarchy' |-> VTableSubHierarchy'[v]]
        /\ ClassSubHierarchy' = [d \in DOMAIN ClassSubHierarchy' |-> ClassSubHierarchy'[d]]
    BY <1>10 DEF Merge
  <2>5. QED
    BY <1>3, <2>1, <2>2, <2>3, <2>4 DEF Exact
<1>15. ASSUME NEW i \in DOMAIN ordered', NEW v \in OwnVTables(metadata, ordered'[i]),
              NEW w \in Children(metadata, v)
       PROVE  \/ w \in DOMAIN VTableSubHierarchy'
              \/ \E j \in DOMAIN ordered' : i < j /\ ordered'[j] = w[1]
  <2>1. i \in DOMAIN ordered /\ ordered'[i] = ordered[i]
    BY <1>5
  <2>2. CASE w \in DOMAIN VTableSubHierarchy
    BY <1>12, <2>2
  <2>3. CASE w \notin DOMAIN VTableSubHierarchy
    <3>1. PICK j \in DOMAIN ordered : i < j /\ ordered[j] = w[1]
      BY <1>2, <2>1, <2>3 DEF Remaining
    <3>2. CASE j = n
      <4>1. w[1] = c /\ w \in Described(metadata)
        BY <1>5, <3>1, <3>2 DEF Children
      <4>2. w \in own
        BY <1>2, <4>1, InputFacts, OwnVTableType DEF Described, own
      <4>3. QED
        BY <1>12, <4>2
    <3>3. CASE j # n
      <4>1. j \in 1 .. n - 1
        BY <1>5, <3>3
      <4>2. QED
        BY <1>5, <3>1, <4>1
    <3>4. QED
      BY <3>2, <3>3
  <2>4. QED
    BY <2>2, <2>3
<1>16. ASSUME NEW d \in Classes \ ToSet(ordered')
       PROVE  /\ OwnVTables(metadata, d) \subseteq DOMAIN VTableSubHierarchy'
              /\ d \in DOMAIN ClassSubHierarchy'
  <2>1. CASE d = c
    BY <1>12, <1>13, <2>1 DEF own
  <2>2. CASE d # c
    <3>1. d \notin ToSet(ordered)
      <4> SUFFICES ASSUME NEW j \in DOMAIN ordered, d = ordered[j]
                   PROVE  FALSE
        BY DEF ToSet
      <4>1. j \in 1 .. n - 1
        BY <1>5, <2>2
      <4>2. d = ordered'[j] /\ j \in DOMAIN ordered'
        BY <1>5, <4>1
      <4>3. QED
        BY <4>2 DEF ToSet
    <3>2. QED
      BY <1>2, <1>12, <1>13, <3>1 DEF Remaining
  <2>3. QED
    BY <2>1, <2>2
<1>17. Remaining'
  BY <1>3, <1>5, <1>15, <1>16 DEF Remaining
<1>18. QED
  BY <1>1, <1>2, <1>3, <1>10, <1>14, <1>17 DEF HierarchiesInv

\* From one loop to the next.
LEMMA LoopKeeps ==
  ASSUME HierarchiesInv, NextLoop
  PROVE  HierarchiesInv'
<1>1. /\ program' = program /\ cha' = cha /\ hierarchies' = hierarchies
      /\ frames' = frames /\ ordered' = ordered /\ frames = <<>> /\ todo = {}
  BY DEF NextLoop, sorted
<1>2. IsInput /\ IsInput' /\ Exact' /\ metadata' = metadata /\ Classes' = Classes
  BY <1>1, SameInput, SameExact DEF HierarchiesInv
<1>3. VTableSubHierarchy' = VTableSubHierarchy /\ ClassSubHierarchy' = ClassSubHierarchy
  BY <1>1 DEF hierarchies
<1>4. CASE pc = "sort"
  <2>1. /\ pc' = "hierarchies"
        /\ SortState(metadata, frames, ordered, {}) /\ RootsSorted
    BY <1>4 DEF NextLoop, HierarchiesInv
  <2>2. ordered \in Seq(DOMAIN metadata) /\ Topological(metadata, ordered)
    BY <2>1 DEF SortState
  <2>3. RootClasses(metadata) \subseteq ToSet(ordered)
    BY <1>1, <1>2, <2>1, InputFacts DEF RootsSorted
  <2>4. DOMAIN metadata = ToSet(ordered)
    BY <1>2, <2>2, <2>3, InputFacts, AllSorted
  <2>5. \A i \in DOMAIN ordered : \A v \in OwnVTables(metadata, ordered[i]) :
          \A w \in Children(metadata, v) : \E j \in DOMAIN ordered : i < j /\ ordered[j] = w[1]
    BY <1>2, <2>2, InputFacts, ChildrenLater
  <2>6. Remaining
    BY <2>2, <2>4, <2>5 DEF Remaining, Classes
  <2>7. Remaining'
    BY <1>1, <1>2, <1>3, <2>6 DEF Remaining
  <2>8. QED
    BY <1>1, <1>2, <2>1, <2>7 DEF HierarchiesInv
<1>5. CASE pc = "hierarchies"
  <2>1. pc' = "vtable targets" /\ ordered = <<>> /\ Remaining
    BY <1>5 DEF NextLoop, HierarchiesInv
  <2>2. ToSet(ordered) = {}
    <3>1. ordered \in Seq(Classes) /\ Len(ordered) = 0
      BY <2>1 DEF Remaining
    <3>2. DOMAIN ordered = 1 .. 0
      BY <3>1
    <3>3. QED
      BY <3>2 DEF ToSet
  <2>3. Described(metadata) \subseteq DOMAIN VTableSubHierarchy /\ Classes \subseteq DOMAIN ClassSubHierarchy
    BY <2>1, <2>2 DEF Remaining, Described, Classes
  <2>4. DOMAIN VTableSubHierarchy = Described(metadata) /\ DOMAIN ClassSubHierarchy = Classes
    BY <2>3 DEF HierarchiesInv, Exact
  <2>5. QED
    BY <1>1, <1>2, <1>3, <2>1, <2>4 DEF HierarchiesInv
<1>6. CASE pc \notin {"sort", "hierarchies"}
  <2>1. pc' \notin {"sort", "hierarchies", "aborted"}
    BY <1>6 DEF NextLoop
  <2>2. QED
    BY <1>1, <1>2, <1>3, <1>6, <2>1 DEF HierarchiesInv
<1>7. QED
  BY <1>4, <1>5, <1>6

LEMMA HierarchiesStep ==
  ASSUME HierarchiesInv, [Next]_vars
  PROVE  HierarchiesInv'
<1>1. ASSUME program' = program, cha' = cha, hierarchies' = hierarchies, sorted' = sorted,
             pc \notin {"sort", "hierarchies"}, pc' \notin {"sort", "hierarchies", "aborted"}
      PROVE  HierarchiesInv'
  <2>1. /\ VTableSubHierarchy' = VTableSubHierarchy /\ ClassSubHierarchy' = ClassSubHierarchy
        /\ ordered' = ordered /\ frames' = frames
    BY <1>1 DEF hierarchies, sorted
  <2>2. IsInput' /\ Exact' /\ metadata' = metadata /\ Classes' = Classes
    BY <1>1, SameInput, SameExact DEF HierarchiesInv
  <2>3. QED
    BY <1>1, <2>1, <2>2 DEF HierarchiesInv
<1>2. CASE StoreStep
  BY <1>1, <1>2, StoreFrame
<1>3. CASE MatchStep
  BY <1>1, <1>3, MatchFrame DEF Matching
<1>4. CASE CallStep
  BY <1>1, <1>4, CallFrame
<1>5. CASE UNCHANGED vars
  <2>1. /\ program' = program /\ cha' = cha /\ pc' = pc /\ todo' = todo
        /\ ordered' = ordered /\ frames' = frames
        /\ VTableSubHierarchy' = VTableSubHierarchy /\ ClassSubHierarchy' = ClassSubHierarchy
    BY <1>5 DEF vars, sorted, hierarchies
  <2>2. IsInput' /\ Exact' /\ metadata' = metadata /\ Classes' = Classes
    BY <2>1, SameInput, SameExact DEF HierarchiesInv, hierarchies
  <2>3. RootsSorted => RootsSorted'
    BY <2>1 DEF RootsSorted
  <2>4. Remaining => Remaining'
    BY <2>1, <2>2 DEF Remaining
  <2>5. QED
    BY <2>1, <2>2, <2>3, <2>4 DEF HierarchiesInv
<1>6. QED
  BY <1>2, <1>3, <1>4, <1>5, SortKeeps, BuildKeeps, LoopKeeps, StepCases

THEOREM HierarchiesInvariant == Spec => []HierarchiesInv
<1>1. Init => HierarchiesInv
  BY HierarchiesInit
<1>2. HierarchiesInv /\ [Next]_vars => HierarchiesInv'
  BY HierarchiesStep
<1>3. QED
  BY <1>1, <1>2, PTL DEF Spec

\* The assert in buildSubHierarchies never fails, nor the one that the hierarchy
\* has no cycle.
THEOREM AssertsHold == Spec => []ChildrenComeFirst
<1>1. HierarchiesInv => ChildrenComeFirst
  BY DEF HierarchiesInv, ChildrenComeFirst
<1>2. QED
  BY <1>1, HierarchiesInvariant, PTL

\* What is filed below every vtable and class is what derives from it.
THEOREM BelowIsDerived == Spec => []SubHierarchiesExact
<1>1. HierarchiesInv => SubHierarchiesExact
  <2> SUFFICES ASSUME HierarchiesInv, pc = "store"
               PROVE  /\ VTableSubHierarchy = [v \in VTables |-> DefinedBelow(v)]
                      /\ ClassSubHierarchy = [c \in Classes |-> ClassesBelow(c)]
    BY DEF SubHierarchiesExact, ClassesBelow
  <2>1. /\ DOMAIN VTableSubHierarchy = VTables /\ DOMAIN ClassSubHierarchy = Classes
        /\ Exact
    BY InputFacts DEF HierarchiesInv
  <2>2. /\ VTableSubHierarchy = [v \in VTables |-> VTableSubHierarchy[v]]
        /\ ClassSubHierarchy = [c \in Classes |-> ClassSubHierarchy[c]]
        /\ \A v \in VTables : VTableSubHierarchy[v] = DefinedBelow(v)
        /\ \A c \in Classes : ClassSubHierarchy[c] = ClassesBelow(c)
    BY <2>1 DEF Exact
  <2>3. QED
    BY <2>2
<1>2. QED
  BY <1>1, HierarchiesInvariant, PTL

------------------------------------------------------------------------------
(* Types                                                                     *)

Loops == {"sort", "hierarchies", "vtable targets", "class targets", "islands", "collect",
          "vfunctions", "callees", "virtual", "indirect", "store", "done"}

\* What a loop has to do.
TodoOK ==
  /\ pc \in Loops
  /\ pc = "vtable targets" => todo \subseteq VTables
  /\ pc = "class targets" => todo \subseteq Classes
  /\ pc = "islands" => todo \subseteq cha.roots
  /\ pc = "callees" => todo \subseteq DOMAIN program.functions
  /\ pc = "virtual" => todo \subseteq Calls
  /\ pc = "indirect" => todo \subseteq Sites

Names == UNION {ToSet(program.entry[v]) : v \in VTables}

KeysOK ==
  /\ DOMAIN VTableSubHierarchyPerFunction \subseteq Names \X Classes
  /\ DOMAIN ClassSubHierarchyPerFunction \subseteq Names \X Classes
  /\ DOMAIN ClassToIsland \subseteq Names \X Classes

\* The classes of an island belong to its root.
IslandsOK ==
  /\ DOMAIN islands \subseteq cha.roots
  /\ \A r \in DOMAIN islands : islands[r] \subseteq Classes
  /\ DOMAIN classToIslandRoot \subseteq Classes
  /\ \A c \in DOMAIN classToIslandRoot :
       /\ classToIslandRoot[c] \in DOMAIN islands
       /\ c \in islands[classToIslandRoot[c]]

SitesOK ==
  /\ VirtualCallSites \subseteq Sites
  /\ DOMAIN Data \subseteq ({"virtual"} \X Calls) \cup ({"indirect"} \X Sites)

WorkInv == TodoOK /\ KeysOK /\ IslandsOK /\ SitesOK

\* The name at an offset that a vtable has is one of its entries.
LEMMA NameAtOffset ==
  ASSUME IsInput, NEW v \in VTables, NEW o \in Offsets(v)
  PROVE  /\ NameAt(v, o) \in Names /\ NameAt(v, o) \in ToSet(program.entry[v])
         /\ NameAt(v, o) # NoName /\ o \in Int
<1>1. v \in Described(metadata)
  BY InputFacts
<1>2. /\ program.region[v] \in [first : Int, addrPt : Int, last : Int]
      /\ program.entry[v] \in Seq(FunctionName)
  BY <1>1, ProgramsAssumption DEF IsInput, IsProgram, metadata
<1>3. Prefix(v) \in Int
  BY <1>2 DEF Prefix
<1>4. PICK k \in DOMAIN program.entry[v] :
        program.entry[v][k] # NoName /\ o = Prefix(v) + k - 1
  BY DEF Offsets
<1>5. k \in Nat
  BY <1>2, <1>4
<1> DEFINE p == Prefix(v)
<1>6. p \in Int /\ o = p + k - 1
  BY <1>3, <1>4
<1> HIDE DEF p
<1>7. o - p + 1 = k /\ o \in Int
  BY <1>5, <1>6
<1>8. NameAt(v, o) = program.entry[v][k]
  BY <1>7 DEF NameAt, p
<1>9. NameAt(v, o) \in ToSet(program.entry[v])
  BY <1>4, <1>8 DEF ToSet
<1>10. QED
  BY <1>4, <1>7, <1>8, <1>9 DEF Names

LEMMA NamesInClass ==
  ASSUME IsInput, NEW c \in Classes, NEW o
  PROVE  NamesInClassAt(c, o) \subseteq Names
<1>1. OwnVTables(metadata, c) \subseteq VTables
  BY InputFacts DEF Described, Classes
<1>2. QED
  BY <1>1, NameAtOffset DEF NamesInClassAt

LEMMA TodoStep ==
  ASSUME HierarchiesInv, WorkInv, [Next]_vars
  PROVE  TodoOK'
<1>1. /\ HierarchiesInv' /\ TodoOK /\ IsInput
  BY HierarchiesStep DEF WorkInv, HierarchiesInv
<1>2. pc' # "aborted" /\ DOMAIN cha.children = Described(metadata) /\ cha.roots \subseteq Classes
  BY <1>1, InputFacts DEF HierarchiesInv, VTables
<1>3. ASSUME program' = program, cha' = cha
      PROVE  VTables' = VTables /\ Classes' = Classes /\ Calls' = Calls /\ Sites' = Sites
  BY <1>3 DEF VTables, Classes, Calls, Sites, metadata
<1>4. ASSUME program' = program, cha' = cha, todo' \subseteq todo, pc' = pc
      PROVE  TodoOK'
  BY <1>1, <1>3, <1>4 DEF TodoOK
<1>5. ASSUME pc' \in {"sort", "hierarchies", "collect", "vfunctions", "store", "done"}
      PROVE  TodoOK'
  BY <1>5 DEF TodoOK, Loops
<1>6. CASE StoreStep
  BY <1>5, <1>6, StoreFrame
<1>7. CASE SortStep
  BY <1>2, <1>5, <1>7, SortFrame
<1>8. CASE BuildSubHierarchy
  BY <1>2, <1>5, <1>8, BuildFrame
<1>9. CASE MatchStep
  <2>1. program' = program /\ cha' = cha
    BY <1>9, MatchFrame
  <2>2. ASSUME NEW v \in todo, MatchTargetsInVTable(v)
        PROVE  TodoOK'
    BY <1>4, <2>1, <2>2 DEF MatchTargetsInVTable
  <2>3. ASSUME NEW c \in todo, MatchTargetsInClass(c)
        PROVE  TodoOK'
    BY <1>4, <2>1, <2>3 DEF MatchTargetsInClass
  <2>4. ASSUME NEW r \in todo, ClaimIsland(r)
        PROVE  TodoOK'
    BY <1>4, <2>1, <2>4 DEF ClaimIsland
  <2>5. CASE CollectIslands
    BY <1>5, <2>5 DEF CollectIslands
  <2>6. CASE FindAllVFunctions
    <3>1. pc' = "callees" /\ todo' = DOMAIN program.functions
      BY <2>6 DEF FindAllVFunctions
    <3>2. QED
      BY <2>1, <3>1 DEF TodoOK, Loops
  <2>7. QED
    BY <1>9, <2>2, <2>3, <2>4, <2>5, <2>6 DEF MatchStep
<1>10. CASE NextLoop
  <2>1. program' = program /\ cha' = cha /\ hierarchies' = hierarchies
    BY <1>10, LoopFrame
  <2>2. VTables' = VTables /\ Classes' = Classes /\ Calls' = Calls /\ Sites' = Sites
    BY <1>3, <2>1
  <2>3. CASE pc' = "vtable targets"
    <3>1. todo' = DOMAIN VTableSubHierarchy
      BY <1>10, <2>3 DEF NextLoop
    <3>2. DOMAIN VTableSubHierarchy \subseteq VTables
      BY <1>2 DEF HierarchiesInv, Exact, VTables
    <3>3. QED
      BY <2>2, <2>3, <3>1, <3>2 DEF TodoOK, Loops
  <2>4. CASE pc' = "class targets"
    <3>1. todo' = DOMAIN ClassSubHierarchy
      BY <1>10, <2>4 DEF NextLoop
    <3>2. DOMAIN ClassSubHierarchy \subseteq Classes
      BY DEF HierarchiesInv, Exact
    <3>3. QED
      BY <2>2, <2>4, <3>1, <3>2 DEF TodoOK, Loops
  <2>5. CASE pc' = "islands"
    <3>1. todo' = cha.roots
      BY <1>10, <2>5 DEF NextLoop
    <3>2. QED
      BY <2>1, <2>5, <3>1 DEF TodoOK, Loops
  <2>6. CASE pc' = "virtual"
    <3>1. todo' = Calls
      BY <1>10, <2>6 DEF NextLoop
    <3>2. QED
      BY <2>2, <2>6, <3>1 DEF TodoOK, Loops
  <2>7. CASE pc' = "indirect"
    <3>1. todo' = Sites
      BY <1>10, <2>7 DEF NextLoop
    <3>2. QED
      BY <2>2, <2>7, <3>1 DEF TodoOK, Loops
  <2>8. QED
    BY <1>5, <1>10, <2>3, <2>4, <2>5, <2>6, <2>7, LoopFrame DEF Matching
<1>11. CASE CallStep
  <2>1. todo' \subseteq todo
    BY <1>11 DEF CallStep, AnalyseCallee, ProcessVirtualCallSite, ProcessIndirectCallSite
  <2>2. QED
    BY <1>4, <1>11, <2>1, CallFrame
<1>12. CASE UNCHANGED vars
  BY <1>4, <1>12 DEF vars
<1>13. QED
  BY <1>6, <1>7, <1>8, <1>9, <1>10, <1>11, <1>12, StepCases

\* The island a root claims has a root that was claimed, or is its own.
LEMMA IslandRootIn ==
  ASSUME HierarchiesInv, IslandsOK, NEW r \in cha.roots
  PROVE  /\ IslandRoot(r) = r \/ IslandRoot(r) \in DOMAIN islands
         /\ NewClasses(r) \subseteq Classes /\ NewClasses(r) \cap DOMAIN classToIslandRoot = {}
<1>1. IsInput
  BY DEF HierarchiesInv
<1>2. r \in Classes /\ <<r, 0>> \in Described(metadata)
  BY <1>1, InputFacts, PrimaryVTable DEF Described, Classes
<1>3. ToSet(Preorder(metadata, <<r, 0>>)) = Derived(metadata, <<r, 0>>)
  <2>1. metadata \in {p.metadata : p \in Programs}
    BY <1>1 DEF IsInput, metadata
  <2>2. QED
    BY <1>2, <2>1, PreorderAssumption
<1>4. Derived(metadata, <<r, 0>>) \subseteq Described(metadata)
  BY <1>2 DEF Derived
<1>5. \A v \in Described(metadata) : v[1] \in Classes
  BY <1>1, InputFacts, OwnVTableType DEF Described, Classes
<1>6. NewClasses(r) \subseteq Classes /\ NewClasses(r) \cap DOMAIN classToIslandRoot = {}
  BY <1>3, <1>4, <1>5 DEF NewClasses
<1> DEFINE met == [i \in DOMAIN Preorder(metadata, <<r, 0>>) |->
                     Preorder(metadata, <<r, 0>>)[i][1]]
           old(i) == met[i] \in DOMAIN classToIslandRoot
           again == {i \in DOMAIN met : old(i) \/ \E j \in 1 .. i - 1 : met[j] = met[i]}
<1>7. IslandRoot(r) = IF again = {} \/ ~ old(Min(again)) THEN r
                      ELSE classToIslandRoot[met[Min(again)]]
  BY DEF IslandRoot
<1> HIDE DEF again, met
<1>8. CASE again = {} \/ ~ old(Min(again))
  BY <1>6, <1>7, <1>8
<1>9. CASE ~ (again = {} \/ ~ old(Min(again)))
  BY <1>6, <1>7, <1>9 DEF IslandsOK
<1>10. QED
  BY <1>8, <1>9

LEMMA IslandsStep ==
  ASSUME HierarchiesInv, WorkInv, [Next]_vars
  PROVE  IslandsOK'
<1>1. IslandsOK /\ TodoOK /\ IsInput
  BY DEF WorkInv, HierarchiesInv
<1>2. ASSUME program' = program, cha' = cha
      PROVE  Classes' = Classes
  BY <1>2 DEF Classes, metadata
<1>3. ASSUME program' = program, cha' = cha, islands' = islands,
             classToIslandRoot' = classToIslandRoot
      PROVE  IslandsOK'
  BY <1>1, <1>2, <1>3 DEF IslandsOK
<1>4. ASSUME NEW r \in todo, ClaimIsland(r)
      PROVE  IslandsOK'
  <2> DEFINE root == IslandRoot(r)
             new == NewClasses(r)
  <2>1. /\ program' = program /\ cha' = cha /\ r \in cha.roots
        /\ classToIslandRoot' = Merge(classToIslandRoot, [c \in new |-> root])
        /\ islands' = Merge(islands, [x \in {root} |-> Lookup(islands, root) \cup new])
    BY <1>1, <1>4 DEF ClaimIsland, TodoOK
  <2>2. /\ root = r \/ root \in DOMAIN islands
        /\ new \subseteq Classes /\ new \cap DOMAIN classToIslandRoot = {}
    BY <1>1, <2>1, IslandRootIn
  <2> HIDE DEF root, new
  <2>3. /\ DOMAIN classToIslandRoot' = DOMAIN classToIslandRoot \cup new
        /\ \A c \in DOMAIN classToIslandRoot' :
             classToIslandRoot'[c] = IF c \in new THEN root ELSE classToIslandRoot[c]
        /\ DOMAIN islands' = DOMAIN islands \cup {root}
        /\ \A x \in DOMAIN islands' :
             islands'[x] = IF x = root THEN Lookup(islands, root) \cup new ELSE islands[x]
    BY <2>1 DEF Merge
  <2>4. DOMAIN islands' \subseteq cha.roots /\ DOMAIN classToIslandRoot' \subseteq Classes
    BY <1>1, <2>1, <2>2, <2>3 DEF IslandsOK
  <2>5. ASSUME NEW c \in DOMAIN classToIslandRoot'
        PROVE  classToIslandRoot'[c] \in DOMAIN islands' /\ c \in islands'[classToIslandRoot'[c]]
    BY <1>1, <2>3 DEF IslandsOK, Lookup
  <2>6. \A x \in DOMAIN islands' : islands'[x] \subseteq Classes
    BY <1>1, <2>2, <2>3 DEF IslandsOK, Lookup
  <2>7. QED
    BY <1>2, <2>1, <2>4, <2>5, <2>6 DEF IslandsOK
<1>5. CASE MatchStep
  <2>1. program' = program /\ cha' = cha
    BY <1>5, MatchFrame
  <2>2. CASE \E r \in todo : ClaimIsland(r)
    BY <1>4, <2>2
  <2>3. CASE ~ \E r \in todo : ClaimIsland(r)
    <3>1. ASSUME NEW v \in todo, MatchTargetsInVTable(v)
          PROVE  IslandsOK'
      BY <1>3, <2>1, <3>1 DEF MatchTargetsInVTable, marx
    <3>2. ASSUME NEW c \in todo, MatchTargetsInClass(c)
          PROVE  IslandsOK'
      BY <1>3, <2>1, <3>2 DEF MatchTargetsInClass, marx
    <3>3. CASE CollectIslands
      BY <1>3, <2>1, <3>3 DEF CollectIslands
    <3>4. CASE FindAllVFunctions
      BY <1>3, <2>1, <3>4 DEF FindAllVFunctions, marx
    <3>5. QED
      BY <1>5, <2>3, <3>1, <3>2, <3>3, <3>4 DEF MatchStep
  <2>4. QED
    BY <2>2, <2>3
<1>6. ASSUME marx' = marx, program' = program, cha' = cha
      PROVE  IslandsOK'
  BY <1>3, <1>6 DEF marx
<1>7. QED
  BY <1>5, <1>6, StepCases, SortFrame, BuildFrame, LoopFrame, CallFrame, StoreFrame DEF vars

LEMMA KeysStep ==
  ASSUME HierarchiesInv, WorkInv, [Next]_vars
  PROVE  KeysOK'
<1>1. KeysOK /\ TodoOK /\ IslandsOK /\ IsInput
  BY DEF WorkInv, HierarchiesInv
<1>2. ASSUME program' = program, cha' = cha
      PROVE  Classes' = Classes /\ Names' = Names
  BY <1>2 DEF Classes, metadata, Names, VTables
<1>3. ASSUME NEW v \in todo, MatchTargetsInVTable(v)
      PROVE  KeysOK'
  <2> DEFINE names == {NameAt(v, o) : o \in Offsets(v)}
             last(f) == Max({o \in Offsets(v) : NameAt(v, o) = f})
             new == [k \in names \X {v[1]} |->
                       {NameAt(w, last(k[1])) : w \in VTableSubHierarchy[v]}]
  <2>1. /\ program' = program /\ cha' = cha /\ v \in VTables
        /\ ClassSubHierarchyPerFunction' = ClassSubHierarchyPerFunction
        /\ ClassToIsland' = ClassToIsland
        /\ VTableSubHierarchyPerFunction' = Merge(VTableSubHierarchyPerFunction, new)
    BY <1>1, <1>3 DEF MatchTargetsInVTable, TodoOK, marx
  <2>2. names \subseteq Names
    BY <1>1, <2>1, NameAtOffset
  <2>3. v[1] \in Classes
    BY <1>1, <2>1, InputFacts, OwnVTableType DEF Described, Classes
  <2> HIDE DEF names
  <2>4. DOMAIN new \subseteq Names \X Classes
    BY <2>2, <2>3
  <2> HIDE DEF new
  <2>5. DOMAIN VTableSubHierarchyPerFunction' \subseteq Names \X Classes
    BY <1>1, <2>1, <2>4 DEF Merge, KeysOK
  <2>6. QED
    BY <1>1, <1>2, <2>1, <2>5 DEF KeysOK
<1>4. ASSUME NEW c \in todo, MatchTargetsInClass(c)
      PROVE  KeysOK'
  <2> DEFINE names == UNION {NamesInClassAt(c, o) : o \in OffsetsInClass(c)}
             last(f) == Max({o \in OffsetsInClass(c) : f \in NamesInClassAt(c, o)})
             new == [k \in names \X {c} |->
                       UNION {NamesInClassAt(d, last(k[1])) : d \in ClassSubHierarchy[c]}]
  <2>1. /\ program' = program /\ cha' = cha /\ c \in Classes
        /\ VTableSubHierarchyPerFunction' = VTableSubHierarchyPerFunction
        /\ ClassToIsland' = ClassToIsland
        /\ ClassSubHierarchyPerFunction' = Merge(ClassSubHierarchyPerFunction, new)
    BY <1>1, <1>4 DEF MatchTargetsInClass, TodoOK, marx
  <2>2. names \subseteq Names
    BY <1>1, <2>1, NamesInClass
  <2> HIDE DEF names
  <2>3. DOMAIN new \subseteq Names \X Classes
    BY <2>1, <2>2
  <2> HIDE DEF new
  <2>4. DOMAIN ClassSubHierarchyPerFunction' \subseteq Names \X Classes
    BY <1>1, <2>1, <2>3 DEF Merge, KeysOK
  <2>5. QED
    BY <1>1, <1>2, <2>1, <2>4 DEF KeysOK
<1>5. CASE CollectIslands
  <2> DEFINE names(c) == UNION {NamesInClassAt(c, o) : o \in OffsetsInClass(c)}
             keys == UNION {names(c) \X {c} : c \in DOMAIN classToIslandRoot}
  <2>1. /\ program' = program /\ cha' = cha
        /\ VTableSubHierarchyPerFunction' = VTableSubHierarchyPerFunction
        /\ ClassSubHierarchyPerFunction' = ClassSubHierarchyPerFunction
        /\ DOMAIN ClassToIsland' = keys
    BY <1>5 DEF CollectIslands, targets
  <2>2. ASSUME NEW c \in DOMAIN classToIslandRoot
        PROVE  c \in Classes /\ names(c) \subseteq Names
    <3>1. c \in Classes
      BY <1>1 DEF IslandsOK
    <3>2. QED
      BY <1>1, <3>1, NamesInClass
  <2> HIDE DEF names
  <2>3. keys \subseteq Names \X Classes
    BY <2>2
  <2>4. QED
    BY <1>1, <1>2, <2>1, <2>3 DEF KeysOK
<1>6. ASSUME program' = program, cha' = cha, targets' = targets,
             ClassToIsland' = ClassToIsland
      PROVE  KeysOK'
  BY <1>1, <1>2, <1>6 DEF KeysOK, targets
<1>7. CASE MatchStep
  <2>1. program' = program /\ cha' = cha
    BY <1>7, MatchFrame
  <2>2. ASSUME NEW r \in todo, ClaimIsland(r)
        PROVE  KeysOK'
    BY <1>6, <2>1, <2>2 DEF ClaimIsland
  <2>3. CASE FindAllVFunctions
    BY <1>6, <2>1, <2>3 DEF FindAllVFunctions, marx
  <2>4. QED
    BY <1>3, <1>4, <1>5, <1>7, <2>2, <2>3 DEF MatchStep
<1>8. ASSUME marx' = marx, targets' = targets, program' = program, cha' = cha
      PROVE  KeysOK'
  BY <1>6, <1>8 DEF marx
<1>9. QED
  BY <1>7, <1>8, StepCases, SortFrame, BuildFrame, LoopFrame, CallFrame, StoreFrame DEF vars

LEMMA SitesStep ==
  ASSUME HierarchiesInv, WorkInv, [Next]_vars
  PROVE  SitesOK'
<1>1. SitesOK /\ TodoOK /\ IsInput
  BY DEF WorkInv, HierarchiesInv
<1>2. ASSUME program' = program
      PROVE  Calls' = Calls /\ Sites' = Sites
  BY <1>2 DEF Calls, Sites
<1>3. ASSUME program' = program, sites' = sites
      PROVE  SitesOK'
  BY <1>1, <1>2, <1>3 DEF SitesOK, sites
<1>4. ASSUME NEW i \in todo, ProcessVirtualCallSite(i)
      PROVE  SitesOK'
  <2> DEFINE call == program.calls[i]
             new == [x \in {<<"virtual", i>>} |->
                       [types |-> CallSiteInfo(program.sites[call.site]),
                        hierarchy |-> HierarchyMatches(call)]]
  <2>1. /\ program' = program /\ i \in Calls
        /\ \/ sites' = sites
           \/ /\ call.site # 0
              /\ VirtualCallSites' = VirtualCallSites \cup {call.site}
              /\ Data' = Merge(Data, new)
    BY <1>1, <1>4 DEF ProcessVirtualCallSite, TodoOK
  <2>2. call.site \in Sites \cup {0}
    BY <1>1, <2>1, ProgramsAssumption DEF IsInput, IsProgram, Calls, Sites
  <2>3. DOMAIN new = {<<"virtual", i>>}
    OBVIOUS
  <2> HIDE DEF new, call
  <2>4. CASE sites' = sites
    BY <1>3, <2>1, <2>4
  <2>5. CASE sites' # sites
    BY <1>1, <1>2, <2>1, <2>2, <2>3, <2>5 DEF SitesOK, Merge
  <2>6. QED
    BY <2>4, <2>5
<1>5. ASSUME NEW s \in todo, ProcessIndirectCallSite(s)
      PROVE  SitesOK'
  <2> DEFINE new == [x \in {<<"indirect", s>>} |->
                       [types |-> CallSiteInfo(program.sites[s])]]
  <2>1. /\ program' = program /\ s \in Sites /\ VirtualCallSites' = VirtualCallSites
        /\ Data' = Data \/ Data' = Merge(Data, new)
    BY <1>1, <1>5 DEF ProcessIndirectCallSite, TodoOK
  <2>2. DOMAIN new = {<<"indirect", s>>}
    OBVIOUS
  <2> HIDE DEF new
  <2>3. QED
    BY <1>1, <1>2, <2>1, <2>2 DEF SitesOK, Merge
<1>6. CASE CallStep
  <2>1. CASE \E f \in todo : AnalyseCallee(f)
    BY <1>3, <2>1 DEF AnalyseCallee
  <2>2. QED
    BY <1>4, <1>5, <1>6, <2>1 DEF CallStep
<1>7. QED
  BY <1>3, <1>6, StepCases, SortFrame, BuildFrame, MatchFrame, LoopFrame, StoreFrame DEF vars

\* The analysis keeps its types.
THEOREM TypeCorrect == Spec => []TypeOK
<1>1. Init => HierarchiesInv /\ WorkInv
  <2> SUFFICES ASSUME Init
               PROVE  WorkInv
    BY HierarchiesInit
  <2>1. pc = "sort" /\ DOMAIN islands = {} /\ DOMAIN classToIslandRoot = {}
    BY DEF Init, EmptyMap
  <2>2. /\ DOMAIN VTableSubHierarchyPerFunction = {} /\ DOMAIN ClassSubHierarchyPerFunction = {}
        /\ DOMAIN ClassToIsland = {} /\ DOMAIN Data = {} /\ VirtualCallSites = {}
    BY DEF Init, EmptyMap
  <2>3. QED
    BY <2>1, <2>2 DEF WorkInv, TodoOK, Loops, KeysOK, IslandsOK, SitesOK
<1>2. (HierarchiesInv /\ WorkInv) /\ [Next]_vars => (HierarchiesInv /\ WorkInv)'
  BY HierarchiesStep, TodoStep, KeysStep, IslandsStep, SitesStep DEF WorkInv
<1>3. HierarchiesInv /\ WorkInv => TypeOK
  <2> SUFFICES ASSUME HierarchiesInv, WorkInv
               PROVE  TypeOK
    OBVIOUS
  <2>1. IsInput /\ Exact
    BY DEF HierarchiesInv
  <2>2. ToSet(ordered) \cup {frames[i].class : i \in DOMAIN frames} \subseteq Classes
    <3>1. CASE pc = "sort"
      <4>1. SortState(metadata, frames, ordered, {})
        BY <3>1 DEF HierarchiesInv
      <4>2. ordered \in Seq(DOMAIN metadata) /\ Followed(metadata, frames, ordered, {})
        BY <4>1 DEF SortState
      <4>3. \A i \in DOMAIN frames : frames[i].class \in DOMAIN metadata
        BY <4>2 DEF Followed
      <4>4. \A i \in DOMAIN ordered : ordered[i] \in DOMAIN metadata
        BY <4>2
      <4>5. QED
        BY <4>3, <4>4 DEF ToSet, Classes
    <3>2. CASE pc # "sort"
      <4>1. frames = <<>> /\ ordered \in Seq(Classes)
        <5>1. frames = <<>>
          BY <3>2 DEF HierarchiesInv
        <5>2. pc = "hierarchies" => ordered \in Seq(Classes)
          BY DEF HierarchiesInv, Remaining
        <5>3. pc # "hierarchies" => ordered = <<>>
          BY <3>2 DEF HierarchiesInv
        <5>4. <<>> \in Seq(Classes)
          OBVIOUS
        <5>5. QED
          BY <5>1, <5>2, <5>3, <5>4
      <4>2. DOMAIN frames = {} /\ \A i \in DOMAIN ordered : ordered[i] \in Classes
        BY <4>1
      <4>3. QED
        BY <4>2 DEF ToSet
    <3>3. QED
      BY <3>1, <3>2
  <2>3. \A v \in DOMAIN VTableSubHierarchy : VTableSubHierarchy[v] \subseteq VTables
    <3> SUFFICES ASSUME NEW v \in DOMAIN VTableSubHierarchy
                 PROVE  VTableSubHierarchy[v] \subseteq VTables
      OBVIOUS
    <3>1. v \in Described(metadata) /\ VTableSubHierarchy[v] = DefinedBelow(v)
      BY <2>1 DEF Exact
    <3>2. DefinedBelow(v) \subseteq Described(metadata)
      BY <3>1 DEF DefinedBelow, Derived
    <3>3. QED
      BY <2>1, <3>1, <3>2, InputFacts
  <2>4. \A c \in DOMAIN ClassSubHierarchy : ClassSubHierarchy[c] \subseteq Classes
    <3> SUFFICES ASSUME NEW c \in DOMAIN ClassSubHierarchy
                 PROVE  ClassSubHierarchy[c] \subseteq Classes
      OBVIOUS
    <3>1. c \in Classes /\ ClassSubHierarchy[c] = ClassesBelow(c)
      BY <2>1 DEF Exact
    <3>2. \A v \in OwnVTables(metadata, c) : DefinedBelow(v) \subseteq Described(metadata)
      BY <3>1 DEF DefinedBelow, Derived, Described, Classes
    <3>3. \A v \in Described(metadata) : v[1] \in Classes
      BY <2>1, InputFacts, OwnVTableType DEF Described, Classes
    <3>4. QED
      BY <3>1, <3>2, <3>3 DEF ClassesBelow
  <2>5. UNION {DOMAIN t : t \in {VTableSubHierarchyPerFunction,
                                 ClassSubHierarchyPerFunction, ClassToIsland}}
          \subseteq Names \X Classes
    BY DEF WorkInv, KeysOK
  <2>6. pc \in {"sort", "hierarchies", "vtable targets", "class targets", "islands",
                "collect", "vfunctions", "callees", "virtual", "indirect", "store",
                "done", "aborted"}
    BY DEF WorkInv, TodoOK, Loops
  <2>7. DOMAIN islands \subseteq cha.roots
        /\ \A c \in DOMAIN classToIslandRoot : c \in islands[classToIslandRoot[c]]
    BY DEF WorkInv, IslandsOK
  <2>8. SitesOK
    BY DEF WorkInv
  <2>9. QED
    BY <2>2, <2>3, <2>4, <2>5, <2>6, <2>7, <2>8 DEF TypeOK, Names, SitesOK
<1>4. QED
  BY <1>1, <1>2, <1>3, PTL DEF Spec

------------------------------------------------------------------------------
(* What a call may reach by its type                                         *)

\* A function is filed under its types in every way.
FiledIn(c, f) ==
  LET t == program.functions[f] IN
  /\ f \in Lookup(c.Normal, Normal(t))
  /\ f \in Lookup(c.Short, Short(t))
  /\ f \in Lookup(c.Precise, <<Demangled(f), Precise(t)>>)
  /\ f \in Lookup(c.Params, ParamsClass(t))

\* The functions in the vtables of defined classes.
InVTable(f) ==
  \E v \in VTables : isDefined(v[1]) /\ f # NoName /\ f \in ToSet(program.entry[v])

AfterCallees == {"virtual", "indirect", "store", "done"}

\* Every function that the loop has reached is filed, among the virtual ones too if
\* a vtable has it; what was found for a call is what is filed now.
FoundInv ==
  /\ pc \in {"callees"} \cup AfterCallees => \A f : InVTable(f) => f \in AllVFunctions
  /\ \A f \in DOMAIN program.functions \ program.blacklisted :
       (pc \in AfterCallees \/ (pc = "callees" /\ f \notin todo)) =>
         FiledIn(callees, f) /\ (InVTable(f) => FiledIn(callees_virtual, f))
  /\ pc \notin AfterCallees => DOMAIN Data = {}
  /\ \A i \in Analysed :
       LET call == program.calls[i]
           data == Data[<<"virtual", i>>]
           t    == program.sites[call.site]
       IN  /\ call.site # 0
           /\ data.types = CallSiteInfo(t)
           /\ data.hierarchy.vTrust =
                Lookup(callees.Precise, <<Demangled(call.function), Precise(t)>>)

\* Filing a function keeps those that are filed.
LEMMA AddToKeeps ==
  ASSUME NEW b, NEW k, NEW f, NEW l, NEW g, (g = f /\ l = k) \/ g \in Lookup(b, l)
  PROVE  g \in Lookup(AddTo(b, k, f), l)
<1>1. /\ DOMAIN AddTo(b, k, f) = DOMAIN b \cup {k}
      /\ \A x \in DOMAIN b \cup {k} :
           AddTo(b, k, f)[x] = IF x = k THEN Lookup(b, k) \cup {f} ELSE b[x]
  BY DEF AddTo, Merge
<1>2. CASE g = f /\ l = k
  BY <1>1, <1>2 DEF Lookup
<1>3. CASE g \in Lookup(b, l)
  BY <1>1, <1>3 DEF Lookup
<1>4. QED
  BY <1>2, <1>3

LEMMA WithCalleeFiles ==
  ASSUME NEW c, NEW f, NEW g, g = f \/ FiledIn(c, g)
  PROVE  FiledIn(WithCallee(c, f), g)
<1> DEFINE t == program.functions[f]
           u == program.functions[g]
<1>1. /\ WithCallee(c, f).Normal = AddTo(c.Normal, Normal(t), f)
      /\ WithCallee(c, f).Short = AddTo(c.Short, Short(t), f)
      /\ WithCallee(c, f).Precise = AddTo(c.Precise, <<Demangled(f), Precise(t)>>, f)
      /\ WithCallee(c, f).Params = AddTo(c.Params, ParamsClass(t), f)
  BY DEF WithCallee
<1>2. /\ (g = f /\ Normal(u) = Normal(t)) \/ g \in Lookup(c.Normal, Normal(u))
      /\ (g = f /\ Short(u) = Short(t)) \/ g \in Lookup(c.Short, Short(u))
      /\ \/ g = f /\ <<Demangled(g), Precise(u)>> = <<Demangled(f), Precise(t)>>
         \/ g \in Lookup(c.Precise, <<Demangled(g), Precise(u)>>)
      /\ (g = f /\ ParamsClass(u) = ParamsClass(t)) \/ g \in Lookup(c.Params, ParamsClass(u))
  BY DEF FiledIn
<1> HIDE DEF t, u
<1>3. g \in Lookup(AddTo(c.Normal, Normal(t), f), Normal(u))
  BY <1>2, AddToKeeps
<1>4. g \in Lookup(AddTo(c.Short, Short(t), f), Short(u))
  BY <1>2, AddToKeeps
<1>5. g \in Lookup(AddTo(c.Precise, <<Demangled(f), Precise(t)>>, f), <<Demangled(g), Precise(u)>>)
  BY <1>2, AddToKeeps
<1>6. g \in Lookup(AddTo(c.Params, ParamsClass(t), f), ParamsClass(u))
  BY <1>2, AddToKeeps
<1>7. QED
  BY <1>1, <1>3, <1>4, <1>5, <1>6 DEF FiledIn, u

\* All functions in vtables are found.
LEMMA VFunctionsFound ==
  ASSUME HierarchiesInv, FindAllVFunctions, NEW f, InVTable(f)
  PROVE  f \in AllVFunctions'
<1>1. IsInput
  BY DEF HierarchiesInv
<1>2. PICK v \in VTables : isDefined(v[1]) /\ f # NoName /\ f \in ToSet(program.entry[v])
  BY DEF InVTable
<1>3. v \in Described(metadata)
  BY <1>1, InputFacts
<1>4. PICK c \in Classes : v \in OwnVTables(metadata, c)
  BY <1>3 DEF Described, Classes
<1>5. v[1] = c
  BY <1>1, <1>4, InputFacts, OwnVTableType DEF Classes
<1>6. PICK k \in DOMAIN program.entry[v] : program.entry[v][k] = f
  BY <1>2 DEF ToSet
<1>7. /\ program.region[v] \in [first : Int, addrPt : Int, last : Int]
      /\ program.entry[v] \in Seq(FunctionName)
  BY <1>1, <1>3, ProgramsAssumption DEF IsInput, IsProgram, metadata
<1>8. Prefix(v) \in Int /\ k \in Nat
  BY <1>6, <1>7 DEF Prefix
<1> DEFINE p == Prefix(v)
           o == p + k - 1
<1>9. o \in Offsets(v)
  BY <1>2, <1>6 DEF Offsets
<1>10. NameAt(v, o) = f
  <2>1. p \in Int
    BY <1>8
  <2> HIDE DEF p
  <2>2. o - p + 1 = k
    BY <1>8, <2>1
  <2>3. QED
    BY <1>6, <1>9, <2>2 DEF NameAt, p
<1> HIDE DEF o
<1>11. f \in NamesInClassAt(c, o)
  BY <1>4, <1>9, <1>10 DEF NamesInClassAt
<1>12. o \in UNION {OffsetsInClass(d) : d \in Classes}
  BY <1>4, <1>9 DEF OffsetsInClass
<1>13. AllVFunctions' =
         UNION {NamesInClassAt(d, q) : d \in {e \in Classes : isDefined(e)},
                                       q \in UNION {OffsetsInClass(e) : e \in Classes}}
  BY DEF FindAllVFunctions
<1>14. c \in {e \in Classes : isDefined(e)}
  BY <1>2, <1>5
<1>15. QED
  BY <1>11, <1>12, <1>13, <1>14

LEMMA SameFiled ==
  ASSUME program' = program, cha' = cha
  PROVE  /\ \A f : InVTable(f)' <=> InVTable(f)
         /\ \A c, f : FiledIn(c, f)' <=> FiledIn(c, f)
<1>1. VTables' = VTables /\ \A c : isDefined(c)' <=> isDefined(c)
  BY DEF VTables, isDefined, metadata
<1>2. QED
  BY <1>1 DEF InVTable, FiledIn

\* A step that files nothing and finds nothing.
LEMMA FoundKeeps ==
  ASSUME FoundInv, program' = program, cha' = cha, functions' = functions, sites' = sites,
         pc' \in AfterCallees => pc \in AfterCallees \/ (pc = "callees" /\ todo = {}),
         pc \in AfterCallees => pc' \in AfterCallees,
         pc' = "callees" => pc = "callees" /\ todo' = todo
  PROVE  FoundInv'
<1>1. /\ callees' = callees /\ callees_virtual' = callees_virtual
      /\ AllVFunctions' = AllVFunctions /\ Data' = Data /\ Analysed' = Analysed
  BY DEF functions, sites, Analysed, Calls
<1>2. /\ \A f : InVTable(f)' <=> InVTable(f)
      /\ \A f : FiledIn(callees, f)' <=> FiledIn(callees, f)
      /\ \A f : FiledIn(callees_virtual, f)' <=> FiledIn(callees_virtual, f)
  <2>1. /\ \A f : InVTable(f)' <=> InVTable(f)
        /\ \A c, f : FiledIn(c, f)' <=> FiledIn(c, f)
    BY SameFiled
  <2>2. \A f : FiledIn(callees, f)' <=> FiledIn(callees, f)
    BY <1>1 DEF FiledIn
  <2>3. \A f : FiledIn(callees_virtual, f)' <=> FiledIn(callees_virtual, f)
    BY <1>1 DEF FiledIn
  <2>4. QED
    BY <2>1, <2>2, <2>3
<1>3. pc' \in {"callees"} \cup AfterCallees => \A f : InVTable(f)' => f \in AllVFunctions'
  BY <1>1, <1>2 DEF FoundInv, AfterCallees
<1>4. ASSUME NEW f \in DOMAIN program.functions \ program.blacklisted,
             pc' \in AfterCallees \/ (pc' = "callees" /\ f \notin todo')
      PROVE  FiledIn(callees, f)' /\ (InVTable(f)' => FiledIn(callees_virtual, f)')
  <2>1. pc \in AfterCallees \/ (pc = "callees" /\ f \notin todo)
    BY <1>4
  <2>2. QED
    BY <1>2, <2>1 DEF FoundInv
<1>5. pc' \notin AfterCallees => DOMAIN Data' = {}
  BY <1>1 DEF FoundInv
<1>6. \A t : CallSiteInfo(t)' = CallSiteInfo(t)
  BY <1>1 DEF CallSiteInfo, TypeMatches
<1>7. \A i \in Analysed' :
        LET call == program.calls[i]
            data == Data'[<<"virtual", i>>]
            t    == program.sites[call.site]
        IN  /\ call.site # 0
            /\ data.types = CallSiteInfo(t)'
            /\ data.hierarchy.vTrust =
                 Lookup(callees'.Precise, <<Demangled(call.function), Precise(t)>>)
  BY <1>1, <1>6 DEF FoundInv
<1>8. QED
  BY <1>3, <1>4, <1>5, <1>7 DEF FoundInv

\* Filing a function.
LEMMA FoundCallee ==
  ASSUME FoundInv, NEW f \in todo, AnalyseCallee(f)
  PROVE  FoundInv'
<1>1. /\ program' = program /\ cha' = cha /\ pc' = pc /\ pc = "callees"
      /\ todo' = todo \ {f} /\ sites' = sites
  BY DEF AnalyseCallee
<1>2. /\ Data' = Data /\ DOMAIN Data = {} /\ pc \notin AfterCallees
      /\ \A g : InVTable(g) => g \in AllVFunctions
  BY <1>1 DEF FoundInv, AfterCallees, sites
<1>3. /\ \A g : InVTable(g)' <=> InVTable(g)
      /\ \A c, g : FiledIn(c, g)' <=> FiledIn(c, g)
  BY <1>1, SameFiled
<1>4. /\ AllVFunctions \subseteq AllVFunctions'
      /\ f \notin program.blacklisted =>
           /\ callees' = WithCallee(callees, f)
           /\ isVirtualFunction(f) => callees_virtual' = WithCallee(callees_virtual, f)
           /\ ~ isVirtualFunction(f) => callees_virtual' = callees_virtual
      /\ f \in program.blacklisted => callees' = callees /\ callees_virtual' = callees_virtual
  BY DEF AnalyseCallee, functions
<1>5. ASSUME NEW g \in DOMAIN program.functions \ program.blacklisted, g \notin todo'
      PROVE  FiledIn(callees', g) /\ (InVTable(g) => FiledIn(callees_virtual', g))
  <2>1. g # f => FiledIn(callees, g) /\ (InVTable(g) => FiledIn(callees_virtual, g))
    BY <1>1, <1>5 DEF FoundInv
  <2>2. FiledIn(callees', g)
    <3>1. CASE f \in program.blacklisted
      BY <1>4, <1>5, <2>1, <3>1
    <3>2. CASE f \notin program.blacklisted
      <4>1. FiledIn(WithCallee(callees, f), g)
        BY <2>1, WithCalleeFiles
      <4>2. QED
        BY <1>4, <3>2, <4>1
    <3>3. QED
      BY <3>1, <3>2
  <2>3. ASSUME InVTable(g)
        PROVE  FiledIn(callees_virtual', g)
    <3>1. CASE callees_virtual' = callees_virtual /\ g # f
      BY <2>1, <2>3, <3>1
    <3>2. CASE f \notin program.blacklisted /\ isVirtualFunction(f)
      <4>1. FiledIn(WithCallee(callees_virtual, f), g)
        BY <2>1, <2>3, WithCalleeFiles
      <4>2. QED
        BY <1>4, <3>2, <4>1
    <3>3. g = f => f \notin program.blacklisted /\ isVirtualFunction(f)
      BY <1>2, <1>5, <2>3 DEF isVirtualFunction
    <3>4. QED
      BY <1>4, <3>1, <3>2, <3>3
  <2>4. QED
    BY <2>2, <2>3
<1>6. ASSUME NEW g \in DOMAIN program.functions \ program.blacklisted, g \notin todo'
      PROVE  FiledIn(callees, g)' /\ (InVTable(g)' => FiledIn(callees_virtual, g)')
  <2>1. FiledIn(callees', g) /\ (InVTable(g) => FiledIn(callees_virtual', g))
    BY <1>5, <1>6
  <2>2. FiledIn(callees, g)' <=> FiledIn(callees', g)
    BY <1>1 DEF FiledIn
  <2>3. FiledIn(callees_virtual, g)' <=> FiledIn(callees_virtual', g)
    BY <1>1 DEF FiledIn
  <2>4. QED
    BY <1>3, <2>1, <2>2, <2>3
<1>7. Analysed' = {}
  BY <1>2 DEF Analysed
<1>8. pc' \notin AfterCallees /\ pc' = "callees" /\ DOMAIN Data' = {}
  BY <1>1, <1>2
<1>9. \A g : InVTable(g)' => g \in AllVFunctions'
  BY <1>2, <1>3, <1>4
<1>10. QED
  BY <1>1, <1>6, <1>7, <1>8, <1>9 DEF FoundInv

\* Finding what a call may reach.
LEMMA FoundData ==
  ASSUME FoundInv, program' = program, cha' = cha, functions' = functions, pc' = pc,
         pc \in AfterCallees,
         \A i \in Analysed' :
           \/ i \in Analysed /\ Data'[<<"virtual", i>>] = Data[<<"virtual", i>>]
           \/ LET call == program.calls[i]
              IN  /\ call.site # 0
                  /\ Data'[<<"virtual", i>>].types = CallSiteInfo(program.sites[call.site])
                  /\ Data'[<<"virtual", i>>].hierarchy = HierarchyMatches(call)
  PROVE  FoundInv'
<1>1. /\ callees' = callees /\ callees_virtual' = callees_virtual
      /\ AllVFunctions' = AllVFunctions
  BY DEF functions
<1>2. /\ \A f : InVTable(f)' <=> InVTable(f)
      /\ \A f : FiledIn(callees, f)' <=> FiledIn(callees, f)
      /\ \A f : FiledIn(callees_virtual, f)' <=> FiledIn(callees_virtual, f)
  <2>1. \A f : InVTable(f)' <=> InVTable(f)
    BY SameFiled
  <2>2. \A f : FiledIn(callees, f)' <=> FiledIn(callees, f)
    BY <1>1 DEF FiledIn
  <2>3. \A f : FiledIn(callees_virtual, f)' <=> FiledIn(callees_virtual, f)
    BY <1>1 DEF FiledIn
  <2>4. QED
    BY <2>1, <2>2, <2>3
<1>3. \A t : CallSiteInfo(t)' = CallSiteInfo(t)
  BY <1>1 DEF CallSiteInfo, TypeMatches
<1>4. ASSUME NEW i \in Analysed'
      PROVE  LET call == program.calls[i]
                 data == Data'[<<"virtual", i>>]
                 t    == program.sites[call.site]
             IN  /\ call.site # 0
                 /\ data.types = CallSiteInfo(t)'
                 /\ data.hierarchy.vTrust =
                      Lookup(callees'.Precise, <<Demangled(call.function), Precise(t)>>)
  <2>1. CASE i \in Analysed /\ Data'[<<"virtual", i>>] = Data[<<"virtual", i>>]
    BY <1>1, <1>3, <2>1 DEF FoundInv
  <2>2. CASE LET call == program.calls[i]
             IN  /\ call.site # 0
                 /\ Data'[<<"virtual", i>>].types = CallSiteInfo(program.sites[call.site])
                 /\ Data'[<<"virtual", i>>].hierarchy = HierarchyMatches(call)
    BY <1>1, <1>3, <2>2 DEF HierarchyMatches
  <2>3. QED
    BY <1>4, <2>1, <2>2
<1>5. \A f : InVTable(f)' => f \in AllVFunctions'
  BY <1>1, <1>2 DEF FoundInv
<1>6. \A f \in DOMAIN program.functions \ program.blacklisted :
        FiledIn(callees, f)' /\ (InVTable(f)' => FiledIn(callees_virtual, f)')
  BY <1>2 DEF FoundInv
<1>7. QED
  BY <1>4, <1>5, <1>6 DEF FoundInv

LEMMA FoundStep ==
  ASSUME HierarchiesInv, FoundInv, [Next]_vars
  PROVE  FoundInv'
<1> USE DEF AfterCallees
<1>1. pc' # "aborted"
  BY HierarchiesStep DEF HierarchiesInv
<1>2. CASE StoreStep
  BY <1>2, StoreFrame, FoundKeeps
<1>3. CASE SortStep
  BY <1>1, <1>3, SortFrame, FoundKeeps
<1>4. CASE BuildSubHierarchy
  BY <1>1, <1>4, BuildFrame, FoundKeeps
<1>5. CASE MatchStep
  <2>1. /\ program' = program /\ cha' = cha /\ sites' = sites
        /\ pc \notin {"callees"} \cup AfterCallees /\ pc' \notin AfterCallees
    BY <1>5, MatchFrame DEF Matching
  <2>2. ASSUME functions' = functions, pc' # "callees"
        PROVE  FoundInv'
    BY <2>1, <2>2, FoundKeeps
  <2>3. ASSUME NEW v \in todo, MatchTargetsInVTable(v)
        PROVE  FoundInv'
    BY <2>2, <2>3 DEF MatchTargetsInVTable
  <2>4. ASSUME NEW c \in todo, MatchTargetsInClass(c)
        PROVE  FoundInv'
    BY <2>2, <2>4 DEF MatchTargetsInClass
  <2>5. ASSUME NEW r \in todo, ClaimIsland(r)
        PROVE  FoundInv'
    BY <2>2, <2>5 DEF ClaimIsland
  <2>6. CASE CollectIslands
    BY <2>2, <2>6 DEF CollectIslands
  <2>7. CASE FindAllVFunctions
    <3>1. pc' = "callees" /\ todo' = DOMAIN program.functions
      BY <2>7 DEF FindAllVFunctions
    <3>2. \A f : InVTable(f)' => f \in AllVFunctions'
      BY <2>1, <2>7, SameFiled, VFunctionsFound
    <3>3. DOMAIN Data' = {} /\ Analysed' = {}
      BY <2>1 DEF FoundInv, sites, Analysed
    <3>4. QED
      BY <2>1, <3>1, <3>2, <3>3 DEF FoundInv
  <2>8. QED
    BY <1>5, <2>3, <2>4, <2>5, <2>6, <2>7 DEF MatchStep
<1>6. CASE NextLoop
  <2>1. /\ program' = program /\ cha' = cha /\ functions' = functions /\ sites' = sites
        /\ pc' # "callees"
    BY <1>6, LoopFrame DEF Matching
  <2>2. /\ pc' \in AfterCallees => pc \in AfterCallees \/ (pc = "callees" /\ todo = {})
        /\ pc \in AfterCallees => pc' \in AfterCallees
    BY <1>6 DEF NextLoop
  <2>3. QED
    BY <2>1, <2>2, FoundKeeps
<1>7. CASE CallStep
  <2>1. CASE \E f \in todo : AnalyseCallee(f)
    BY <2>1, FoundCallee
  <2>2. ASSUME NEW i \in todo, ProcessVirtualCallSite(i)
        PROVE  FoundInv'
    <3> DEFINE call == program.calls[i]
               info == [types |-> CallSiteInfo(program.sites[call.site]),
                        hierarchy |-> HierarchyMatches(call)]
    <3>1. /\ program' = program /\ cha' = cha /\ functions' = functions /\ pc' = pc
          /\ pc = "virtual"
      BY <2>2 DEF ProcessVirtualCallSite
    <3>2. CASE call.site = 0
      <4>1. sites' = sites
        BY <2>2, <3>2 DEF ProcessVirtualCallSite
      <4>2. QED
        BY <3>1, <4>1, FoundKeeps
    <3>3. CASE call.site # 0
      <4>1. Data' = Merge(Data, [x \in {<<"virtual", i>>} |-> info])
        BY <2>2, <3>3 DEF ProcessVirtualCallSite
      <4>2. info.types = CallSiteInfo(program.sites[call.site])
            /\ info.hierarchy = HierarchyMatches(call)
        OBVIOUS
      <4> HIDE DEF info, call
      <4>3. /\ DOMAIN Data' = DOMAIN Data \cup {<<"virtual", i>>}
            /\ \A x \in DOMAIN Data' : Data'[x] = IF x = <<"virtual", i>> THEN info ELSE Data[x]
        BY <4>1 DEF Merge
      <4>4. ASSUME NEW j \in Analysed'
            PROVE  \/ j \in Analysed /\ Data'[<<"virtual", j>>] = Data[<<"virtual", j>>]
                   \/ /\ program.calls[j].site # 0
                      /\ Data'[<<"virtual", j>>].types =
                           CallSiteInfo(program.sites[program.calls[j].site])
                      /\ Data'[<<"virtual", j>>].hierarchy = HierarchyMatches(program.calls[j])
        <5>1. <<"virtual", j>> \in DOMAIN Data' /\ j \in Calls
          BY <3>1, <4>4 DEF Analysed, Calls
        <5>2. CASE j = i
          <6>1. Data'[<<"virtual", j>>] = info
            BY <4>3, <5>1, <5>2
          <6>2. QED
            BY <3>3, <4>2, <5>2, <6>1 DEF call
        <5>3. CASE j # i
          BY <4>3, <5>1, <5>3 DEF Analysed
        <5>4. QED
          BY <5>2, <5>3
      <4>5. pc \in AfterCallees
        BY <3>1
      <4>6. QED
        BY <3>1, <4>4, <4>5, FoundData
    <3>4. QED
      BY <3>2, <3>3
  <2>3. ASSUME NEW s \in todo, ProcessIndirectCallSite(s)
        PROVE  FoundInv'
    <3> DEFINE new == [x \in {<<"indirect", s>>} |-> [types |-> CallSiteInfo(program.sites[s])]]
    <3>1. /\ program' = program /\ cha' = cha /\ functions' = functions /\ pc' = pc
          /\ pc = "indirect" /\ (Data' = Data \/ Data' = Merge(Data, new))
      BY <2>3 DEF ProcessIndirectCallSite
    <3>2. DOMAIN new = {<<"indirect", s>>}
      OBVIOUS
    <3> HIDE DEF new
    <3>3. ASSUME NEW j \in Analysed'
          PROVE  j \in Analysed /\ Data'[<<"virtual", j>>] = Data[<<"virtual", j>>]
      <4>1. <<"virtual", j>> \in DOMAIN Data' /\ j \in Calls
        BY <3>1, <3>3 DEF Analysed, Calls
      <4>2. <<"virtual", j>> \notin DOMAIN new
        BY <3>2
      <4>3. QED
        BY <3>1, <4>1, <4>2 DEF Merge, Analysed
    <3>4. pc \in AfterCallees
      BY <3>1
    <3>5. QED
      BY <3>1, <3>3, <3>4, FoundData
  <2>4. QED
    BY <1>7, <2>1, <2>2, <2>3 DEF CallStep
<1>8. CASE UNCHANGED vars
  <2>1. /\ program' = program /\ cha' = cha /\ functions' = functions /\ sites' = sites
        /\ pc' = pc /\ todo' = todo
    BY <1>8 DEF vars
  <2>2. QED
    BY <2>1, FoundKeeps
<1>9. QED
  BY <1>2, <1>3, <1>4, <1>5, <1>6, <1>7, <1>8, StepCases

\* A function that a call may reach in a program that breaks no rule has its type
\* and name, and is in a vtable.
LEMMA LegalTarget ==
  ASSUME IsInput, NEW i \in Calls, NEW f \in LegalTargets(i), program.calls[i].site # 0
  PROVE  LET call == program.calls[i]
         IN  /\ f \in DOMAIN program.functions /\ InVTable(f)
             /\ call.site \in Sites /\ program.functions[f] = program.sites[call.site]
             /\ Demangled(f) = Demangled(call.function)
<1> DEFINE call == program.calls[i]
           v == <<call.class, 0>>
           k == call.index + 1
<1>1. IsProgram(program) /\ IsMetadata(metadata)
  BY ProgramsAssumption DEF IsInput, IsProgram, metadata
<1>2. /\ call.class \in DOMAIN metadata
      /\ call.index \in Nat /\ k \in DOMAIN program.entry[v]
      /\ program.entry[v][k] = call.function
      /\ call.function # NoName /\ call.function \in DOMAIN program.functions
      /\ call.site \in DOMAIN program.sites
      /\ program.sites[call.site] = program.functions[call.function]
  BY <1>1 DEF IsProgram, Calls, metadata
<1> HIDE DEF call
<1>3. PICK w \in DefinedBelow(v) :
        /\ Len(program.entry[w]) > call.index
        /\ f = program.entry[w][k]
  BY DEF LegalTargets, call
<1>4. f \in DOMAIN program.functions
  BY DEF LegalTargets
<1>5. v \in Described(metadata)
  BY <1>1, <1>2, PrimaryVTable DEF Described
<1>6. w \in Derived(metadata, v) /\ isDefined(w[1]) /\ w \in Described(metadata)
  BY <1>5 DEF DefinedBelow, Derived
<1>7. program.entry[w] \in Seq(FunctionName)
  BY <1>1, <1>6 DEF IsProgram, metadata
<1>8. k \in DOMAIN program.entry[w]
  <2> DEFINE n == Len(program.entry[w])
  <2>1. n \in Nat /\ n > call.index /\ DOMAIN program.entry[w] = 1 .. n
    BY <1>3, <1>7
  <2> HIDE DEF n
  <2>2. k \in 1 .. n
    BY <1>2, <2>1
  <2>3. QED
    BY <2>1, <2>2
<1>9. f # NoName
  BY <1>1, <1>4 DEF IsProgram
<1>10. InVTable(f)
  <2>1. w \in VTables
    BY <1>6, InputFacts
  <2>2. f \in ToSet(program.entry[w])
    BY <1>3, <1>8 DEF ToSet
  <2>3. QED
    BY <1>6, <1>9, <2>1, <2>2 DEF InVTable
<1> HIDE DEF v, k
<1>11. f[2] = call.function[2] /\ program.functions[f] = program.functions[call.function]
  <2>1. OverridesKeepTypes(program)
    BY <1>1 DEF IsProgram
  <2>2. k \in DOMAIN program.entry[v] \cap DOMAIN program.entry[w]
    BY <1>2, <1>8
  <2>3. {program.entry[v][k], program.entry[w][k]} \subseteq DOMAIN program.functions
    BY <1>2, <1>3, <1>4
  <2>4. /\ program.entry[w][k][2] = program.entry[v][k][2]
        /\ program.functions[program.entry[w][k]] = program.functions[program.entry[v][k]]
    BY <1>5, <1>6, <2>1, <2>2, <2>3 DEF OverridesKeepTypes, metadata
  <2>5. QED
    BY <1>2, <1>3, <2>4
<1>12. QED
  BY <1>2, <1>4, <1>10, <1>11 DEF Demangled, Sites, call

\* What is filed under a type is found by it.
LEMMA FiledIsFound ==
  ASSUME NEW c, NEW f, FiledIn(c, f), IsFunctionType(program.functions[f])
  PROVE  LET t == program.functions[f]
         IN  /\ f \in TypeMatches(c, t).IFCC
             /\ f \in TypeMatches(c, t).Short
             /\ f \in TypeMatches(c, t).TypeArmor
<1> DEFINE t == program.functions[f]
           l == Len(t.params)
<1>1. l \in Nat
  BY DEF IsFunctionType
<1>2. ParamsClass(t) \in Nat
  <2> HIDE DEF l
  <2>1. \E x \in {l, 7} : \A y \in {l, 7} : x <= y
    BY <1>1
  <2>2. Min({l, 7}) \in {l, 7}
    BY <2>1 DEF Min
  <2>3. Min({l, 7}) \in Nat
    BY <1>1, <2>2
  <2>4. QED
    BY <2>3 DEF ParamsClass, l
<1>3. /\ TypeMatches(c, t).IFCC = Lookup(c.Normal, Normal(t))
      /\ TypeMatches(c, t).Short = Lookup(c.Short, Short(t))
      /\ TypeMatches(c, t).TypeArmor = UNION {Lookup(c.Params, n) : n \in 0 .. ParamsClass(t)}
  BY DEF TypeMatches
<1>4. /\ f \in Lookup(c.Normal, Normal(t)) /\ f \in Lookup(c.Short, Short(t))
      /\ f \in Lookup(c.Params, ParamsClass(t))
  BY DEF FiledIn
<1> DEFINE n == ParamsClass(t)
<1> HIDE DEF t, n
<1>5. n \in 0 .. n
  BY <1>2 DEF n
<1>6. f \in UNION {Lookup(c.Params, m) : m \in 0 .. n}
  BY <1>4, <1>5 DEF n
<1>7. QED
  BY <1>3, <1>4, <1>6 DEF t, n

\* No policy that compares types forbids a legal call.
THEOREM LegalByType == Spec => []TypesAllowLegalTargets
<1>1. Init => HierarchiesInv /\ FoundInv
  <2> SUFFICES ASSUME Init
               PROVE  FoundInv
    BY HierarchiesInit
  <2>1. pc = "sort" /\ DOMAIN Data = {}
    BY DEF Init, EmptyMap
  <2>2. Analysed = {}
    BY <2>1 DEF Analysed
  <2>3. QED
    BY <2>1, <2>2 DEF FoundInv, AfterCallees
<1>2. (HierarchiesInv /\ FoundInv) /\ [Next]_vars => (HierarchiesInv /\ FoundInv)'
  BY HierarchiesStep, FoundStep
<1>3. HierarchiesInv /\ FoundInv => TypesAllowLegalTargets
  <2> SUFFICES ASSUME HierarchiesInv, FoundInv, pc = "store", NEW i \in Analysed,
                      NEW f \in LegalTargets(i) \ program.blacklisted
               PROVE  LET info == Data[<<"virtual", i>>]
                      IN  /\ f \in info.types.all.IFCC /\ f \in info.types.all.Short
                          /\ f \in info.types.all.TypeArmor
                          /\ f \in info.types.virtual.TypeArmor
                          /\ f \in info.hierarchy.vTrust
    BY DEF TypesAllowLegalTargets
  <2> DEFINE call == program.calls[i]
             t == program.sites[call.site]
             info == Data[<<"virtual", i>>]
  <2>1. IsInput /\ i \in Calls
    BY DEF HierarchiesInv, Analysed
  <2>2. /\ call.site # 0
        /\ info.types = CallSiteInfo(t)
        /\ info.hierarchy.vTrust = Lookup(callees.Precise, <<Demangled(call.function), Precise(t)>>)
    BY DEF FoundInv
  <2>3. /\ f \in DOMAIN program.functions /\ InVTable(f)
        /\ program.functions[f] = t
        /\ Demangled(f) = Demangled(call.function)
    BY <2>1, <2>2, LegalTarget
  <2>4. FiledIn(callees, f) /\ FiledIn(callees_virtual, f)
    BY <2>3 DEF FoundInv, AfterCallees
  <2>5. IsFunctionType(program.functions[f])
    BY <2>1, <2>3, ProgramsAssumption DEF IsInput, IsProgram
  <2> HIDE DEF call, t, info
  <2>6. /\ f \in TypeMatches(callees, t).IFCC /\ f \in TypeMatches(callees, t).Short
        /\ f \in TypeMatches(callees, t).TypeArmor
        /\ f \in TypeMatches(callees_virtual, t).TypeArmor
    BY <2>3, <2>4, <2>5, FiledIsFound
  <2>7. info.types.all = TypeMatches(callees, t) /\ info.types.virtual = TypeMatches(callees_virtual, t)
    BY <2>2 DEF CallSiteInfo
  <2>8. f \in Lookup(callees.Precise, <<Demangled(call.function), Precise(t)>>)
    BY <2>3, <2>4 DEF FiledIn
  <2>9. QED
    BY <2>2, <2>6, <2>7, <2>8 DEF info
<1>4. QED
  BY <1>1, <1>2, <1>3, PTL DEF Spec

------------------------------------------------------------------------------
(* What is filed for functions                                               *)

\* The functions of a vtable and of a class, and the last offset of one.
NamesAt(v) == {NameAt(v, o) : o \in Offsets(v)}
NamesOf(c) == UNION {NamesInClassAt(c, o) : o \in OffsetsInClass(c)}

LastAt(v, f) == Max({o \in Offsets(v) : NameAt(v, o) = f})
LastIn(c, f) == Max({o \in OffsetsInClass(c) : f \in NamesInClassAt(c, o)})

VTableTargets(v, f) == {NameAt(w, LastAt(v, f)) : w \in VTableSubHierarchy[v]}
ClassTargets(c, f) ==
  UNION {NamesInClassAt(d, LastIn(c, f)) : d \in ClassSubHierarchy[c]}

\* The loops behind that over the vtables, that over the classes, that over the
\* roots, and behind the collection of the islands.
AfterCollect == {"vfunctions", "callees"} \cup AfterCallees
AfterIslands == {"collect"} \cup AfterCollect
AfterClasses == {"islands"} \cup AfterIslands
AfterVTables == {"class targets"} \cup AfterClasses

\* What is filed for a function of a class is what has its last offset in one of
\* the vtables of the class, and for every function something is.
VTableTargetsInv ==
  /\ pc \in {"sort", "hierarchies"} => DOMAIN VTableSubHierarchyPerFunction = {}
  /\ \A k \in DOMAIN VTableSubHierarchyPerFunction :
       \E v \in OwnVTables(metadata, k[2]) :
         /\ k[1] \in NamesAt(v)
         /\ VTableSubHierarchyPerFunction[k] = VTableTargets(v, k[1])
  /\ \A v \in VTables :
       pc \in AfterVTables \/ (pc = "vtable targets" /\ v \notin todo) =>
         NamesAt(v) \X {v[1]} \subseteq DOMAIN VTableSubHierarchyPerFunction

ClassTargetsInv ==
  \A c \in Classes :
    pc \in AfterClasses \/ (pc = "class targets" /\ c \notin todo) =>
      \A f \in NamesOf(c) :
        /\ <<f, c>> \in DOMAIN ClassSubHierarchyPerFunction
        /\ ClassSubHierarchyPerFunction[<<f, c>>] = ClassTargets(c, f)

\* A finite set of numbers has a last one.
LEMMA FiniteMax ==
  ASSUME NEW S, S \subseteq Int, IsFiniteSet(S), S # {}
  PROVE  Max(S) \in S
<1> DEFINE above(x) == {y \in S : y > x}
           T == {Cardinality(above(x)) : x \in S}
<1>1. \A x \in S : IsFiniteSet(above(x)) /\ Cardinality(above(x)) \in Nat
  BY FS_Subset, FS_CardinalityType
<1>2. T \subseteq Nat /\ T # {}
  BY <1>1
<1>3. PICK n \in T : \A m \in T : n <= m
  BY <1>2, LeastNat
<1>4. PICK x \in S : n = Cardinality(above(x))
  BY <1>3
<1>5. ASSUME NEW y \in S, ~ (x >= y)
      PROVE  FALSE
  <2>1. y > x /\ x \in Int /\ y \in Int
    BY <1>5
  <2>2. above(y) \subseteq above(x)
    <3>1. ASSUME NEW z \in S, z > y
          PROVE  z > x
      BY <2>1, <3>1
    <3>2. QED
      BY <3>1
  <2>3. y \in above(x) /\ y \notin above(y)
    BY <2>1
  <2> HIDE DEF above
  <2>4. /\ Cardinality(above(y)) <= Cardinality(above(x))
        /\ Cardinality(above(y)) # Cardinality(above(x))
    BY <1>1, <2>2, <2>3, FS_Subset
  <2>5. Cardinality(above(y)) \in T
    OBVIOUS
  <2>6. Cardinality(above(x)) <= Cardinality(above(y))
    BY <1>3, <1>4, <2>5
  <2>7. QED
    BY <1>1, <2>4, <2>6
<1>6. \A y \in S : x >= y
  BY <1>5
<1>7. QED
  BY <1>6 DEF Max

\* The places of a vtable and of a class.
LEMMA PlaceOfName ==
  ASSUME IsInput, NEW v \in VTables
  PROVE  /\ Prefix(v) \in Int
         /\ Offsets(v) \subseteq Int /\ IsFiniteSet(Offsets(v))
         /\ DOMAIN program.entry[v] \subseteq Nat
         /\ \A k \in DOMAIN program.entry[v] : program.entry[v][k] # NoName =>
              Prefix(v) + k - 1 \in Offsets(v)
         /\ \A k \in DOMAIN program.entry[v] : \A o :
              o = Prefix(v) + k - 1 /\ o \in Offsets(v) => NameAt(v, o) = program.entry[v][k]
         /\ \A o \in Offsets(v) : \E k \in DOMAIN program.entry[v] :
              /\ o = Prefix(v) + k - 1
              /\ program.entry[v][k] # NoName /\ NameAt(v, o) = program.entry[v][k]
<1>1. v \in Described(metadata)
  BY InputFacts
<1>2. /\ program.region[v] \in [first : Int, addrPt : Int, last : Int]
      /\ program.entry[v] \in Seq(FunctionName)
  BY <1>1, ProgramsAssumption DEF IsInput, IsProgram, metadata
<1> DEFINE p == Prefix(v)
           n == Len(program.entry[v])
           e == program.entry[v]
<1>3. p \in Int
  BY <1>2 DEF Prefix
<1>4. n \in Nat /\ DOMAIN e = 1 .. n
  BY <1>2
<1>5. /\ Offsets(v) = {p + k - 1 : k \in {i \in DOMAIN e : e[i] # NoName}}
      /\ \A o : NameAt(v, o) = IF o \in Offsets(v) THEN e[o - p + 1] ELSE NoName
  BY DEF Offsets, NameAt
<1> HIDE DEF p, n, e
<1>6. Offsets(v) \subseteq p .. (p + n)
  BY <1>3, <1>4, <1>5
<1>7. IsFiniteSet(Offsets(v))
  <2>1. p + n \in Int
    BY <1>3, <1>4
  <2>2. IsFiniteSet(p .. (p + n))
    BY <1>3, <2>1, FS_Interval
  <2>3. QED
    BY <1>6, <2>2, FS_Subset
<1>8. Offsets(v) \subseteq Int
  BY <1>3, <1>4, <1>6
<1>9. \A k \in DOMAIN e : e[k] # NoName => p + k - 1 \in Offsets(v)
  BY <1>5
<1>10. ASSUME NEW k \in DOMAIN e, NEW o, o = p + k - 1, o \in Offsets(v)
       PROVE  NameAt(v, o) = e[k]
  <2>1. o - p + 1 = k
    BY <1>3, <1>4, <1>10
  <2>2. QED
    BY <1>5, <1>10, <2>1
<1>11. \A o \in Offsets(v) : \E k \in DOMAIN e : o = p + k - 1 /\ e[k] # NoName
  BY <1>5
<1>12. DOMAIN e \subseteq Nat
  BY <1>4
<1>13. QED
  BY <1>3, <1>7, <1>8, <1>9, <1>10, <1>11, <1>12 DEF p, e

\* The last offset of a function is one of its offsets.
LEMMA LastIsPlace ==
  ASSUME IsInput, NEW c \in Classes
  PROVE  /\ \A v \in OwnVTables(metadata, c) : \A f \in NamesAt(v) :
              /\ f \in NamesOf(c)
              /\ LastAt(v, f) \in Offsets(v) /\ NameAt(v, LastAt(v, f)) = f
         /\ \A f \in NamesOf(c) :
              \E v \in OwnVTables(metadata, c) :
                LastIn(c, f) \in Offsets(v) /\ NameAt(v, LastIn(c, f)) = f
<1>1. OwnVTables(metadata, c) \subseteq VTables
  BY InputFacts DEF Described, Classes
<1>2. ASSUME NEW v \in OwnVTables(metadata, c), NEW f \in NamesAt(v)
      PROVE  /\ f \in NamesOf(c)
             /\ LastAt(v, f) \in Offsets(v) /\ NameAt(v, LastAt(v, f)) = f
  <2> DEFINE S == {o \in Offsets(v) : NameAt(v, o) = f}
  <2>1. S \subseteq Int /\ IsFiniteSet(S)
    BY <1>1, PlaceOfName, FS_Subset
  <2>2. PICK o \in Offsets(v) : NameAt(v, o) = f
    BY DEF NamesAt
  <2>3. Max(S) \in S
    BY <2>1, <2>2, FiniteMax
  <2>4. f \in NamesInClassAt(c, o) /\ o \in OffsetsInClass(c)
    BY <2>2 DEF NamesInClassAt, OffsetsInClass
  <2>5. QED
    BY <2>3, <2>4 DEF LastAt, NamesOf
<1>3. ASSUME NEW f \in NamesOf(c)
      PROVE  \E v \in OwnVTables(metadata, c) :
               LastIn(c, f) \in Offsets(v) /\ NameAt(v, LastIn(c, f)) = f
  <2> DEFINE S == {o \in OffsetsInClass(c) : f \in NamesInClassAt(c, o)}
             off == [v \in OwnVTables(metadata, c) |-> Offsets(v)]
  <2>1. IsFiniteSet(OwnVTables(metadata, c))
    <3>1. OwnVTables(metadata, c) \subseteq Described(metadata)
      BY DEF Described, Classes
    <3>2. QED
      BY <3>1, InputFacts, DescribedFinite, FS_Subset
  <2>2. OffsetsInClass(c) \subseteq Int
    BY <1>1, PlaceOfName DEF OffsetsInClass
  <2>3. IsFiniteSet(OffsetsInClass(c))
    <3>1. DOMAIN off = OwnVTables(metadata, c) /\ \A v \in OwnVTables(metadata, c) : IsFiniteSet(off[v])
      BY <1>1, PlaceOfName
    <3>2. OffsetsInClass(c) = UNION {off[v] : v \in OwnVTables(metadata, c)}
      BY DEF OffsetsInClass
    <3> HIDE DEF off
    <3>3. QED
      BY <2>1, <3>1, <3>2, FiniteUnion
  <2>4. S \subseteq Int /\ IsFiniteSet(S)
    BY <2>2, <2>3, FS_Subset
  <2>5. S # {}
    BY <1>3 DEF NamesOf
  <2>6. Max(S) \in S
    BY <2>4, <2>5, FiniteMax
  <2>7. f \in NamesInClassAt(c, LastIn(c, f))
    BY <2>6 DEF LastIn
  <2>8. QED
    BY <2>7 DEF NamesInClassAt
<1>4. QED
  BY <1>2, <1>3

LEMMA SameTables ==
  ASSUME program' = program, cha' = cha, hierarchies' = hierarchies
  PROVE  /\ Classes' = Classes /\ VTables' = VTables /\ metadata' = metadata
         /\ \A v : NamesAt(v)' = NamesAt(v)
         /\ \A c : NamesOf(c)' = NamesOf(c)
         /\ \A v, f : VTableTargets(v, f)' = VTableTargets(v, f)
         /\ \A c, f : ClassTargets(c, f)' = ClassTargets(c, f)
<1>1. Classes' = Classes /\ VTables' = VTables /\ metadata' = metadata
  BY DEF Classes, VTables, metadata
<1>2. VTableSubHierarchy' = VTableSubHierarchy /\ ClassSubHierarchy' = ClassSubHierarchy
  BY DEF hierarchies
<1>3. \A v : Offsets(v)' = Offsets(v) /\ Prefix(v)' = Prefix(v)
  BY DEF Offsets, Prefix
<1>4. \A v, o : NameAt(v, o)' = NameAt(v, o)
  BY <1>3 DEF NameAt
<1>5. \A c, o : NamesInClassAt(c, o)' = NamesInClassAt(c, o)
  BY <1>1, <1>3, <1>4 DEF NamesInClassAt
<1>6. \A c : OffsetsInClass(c)' = OffsetsInClass(c)
  BY <1>1, <1>3 DEF OffsetsInClass
<1>7. \A v : NamesAt(v)' = NamesAt(v)
  BY <1>3, <1>4 DEF NamesAt
<1>8. \A c : NamesOf(c)' = NamesOf(c)
  BY <1>5, <1>6 DEF NamesOf
<1>9. \A v, f : LastAt(v, f)' = LastAt(v, f)
  BY <1>3, <1>4 DEF LastAt
<1>10. \A c, f : LastIn(c, f)' = LastIn(c, f)
  BY <1>5, <1>6 DEF LastIn
<1>11. \A v, f : VTableTargets(v, f)' = VTableTargets(v, f)
  BY <1>2, <1>4, <1>9 DEF VTableTargets
<1>12. \A c, f : ClassTargets(c, f)' = ClassTargets(c, f)
  BY <1>2, <1>5, <1>10 DEF ClassTargets
<1>13. QED
  BY <1>1, <1>7, <1>8, <1>11, <1>12

LEMMA VTableTargetsPrimed ==
  ASSUME program' = program, cha' = cha, hierarchies' = hierarchies,
         pc' \notin {"sort", "hierarchies"},
         \A k \in DOMAIN VTableSubHierarchyPerFunction' :
           \E v \in OwnVTables(metadata, k[2]) :
             /\ k[1] \in NamesAt(v)
             /\ VTableSubHierarchyPerFunction'[k] = VTableTargets(v, k[1]),
         \A v \in VTables :
           pc' \in AfterVTables \/ (pc' = "vtable targets" /\ v \notin todo') =>
             NamesAt(v) \X {v[1]} \subseteq DOMAIN VTableSubHierarchyPerFunction'
  PROVE  VTableTargetsInv'
<1>1. /\ VTables' = VTables /\ metadata' = metadata
      /\ \A v : NamesAt(v)' = NamesAt(v)
      /\ \A v, f : VTableTargets(v, f)' = VTableTargets(v, f)
  BY SameTables
<1>2. \A k \in DOMAIN VTableSubHierarchyPerFunction' :
        (\E v \in OwnVTables(metadata, k[2]) :
           /\ k[1] \in NamesAt(v)
           /\ VTableSubHierarchyPerFunction[k] = VTableTargets(v, k[1]))'
  BY <1>1
<1>3. (\A v \in VTables :
         pc \in AfterVTables \/ (pc = "vtable targets" /\ v \notin todo) =>
           NamesAt(v) \X {v[1]} \subseteq DOMAIN VTableSubHierarchyPerFunction)'
  BY <1>1
<1>4. QED
  BY <1>2, <1>3 DEF VTableTargetsInv

\* A step that leaves the maps and files nothing under a vtable.
LEMMA VTableTargetsKept ==
  ASSUME VTableTargetsInv, program' = program, cha' = cha, hierarchies' = hierarchies,
         VTableSubHierarchyPerFunction' = VTableSubHierarchyPerFunction,
         pc' \notin {"sort", "hierarchies"},
         \A v \in VTables :
           pc' \in AfterVTables \/ (pc' = "vtable targets" /\ v \notin todo') =>
             pc \in AfterVTables \/ (pc = "vtable targets" /\ v \notin todo)
  PROVE  VTableTargetsInv'
<1>1. \A k \in DOMAIN VTableSubHierarchyPerFunction' :
        \E v \in OwnVTables(metadata, k[2]) :
          /\ k[1] \in NamesAt(v)
          /\ VTableSubHierarchyPerFunction'[k] = VTableTargets(v, k[1])
  BY DEF VTableTargetsInv
<1>2. \A v \in VTables :
        pc' \in AfterVTables \/ (pc' = "vtable targets" /\ v \notin todo') =>
          NamesAt(v) \X {v[1]} \subseteq DOMAIN VTableSubHierarchyPerFunction'
  BY DEF VTableTargetsInv
<1>3. QED
  BY <1>1, <1>2, VTableTargetsPrimed

LEMMA VTableTargetsFiled ==
  ASSUME IsInput, VTableTargetsInv, NEW v \in todo, v \in VTables, MatchTargetsInVTable(v)
  PROVE  VTableTargetsInv'
<1> DEFINE new == [k \in NamesAt(v) \X {v[1]} |-> VTableTargets(v, k[1])]
<1>1. /\ program' = program /\ cha' = cha /\ hierarchies' = hierarchies
      /\ pc = "vtable targets" /\ pc' = pc /\ todo' = todo \ {v}
  BY DEF MatchTargetsInVTable
<1>2. VTableSubHierarchyPerFunction' = Merge(VTableSubHierarchyPerFunction, new)
  BY DEF MatchTargetsInVTable, NamesAt, VTableTargets, LastAt
<1>3. DOMAIN new = NamesAt(v) \X {v[1]} /\ \A k \in DOMAIN new : new[k] = VTableTargets(v, k[1])
  OBVIOUS
<1> HIDE DEF new
<1>4. /\ DOMAIN VTableSubHierarchyPerFunction' =
           DOMAIN VTableSubHierarchyPerFunction \cup (NamesAt(v) \X {v[1]})
      /\ \A k \in DOMAIN VTableSubHierarchyPerFunction' :
           VTableSubHierarchyPerFunction'[k] =
             IF k \in NamesAt(v) \X {v[1]} THEN VTableTargets(v, k[1])
             ELSE VTableSubHierarchyPerFunction[k]
  BY <1>2, <1>3 DEF Merge
<1>5. v \in OwnVTables(metadata, v[1])
  BY InputFacts, OwnVTableType DEF Described
<1>6. ASSUME NEW k \in DOMAIN VTableSubHierarchyPerFunction'
      PROVE  \E w \in OwnVTables(metadata, k[2]) :
               /\ k[1] \in NamesAt(w)
               /\ VTableSubHierarchyPerFunction'[k] = VTableTargets(w, k[1])
  <2>1. CASE k \in NamesAt(v) \X {v[1]}
    BY <1>4, <1>5, <2>1
  <2>2. CASE k \notin NamesAt(v) \X {v[1]}
    BY <1>4, <2>2 DEF VTableTargetsInv
  <2>3. QED
    BY <2>1, <2>2
<1>7. ASSUME NEW w \in VTables, w \notin todo'
      PROVE  NamesAt(w) \X {w[1]} \subseteq DOMAIN VTableSubHierarchyPerFunction'
  <2>1. CASE w = v
    BY <1>4, <2>1
  <2>2. CASE w # v
    BY <1>1, <1>4, <1>7, <2>2 DEF VTableTargetsInv
  <2>3. QED
    BY <2>1, <2>2
<1>8. pc' \notin AfterVTables /\ pc' \notin {"sort", "hierarchies"}
  BY <1>1 DEF AfterVTables, AfterClasses, AfterIslands, AfterCollect, AfterCallees
<1>9. QED
  BY <1>1, <1>6, <1>7, <1>8, VTableTargetsPrimed

LEMMA VTableTargetsStep ==
  ASSUME HierarchiesInv, WorkInv, VTableTargetsInv, [Next]_vars
  PROVE  VTableTargetsInv'
<1> USE DEF AfterVTables, AfterClasses, AfterIslands, AfterCollect, AfterCallees
<1>1. pc' # "aborted" /\ TodoOK /\ IsInput
  BY HierarchiesStep DEF HierarchiesInv, WorkInv
<1>2. ASSUME pc \in {"sort", "hierarchies"}, pc' \in {"sort", "hierarchies"},
             VTableSubHierarchyPerFunction' = VTableSubHierarchyPerFunction
      PROVE  VTableTargetsInv'
  BY <1>2 DEF VTableTargetsInv
<1>3. CASE SortStep
  BY <1>1, <1>2, <1>3, SortFrame DEF targets
<1>4. CASE BuildSubHierarchy
  BY <1>1, <1>2, <1>4, BuildFrame DEF targets
<1>5. ASSUME program' = program, cha' = cha, hierarchies' = hierarchies,
             VTableSubHierarchyPerFunction' = VTableSubHierarchyPerFunction,
             pc \in AfterVTables, pc' \in AfterVTables
      PROVE  VTableTargetsInv'
  BY <1>5, VTableTargetsKept
<1>6. CASE MatchStep
  <2>1. program' = program /\ cha' = cha /\ hierarchies' = hierarchies
    BY <1>6, MatchFrame
  <2>2. ASSUME NEW v \in todo, MatchTargetsInVTable(v)
        PROVE  VTableTargetsInv'
    <3>1. v \in VTables
      BY <1>1, <2>2 DEF TodoOK, MatchTargetsInVTable
    <3>2. QED
      BY <1>1, <2>2, <3>1, VTableTargetsFiled
  <2>3. ASSUME NEW c \in todo, MatchTargetsInClass(c)
        PROVE  VTableTargetsInv'
    BY <1>5, <2>1, <2>3 DEF MatchTargetsInClass
  <2>4. ASSUME NEW r \in todo, ClaimIsland(r)
        PROVE  VTableTargetsInv'
    BY <1>5, <2>1, <2>4 DEF ClaimIsland, targets
  <2>5. CASE CollectIslands
    BY <1>5, <2>1, <2>5 DEF CollectIslands, targets
  <2>6. CASE FindAllVFunctions
    BY <1>5, <2>1, <2>6 DEF FindAllVFunctions, targets
  <2>7. QED
    BY <1>6, <2>2, <2>3, <2>4, <2>5, <2>6 DEF MatchStep
<1>7. CASE NextLoop
  <2>1. /\ program' = program /\ cha' = cha /\ hierarchies' = hierarchies
        /\ VTableSubHierarchyPerFunction' = VTableSubHierarchyPerFunction
    BY <1>7, LoopFrame DEF targets
  <2>2. CASE pc = "sort"
    <3>1. pc' = "hierarchies"
      BY <1>7, <2>2 DEF NextLoop
    <3>2. QED
      BY <1>2, <2>1, <2>2, <3>1
  <2>3. CASE pc = "hierarchies"
    <3>1. /\ pc' = "vtable targets" /\ todo' = DOMAIN VTableSubHierarchy
      BY <1>7, <2>3 DEF NextLoop
    <3>2. HierarchiesInv'
      BY HierarchiesStep
    <3>3. DOMAIN VTableSubHierarchy' = Described(metadata')
      BY <3>1, <3>2 DEF HierarchiesInv
    <3>4. VTables \subseteq todo'
      <4>1. metadata' = metadata
        BY <2>1, SameTables
      <4>2. VTables = Described(metadata)
        BY <1>1, InputFacts
      <4>3. QED
        BY <2>1, <3>1, <3>3, <4>1, <4>2 DEF hierarchies
    <3>5. DOMAIN VTableSubHierarchyPerFunction' = {}
      BY <2>1, <2>3 DEF VTableTargetsInv
    <3>6. QED
      BY <2>1, <3>1, <3>4, <3>5, VTableTargetsPrimed
  <2>4. CASE pc = "vtable targets"
    <3>1. pc' = "class targets" /\ todo = {}
      BY <1>7, <2>4 DEF NextLoop
    <3>2. QED
      BY <2>1, <2>4, <3>1, VTableTargetsKept
  <2>5. CASE pc \notin {"sort", "hierarchies", "vtable targets"}
    <3>1. pc \in AfterVTables /\ pc' \in AfterVTables
      BY <1>7, <2>5 DEF NextLoop
    <3>2. QED
      BY <1>5, <2>1, <3>1
  <2>6. QED
    BY <2>2, <2>3, <2>4, <2>5
<1>8. CASE CallStep
  BY <1>5, <1>8, CallFrame DEF targets
<1>9. CASE StoreStep
  BY <1>5, <1>9, StoreFrame DEF targets
<1>10. CASE UNCHANGED vars
  <2>1. /\ program' = program /\ cha' = cha /\ hierarchies' = hierarchies
        /\ VTableSubHierarchyPerFunction' = VTableSubHierarchyPerFunction
        /\ pc' = pc /\ todo' = todo
    BY <1>10 DEF vars, targets
  <2>2. CASE pc \in {"sort", "hierarchies"}
    BY <1>2, <2>1, <2>2
  <2>3. CASE pc \notin {"sort", "hierarchies"}
    BY <2>1, <2>3, VTableTargetsKept
  <2>4. QED
    BY <2>2, <2>3
<1>11. QED
  BY <1>3, <1>4, <1>6, <1>7, <1>8, <1>9, <1>10, StepCases

LEMMA ClassTargetsPrimed ==
  ASSUME program' = program, cha' = cha, hierarchies' = hierarchies,
         \A c \in Classes :
           pc' \in AfterClasses \/ (pc' = "class targets" /\ c \notin todo') =>
             \A f \in NamesOf(c) :
               /\ <<f, c>> \in DOMAIN ClassSubHierarchyPerFunction'
               /\ ClassSubHierarchyPerFunction'[<<f, c>>] = ClassTargets(c, f)
  PROVE  ClassTargetsInv'
<1>1. /\ Classes' = Classes
      /\ \A c : NamesOf(c)' = NamesOf(c)
      /\ \A c, f : ClassTargets(c, f)' = ClassTargets(c, f)
  BY SameTables
<1>2. QED
  BY <1>1 DEF ClassTargetsInv

LEMMA ClassTargetsKept ==
  ASSUME ClassTargetsInv, program' = program, cha' = cha, hierarchies' = hierarchies,
         ClassSubHierarchyPerFunction' = ClassSubHierarchyPerFunction,
         \A c \in Classes :
           pc' \in AfterClasses \/ (pc' = "class targets" /\ c \notin todo') =>
             pc \in AfterClasses \/ (pc = "class targets" /\ c \notin todo)
  PROVE  ClassTargetsInv'
<1>1. \A c \in Classes :
        pc' \in AfterClasses \/ (pc' = "class targets" /\ c \notin todo') =>
          \A f \in NamesOf(c) :
            /\ <<f, c>> \in DOMAIN ClassSubHierarchyPerFunction'
            /\ ClassSubHierarchyPerFunction'[<<f, c>>] = ClassTargets(c, f)
  BY DEF ClassTargetsInv
<1>2. QED
  BY <1>1, ClassTargetsPrimed

LEMMA ClassTargetsFiled ==
  ASSUME ClassTargetsInv, NEW c \in todo, MatchTargetsInClass(c)
  PROVE  ClassTargetsInv'
<1> DEFINE new == [k \in NamesOf(c) \X {c} |-> ClassTargets(c, k[1])]
<1>1. /\ program' = program /\ cha' = cha /\ hierarchies' = hierarchies
      /\ pc = "class targets" /\ pc' = pc /\ todo' = todo \ {c}
  BY DEF MatchTargetsInClass
<1>2. ClassSubHierarchyPerFunction' = Merge(ClassSubHierarchyPerFunction, new)
  BY DEF MatchTargetsInClass, NamesOf, ClassTargets, LastIn
<1>3. DOMAIN new = NamesOf(c) \X {c} /\ \A f \in NamesOf(c) : new[<<f, c>>] = ClassTargets(c, f)
  OBVIOUS
<1> HIDE DEF new
<1>4. ASSUME NEW d \in Classes, d \notin todo', NEW f \in NamesOf(d)
      PROVE  /\ <<f, d>> \in DOMAIN ClassSubHierarchyPerFunction'
             /\ ClassSubHierarchyPerFunction'[<<f, d>>] = ClassTargets(d, f)
  <2>1. CASE d = c
    <3>1. <<f, d>> \in DOMAIN new /\ new[<<f, d>>] = ClassTargets(d, f)
      BY <1>3, <1>4, <2>1
    <3>2. QED
      BY <1>2, <3>1 DEF Merge
  <2>2. CASE d # c
    <3>1. <<f, d>> \notin DOMAIN new
      BY <1>3, <2>2
    <3>2. /\ <<f, d>> \in DOMAIN ClassSubHierarchyPerFunction
          /\ ClassSubHierarchyPerFunction[<<f, d>>] = ClassTargets(d, f)
      BY <1>1, <1>4, <2>2 DEF ClassTargetsInv
    <3>3. QED
      BY <1>2, <3>1, <3>2 DEF Merge
  <2>3. QED
    BY <2>1, <2>2
<1>5. pc' \notin AfterClasses
  BY <1>1 DEF AfterClasses, AfterIslands, AfterCollect, AfterCallees
<1>6. QED
  BY <1>1, <1>4, <1>5, ClassTargetsPrimed

LEMMA ClassTargetsStep ==
  ASSUME HierarchiesInv, WorkInv, ClassTargetsInv, [Next]_vars
  PROVE  ClassTargetsInv'
<1> USE DEF AfterClasses, AfterIslands, AfterCollect, AfterCallees
<1>1. pc' # "aborted" /\ TodoOK /\ IsInput
  BY HierarchiesStep DEF HierarchiesInv, WorkInv
<1>2. ASSUME pc' \in {"sort", "hierarchies", "vtable targets"}
      PROVE  ClassTargetsInv'
  BY <1>2 DEF ClassTargetsInv
<1>3. ASSUME program' = program, cha' = cha, hierarchies' = hierarchies,
             ClassSubHierarchyPerFunction' = ClassSubHierarchyPerFunction,
             pc \in AfterClasses, pc' \in AfterClasses
      PROVE  ClassTargetsInv'
  BY <1>3, ClassTargetsKept
<1>4. CASE SortStep
  BY <1>1, <1>2, <1>4, SortFrame
<1>5. CASE BuildSubHierarchy
  BY <1>1, <1>2, <1>5, BuildFrame
<1>6. CASE MatchStep
  <2>1. program' = program /\ cha' = cha /\ hierarchies' = hierarchies
    BY <1>6, MatchFrame
  <2>2. ASSUME NEW v \in todo, MatchTargetsInVTable(v)
        PROVE  ClassTargetsInv'
    BY <1>2, <2>2 DEF MatchTargetsInVTable
  <2>3. ASSUME NEW c \in todo, MatchTargetsInClass(c)
        PROVE  ClassTargetsInv'
    BY <2>3, ClassTargetsFiled
  <2>4. ASSUME NEW r \in todo, ClaimIsland(r)
        PROVE  ClassTargetsInv'
    BY <1>3, <2>1, <2>4 DEF ClaimIsland, targets
  <2>5. CASE CollectIslands
    BY <1>3, <2>1, <2>5 DEF CollectIslands, targets
  <2>6. CASE FindAllVFunctions
    BY <1>3, <2>1, <2>6 DEF FindAllVFunctions, targets
  <2>7. QED
    BY <1>6, <2>2, <2>3, <2>4, <2>5, <2>6 DEF MatchStep
<1>7. CASE NextLoop
  <2>1. /\ program' = program /\ cha' = cha /\ hierarchies' = hierarchies
        /\ ClassSubHierarchyPerFunction' = ClassSubHierarchyPerFunction
    BY <1>7, LoopFrame DEF targets
  <2>2. CASE pc \in {"sort", "hierarchies"}
    <3>1. pc' \in {"hierarchies", "vtable targets"}
      BY <1>7, <2>2 DEF NextLoop
    <3>2. QED
      BY <1>2, <3>1
  <2>3. CASE pc = "vtable targets"
    <3>1. pc' = "class targets" /\ todo' = DOMAIN ClassSubHierarchy
      BY <1>7, <2>3 DEF NextLoop
    <3>2. DOMAIN ClassSubHierarchy = Classes
      BY <2>3 DEF HierarchiesInv
    <3>3. QED
      BY <2>1, <3>1, <3>2, ClassTargetsPrimed
  <2>4. CASE pc = "class targets"
    <3>1. todo = {}
      BY <1>7 DEF NextLoop
    <3>2. QED
      BY <2>1, <2>4, <3>1, ClassTargetsKept
  <2>5. CASE pc \notin {"sort", "hierarchies", "vtable targets", "class targets"}
    <3>1. pc \in AfterClasses /\ pc' \in AfterClasses
      BY <1>7, <2>5 DEF NextLoop
    <3>2. QED
      BY <1>3, <2>1, <3>1
  <2>6. QED
    BY <2>2, <2>3, <2>4, <2>5
<1>8. CASE CallStep
  BY <1>3, <1>8, CallFrame DEF targets
<1>9. CASE StoreStep
  BY <1>3, <1>9, StoreFrame DEF targets
<1>10. CASE UNCHANGED vars
  <2>1. /\ program' = program /\ cha' = cha /\ hierarchies' = hierarchies
        /\ ClassSubHierarchyPerFunction' = ClassSubHierarchyPerFunction
        /\ pc' = pc /\ todo' = todo
    BY <1>10 DEF vars, targets
  <2>2. QED
    BY <2>1, ClassTargetsKept
<1>11. QED
  BY <1>4, <1>5, <1>6, <1>7, <1>8, <1>9, <1>10, StepCases

------------------------------------------------------------------------------
(* Islands                                                                   *)

\* The classes met on the way from a root, and the roots that were reached.
Reach(r) == {v[1] : v \in Derived(metadata, <<r, 0>>)}

Claimed ==
  IF pc = "islands" THEN cha.roots \ todo
  ELSE IF pc \in AfterIslands THEN cha.roots ELSE {}

\* The classes of the roots that were reached have islands.  If they are tidy, those
\* of one root have the same.
IslandsInv ==
  /\ DOMAIN classToIslandRoot = UNION {Reach(r) : r \in Claimed}
  /\ TidyIslands =>
       \A r \in Claimed : \A c, d \in Reach(r) : classToIslandRoot[c] = classToIslandRoot[d]

\* Of three elements of a set of two, two are the same.
LEMMA AtMostTwo ==
  ASSUME NEW S, IsFiniteSet(S), Cardinality(S) <= 2,
         NEW a \in S, NEW b \in S, NEW c \in S, a # b, a # c
  PROVE  b = c
<1> SUFFICES ASSUME b # c
             PROVE  FALSE
  OBVIOUS
<1>1. IsFiniteSet({}) /\ Cardinality({}) = 0
  BY FS_EmptySet
<1>2. IsFiniteSet({a}) /\ Cardinality({a}) = 1
  BY FS_Singleton
<1>3. IsFiniteSet({a} \cup {b}) /\ Cardinality({a} \cup {b}) = 2
  <2>1. b \notin {a}
    OBVIOUS
  <2>2. /\ IsFiniteSet({a} \cup {b})
        /\ Cardinality({a} \cup {b}) = Cardinality({a}) + 1
    BY <1>2, <2>1, FS_AddElement
  <2>3. QED
    BY <1>2, <2>2
<1>4. Cardinality(({a} \cup {b}) \cup {c}) = 3
  <2>1. c \notin {a} \cup {b}
    OBVIOUS
  <2>2. Cardinality(({a} \cup {b}) \cup {c}) = Cardinality({a} \cup {b}) + 1
    BY <1>3, <2>1, FS_AddElement
  <2>3. QED
    BY <1>3, <2>2
<1>5. Cardinality(({a} \cup {b}) \cup {c}) <= Cardinality(S)
  <2>1. ({a} \cup {b}) \cup {c} \subseteq S
    OBVIOUS
  <2>2. QED
    BY <2>1, FS_Subset
<1>6. Cardinality(S) \in Nat
  BY FS_CardinalityType
<1>7. QED
  BY <1>4, <1>5, <1>6

\* Every class is met on the way from a root, and with it what derives from it.
LEMMA RootsReach ==
  ASSUME IsInput, NEW v \in Described(metadata)
  PROVE  \E r \in cha.roots : v \in Derived(metadata, <<r, 0>>)
<1> DEFINE S == UNION {Derived(metadata, <<r, 0>>) : r \in cha.roots}
<1>1. RootsArePrimary(metadata)
  BY ProgramsAssumption DEF IsInput, IsProgram, metadata
<1>2. ASSUME NEW w \in Described(metadata), IsRoot(metadata, w)
      PROVE  w \in S
  <2>1. PICK c \in DOMAIN metadata : w \in OwnVTables(metadata, c)
    BY DEF Described
  <2>2. w = <<c, 0>>
    BY <1>1, <1>2, <2>1, InputFacts, OwnVTableType DEF RootsArePrimary
  <2>3. c \in cha.roots
    BY <1>2, <2>1, InputFacts DEF RootClasses
  <2>4. w \in Derived(metadata, <<c, 0>>)
    BY <2>2, DerivedSelf
  <2>5. QED
    BY <2>3, <2>4
<1>3. \A w \in S : Children(metadata, w) \subseteq S
  BY DerivedClosed DEF ClosedUnderChildren
<1>4. Described(metadata) \subseteq S
  <2> HIDE DEF S
  <2>1. QED
    BY <1>2, <1>3, InputFacts, ForestReached
<1>5. QED
  BY <1>4

LEMMA ReachFacts ==
  ASSUME IsInput
  PROVE  /\ \A r \in cha.roots : Reach(r) \subseteq Classes
         /\ \A c \in Classes : \E r \in cha.roots : c \in Reach(r)
         /\ \A c \in Classes : \A d \in ClassesBelow(c) :
              \E r \in cha.roots : c \in Reach(r) /\ d \in Reach(r)
<1>1. \A v \in Described(metadata) : v[1] \in Classes
  BY InputFacts, OwnVTableType DEF Described, Classes
<1>2. \A c \in Classes : <<c, 0>> \in OwnVTables(metadata, c)
  BY InputFacts, PrimaryVTable DEF Classes
<1>3. \A c \in Classes : OwnVTables(metadata, c) \subseteq Described(metadata)
  BY DEF Described, Classes
<1>4. \A c \in Classes : \A v \in OwnVTables(metadata, c) : v[1] = c
  BY InputFacts, OwnVTableType DEF Classes
<1>5. \A r \in cha.roots : Reach(r) \subseteq Classes
  <2>1. \A r \in cha.roots : Derived(metadata, <<r, 0>>) \subseteq Described(metadata)
    BY <1>2, <1>3, InputFacts DEF Derived
  <2>2. QED
    BY <1>1, <2>1 DEF Reach
<1>6. ASSUME NEW c \in Classes, NEW v \in OwnVTables(metadata, c)
      PROVE  \E r \in cha.roots : /\ v \in Derived(metadata, <<r, 0>>)
                                  /\ c \in Reach(r)
  <2>1. PICK r \in cha.roots : v \in Derived(metadata, <<r, 0>>)
    BY <1>3, RootsReach
  <2>2. c \in Reach(r)
    BY <1>4, <2>1 DEF Reach
  <2>3. QED
    BY <2>1, <2>2
<1>7. \A c \in Classes : \E r \in cha.roots : c \in Reach(r)
  BY <1>2, <1>6
<1>8. ASSUME NEW c \in Classes, NEW d \in ClassesBelow(c)
      PROVE  \E r \in cha.roots : c \in Reach(r) /\ d \in Reach(r)
  <2>1. PICK v \in OwnVTables(metadata, c) : \E w \in DefinedBelow(v) : d = w[1]
    BY DEF ClassesBelow
  <2>2. PICK w \in Derived(metadata, v) : d = w[1]
    BY <2>1 DEF DefinedBelow
  <2>3. PICK r \in cha.roots : v \in Derived(metadata, <<r, 0>>) /\ c \in Reach(r)
    BY <1>6
  <2>4. Derived(metadata, v) \subseteq Derived(metadata, <<r, 0>>)
    <3>1. \A u \in Derived(metadata, <<r, 0>>) :
            Children(metadata, u) \subseteq Derived(metadata, <<r, 0>>)
      BY DerivedClosed DEF ClosedUnderChildren
    <3>2. QED
      BY <2>3, <3>1, DerivedLeast
  <2>5. d \in Reach(r)
    BY <2>2, <2>4 DEF Reach
  <2>6. QED
    BY <2>3, <2>5
<1>9. QED
  BY <1>5, <1>7, <1>8

\* With no class met twice, a root has an island of its own or that of a class met.
LEMMA IslandOfClass ==
  ASSUME IsInput, NEW r \in cha.roots
  PROVE  /\ NewClasses(r) = Reach(r) \ DOMAIN classToIslandRoot
         /\ NoClassTwice(r) /\ Reach(r) \cap DOMAIN classToIslandRoot # {} =>
              \E c \in Reach(r) \cap DOMAIN classToIslandRoot :
                IslandRoot(r) = classToIslandRoot[c]
<1> DEFINE P == Preorder(metadata, <<r, 0>>)
           met == [i \in DOMAIN P |-> P[i][1]]
           old(i) == met[i] \in DOMAIN classToIslandRoot
           again == {i \in DOMAIN met : old(i) \/ \E j \in 1 .. i - 1 : met[j] = met[i]}
<1>1. P \in Seq(VTable) /\ ToSet(P) = Derived(metadata, <<r, 0>>) /\ IsInjective(P)
  <2>1. <<r, 0>> \in Described(metadata)
    BY InputFacts, PrimaryVTable DEF Described, Classes
  <2>2. metadata \in {p.metadata : p \in Programs}
    BY DEF IsInput, metadata
  <2>3. QED
    BY <2>1, <2>2, PreorderAssumption
<1>2. Reach(r) = {v[1] : v \in ToSet(P)}
  BY <1>1 DEF Reach
<1>3. NewClasses(r) = Reach(r) \ DOMAIN classToIslandRoot
  BY <1>2 DEF NewClasses
<1>4. IslandRoot(r) = IF again = {} \/ ~ old(Min(again)) THEN r
                      ELSE classToIslandRoot[met[Min(again)]]
  BY DEF IslandRoot
<1>5. \A i \in DOMAIN P : met[i] = P[i][1] /\ met[i] \in Reach(r)
  BY <1>2 DEF ToSet
<1>6. \A c \in Reach(r) : \E i \in DOMAIN P : c = met[i]
  BY <1>2 DEF ToSet
<1>7. DOMAIN met = DOMAIN P /\ DOMAIN P \subseteq Nat
  BY <1>1
<1>8. ASSUME NoClassTwice(r), NEW i \in DOMAIN P, NEW j \in 1 .. i - 1, met[j] = met[i]
      PROVE  FALSE
  <2>1. i \in Nat /\ DOMAIN P = 1 .. Len(P) /\ Len(P) \in Nat
    BY <1>1
  <2>2. j \in DOMAIN P /\ j # i
    BY <2>1
  <2>3. P[i][1] = P[j][1]
    BY <1>5, <1>8, <2>2
  <2>4. P[i] \in ToSet(P) /\ P[j] \in ToSet(P)
    BY <2>2 DEF ToSet
  <2>5. P[i] = P[j]
    BY <1>8, <2>3, <2>4 DEF NoClassTwice
  <2>6. QED
    BY <1>1, <2>2, <2>5 DEF IsInjective
<1>9. ASSUME NoClassTwice(r), Reach(r) \cap DOMAIN classToIslandRoot # {}
      PROVE  \E c \in Reach(r) \cap DOMAIN classToIslandRoot :
               IslandRoot(r) = classToIslandRoot[c]
  <2>1. \A i \in again : old(i)
    BY <1>7, <1>8, <1>9
  <2>2. again # {}
    <3>1. PICK c \in Reach(r) : c \in DOMAIN classToIslandRoot
      BY <1>9
    <3>2. PICK i \in DOMAIN P : c = met[i]
      BY <1>6
    <3>3. i \in again
      BY <1>7, <3>1, <3>2
    <3>4. QED
      BY <3>3
  <2>3. again \subseteq DOMAIN P /\ again \subseteq Nat
    BY <1>7
  <2> HIDE DEF again
  <2>4. Min(again) \in again
    <3>1. \E x \in again : \A y \in again : x <= y
      BY <2>2, <2>3, LeastNat
    <3>2. QED
      BY <3>1 DEF Min
  <2>5. old(Min(again)) /\ Min(again) \in DOMAIN P
    BY <2>1, <2>3, <2>4
  <2>6. IslandRoot(r) = classToIslandRoot[met[Min(again)]]
    BY <1>4, <2>2, <2>5
  <2>7. met[Min(again)] \in Reach(r) \cap DOMAIN classToIslandRoot
    BY <1>5, <2>5
  <2> HIDE DEF met
  <2>8. QED
    BY <2>6, <2>7
<1>10. QED
  BY <1>3, <1>9

LEMMA SameReach ==
  ASSUME program' = program, cha' = cha
  PROVE  /\ \A r : Reach(r)' = Reach(r)
         /\ TidyIslands' <=> TidyIslands
<1>1. metadata' = metadata
  BY DEF metadata
<1>2. \A r : NoClassTwice(r)' <=> NoClassTwice(r)
  BY <1>1 DEF NoClassTwice
<1>3. QED
  BY <1>1, <1>2 DEF Reach, TidyIslands

LEMMA IslandsPrimed ==
  ASSUME program' = program, cha' = cha,
         DOMAIN classToIslandRoot' = UNION {Reach(r) : r \in Claimed'},
         TidyIslands =>
           \A r \in Claimed' : \A c, d \in Reach(r) :
             classToIslandRoot'[c] = classToIslandRoot'[d]
  PROVE  IslandsInv'
BY SameReach DEF IslandsInv

LEMMA IslandsKept ==
  ASSUME IslandsInv, program' = program, cha' = cha, Claimed' = Claimed,
         classToIslandRoot' = classToIslandRoot
  PROVE  IslandsInv'
BY IslandsPrimed DEF IslandsInv

\* A root that is claimed gets the island of the one claimed before if they meet.
LEMMA IslandsClaimed ==
  ASSUME IsInput, IslandsInv, TodoOK, NEW r \in todo, ClaimIsland(r)
  PROVE  IslandsInv'
<1> DEFINE root == IslandRoot(r)
           new == NewClasses(r)
           old == DOMAIN classToIslandRoot
<1>1. /\ pc = "islands" /\ pc' = pc /\ program' = program /\ cha' = cha
      /\ todo' = todo \ {r} /\ r \in cha.roots
      /\ classToIslandRoot' = Merge(classToIslandRoot, [c \in new |-> root])
  BY DEF ClaimIsland, TodoOK
<1>2. /\ new = Reach(r) \ old
      /\ NoClassTwice(r) /\ Reach(r) \cap old # {} =>
           \E c \in Reach(r) \cap old : root = classToIslandRoot[c]
  BY <1>1, IslandOfClass
<1>3. /\ old = UNION {Reach(q) : q \in Claimed}
      /\ TidyIslands =>
           \A q \in Claimed : \A c, d \in Reach(q) :
             classToIslandRoot[c] = classToIslandRoot[d]
  BY DEF IslandsInv
<1> HIDE DEF root, new
<1>4. /\ DOMAIN classToIslandRoot' = old \cup new
      /\ \A c \in old \cup new :
           classToIslandRoot'[c] = IF c \in new THEN root ELSE classToIslandRoot[c]
  BY <1>1 DEF Merge
<1>5. /\ Claimed = cha.roots \ todo /\ r \notin Claimed
      /\ Claimed' = Claimed \cup {r}
  BY <1>1 DEF Claimed
<1> HIDE DEF old
<1>6. old \cup new = UNION {Reach(q) : q \in Claimed \cup {r}}
  BY <1>2, <1>3
<1>7. ASSUME TidyIslands, NEW q \in Claimed, NEW c \in Reach(q), NEW d \in Reach(q)
      PROVE  classToIslandRoot'[c] = classToIslandRoot'[d]
  <2>1. {c, d} \subseteq old
    BY <1>3
  <2>2. classToIslandRoot[c] = classToIslandRoot[d]
    BY <1>3, <1>7
  <2>3. QED
    BY <1>2, <1>4, <2>1, <2>2
<1>8. ASSUME TidyIslands, NEW c \in Reach(r)
      PROVE  classToIslandRoot'[c] = root
  <2>1. CASE c \notin old
    BY <1>2, <1>4, <2>1
  <2>2. CASE c \in old
    <3>1. NoClassTwice(r)
      BY <1>1, <1>8 DEF TidyIslands
    <3>2. PICK d \in Reach(r) \cap old : root = classToIslandRoot[d]
      BY <1>2, <2>2, <3>1
    <3>3. PICK q \in Claimed : c \in Reach(q)
      BY <1>3, <2>2
    <3>4. PICK s \in Claimed : d \in Reach(s)
      BY <1>3, <3>2
    <3>5. q = s
      <4>1. Cardinality(cha.roots) <= 2
        BY <1>8 DEF TidyIslands
      <4>2. IsFiniteSet(cha.roots)
        <5>1. IsFiniteSet(Classes) /\ cha.roots \subseteq Classes
          BY InputFacts DEF IsMetadata, Classes
        <5>2. QED
          BY <5>1, FS_Subset
      <4>3. q \in cha.roots /\ s \in cha.roots /\ q # r /\ s # r
        BY <1>5
      <4>4. QED
        BY <1>1, <4>1, <4>2, <4>3, AtMostTwo
    <3>6. classToIslandRoot[c] = classToIslandRoot[d]
      BY <1>3, <1>8, <3>3, <3>4, <3>5
    <3>7. QED
      BY <1>2, <1>4, <2>2, <3>2, <3>6
  <2>3. QED
    BY <2>1, <2>2
<1>9. QED
  <2>1. DOMAIN classToIslandRoot' = UNION {Reach(q) : q \in Claimed'}
    BY <1>4, <1>5, <1>6
  <2>2. TidyIslands =>
          \A q \in Claimed' : \A c, d \in Reach(q) :
            classToIslandRoot'[c] = classToIslandRoot'[d]
    BY <1>5, <1>7, <1>8
  <2>3. QED
    BY <1>1, <2>1, <2>2, IslandsPrimed

LEMMA IslandsInvStep ==
  ASSUME HierarchiesInv, WorkInv, IslandsInv, [Next]_vars
  PROVE  IslandsInv'
<1> USE DEF AfterIslands, AfterCollect, AfterCallees
<1>1. pc' # "aborted" /\ TodoOK /\ IsInput
  BY HierarchiesStep DEF HierarchiesInv, WorkInv
<1>2. ASSUME program' = program, cha' = cha, classToIslandRoot' = classToIslandRoot,
             pc \notin {"islands"} \cup AfterIslands, pc' \notin {"islands"} \cup AfterIslands
      PROVE  IslandsInv'
  BY <1>2, IslandsKept DEF Claimed
<1>3. ASSUME program' = program, cha' = cha, classToIslandRoot' = classToIslandRoot,
             pc \in AfterIslands, pc' \in AfterIslands
      PROVE  IslandsInv'
  BY <1>3, IslandsKept DEF Claimed
<1>4. CASE SortStep
  BY <1>1, <1>2, <1>4, SortFrame DEF marx
<1>5. CASE BuildSubHierarchy
  BY <1>1, <1>2, <1>5, BuildFrame DEF marx
<1>6. CASE MatchStep
  <2>1. program' = program /\ cha' = cha
    BY <1>6, MatchFrame
  <2>2. ASSUME NEW v \in todo, MatchTargetsInVTable(v)
        PROVE  IslandsInv'
    BY <1>2, <2>1, <2>2 DEF MatchTargetsInVTable, marx
  <2>3. ASSUME NEW c \in todo, MatchTargetsInClass(c)
        PROVE  IslandsInv'
    BY <1>2, <2>1, <2>3 DEF MatchTargetsInClass, marx
  <2>4. ASSUME NEW r \in todo, ClaimIsland(r)
        PROVE  IslandsInv'
    BY <1>1, <2>4, IslandsClaimed
  <2>5. CASE CollectIslands
    BY <1>3, <2>1, <2>5 DEF CollectIslands
  <2>6. CASE FindAllVFunctions
    BY <1>3, <2>1, <2>6 DEF FindAllVFunctions, marx
  <2>7. QED
    BY <1>6, <2>2, <2>3, <2>4, <2>5, <2>6 DEF MatchStep
<1>7. CASE NextLoop
  <2>1. /\ program' = program /\ cha' = cha /\ classToIslandRoot' = classToIslandRoot
        /\ todo = {}
    BY <1>7, LoopFrame DEF marx, NextLoop
  <2>2. CASE pc \in {"sort", "hierarchies", "vtable targets"}
    <3>1. pc' \in {"hierarchies", "vtable targets", "class targets"}
      BY <1>7, <2>2 DEF NextLoop
    <3>2. QED
      BY <1>2, <2>1, <2>2, <3>1
  <2>3. CASE pc = "class targets"
    <3>1. pc' = "islands" /\ todo' = cha.roots
      BY <1>7, <2>3 DEF NextLoop
    <3>2. Claimed = {} /\ Claimed' = {}
      BY <2>1, <2>3, <3>1 DEF Claimed
    <3>3. QED
      BY <2>1, <3>2, IslandsKept
  <2>4. CASE pc = "islands"
    <3>1. pc' = "collect"
      BY <1>7, <2>4 DEF NextLoop
    <3>2. Claimed' = Claimed
      BY <2>1, <2>4, <3>1 DEF Claimed
    <3>3. QED
      BY <2>1, <3>2, IslandsKept
  <2>5. CASE pc \notin {"sort", "hierarchies", "vtable targets", "class targets", "islands"}
    <3>1. pc \in AfterIslands /\ pc' \in AfterIslands
      BY <1>7, <2>5 DEF NextLoop
    <3>2. QED
      BY <1>3, <2>1, <3>1
  <2>6. QED
    BY <2>2, <2>3, <2>4, <2>5
<1>8. CASE CallStep
  BY <1>3, <1>8, CallFrame DEF marx
<1>9. CASE StoreStep
  BY <1>3, <1>9, StoreFrame DEF marx
<1>10. CASE UNCHANGED vars
  <2>1. /\ program' = program /\ cha' = cha /\ classToIslandRoot' = classToIslandRoot
        /\ Claimed' = Claimed
    BY <1>10 DEF vars, marx, Claimed
  <2>2. QED
    BY <2>1, IslandsKept
<1>11. QED
  BY <1>4, <1>5, <1>6, <1>7, <1>8, <1>9, <1>10, StepCases

\* For every function of a class, what the classes of its island have at the last
\* offset of the function is collected.
CollectedInv ==
  pc \in AfterCollect =>
    \A c \in Classes : \A f \in NamesOf(c) :
      /\ <<f, c>> \in DOMAIN ClassToIsland
      /\ ClassToIsland[<<f, c>>] = IslandFunctions(classToIslandRoot[c], LastIn(c, f))

LEMMA SameIslands ==
  ASSUME program' = program, cha' = cha, islands' = islands,
         classToIslandRoot' = classToIslandRoot
  PROVE  /\ Classes' = Classes
         /\ \A c : NamesOf(c)' = NamesOf(c)
         /\ \A c, f : IslandFunctions(classToIslandRoot[c], LastIn(c, f))' =
                        IslandFunctions(classToIslandRoot[c], LastIn(c, f))
<1>1. Classes' = Classes /\ metadata' = metadata
  BY DEF Classes, metadata
<1>2. \A v : Offsets(v)' = Offsets(v) /\ Prefix(v)' = Prefix(v)
  BY DEF Offsets, Prefix
<1>3. \A v, o : NameAt(v, o)' = NameAt(v, o)
  BY <1>2 DEF NameAt
<1>4. \A c, o : NamesInClassAt(c, o)' = NamesInClassAt(c, o)
  BY <1>1, <1>2, <1>3 DEF NamesInClassAt
<1>5. \A c : OffsetsInClass(c)' = OffsetsInClass(c)
  BY <1>1, <1>2 DEF OffsetsInClass
<1>6. \A c : NamesOf(c)' = NamesOf(c)
  BY <1>4, <1>5 DEF NamesOf
<1>7. \A c, f : LastIn(c, f)' = LastIn(c, f)
  BY <1>4, <1>5 DEF LastIn
<1>8. \A d : isDefined(d)' <=> isDefined(d)
  BY <1>1 DEF isDefined
<1>9. \A r, o : IslandFunctions(r, o)' = IslandFunctions(r, o)
  BY <1>4, <1>8 DEF IslandFunctions
<1>10. \A c, f : IslandFunctions(classToIslandRoot[c], LastIn(c, f))' =
                   IslandFunctions(classToIslandRoot[c], LastIn(c, f))
  BY <1>7, <1>9
<1>11. QED
  BY <1>1, <1>6, <1>10

LEMMA CollectedPrimed ==
  ASSUME program' = program, cha' = cha, islands' = islands,
         classToIslandRoot' = classToIslandRoot,
         \A c \in Classes : \A f \in NamesOf(c) :
           /\ <<f, c>> \in DOMAIN ClassToIsland'
           /\ ClassToIsland'[<<f, c>>] = IslandFunctions(classToIslandRoot[c], LastIn(c, f))
  PROVE  CollectedInv'
<1>1. /\ Classes' = Classes
      /\ \A c : NamesOf(c)' = NamesOf(c)
      /\ \A c, f : IslandFunctions(classToIslandRoot[c], LastIn(c, f))' =
                     IslandFunctions(classToIslandRoot[c], LastIn(c, f))
  BY SameIslands
<1>2. (\A c \in Classes : \A f \in NamesOf(c) :
         /\ <<f, c>> \in DOMAIN ClassToIsland
         /\ ClassToIsland[<<f, c>>] = IslandFunctions(classToIslandRoot[c], LastIn(c, f)))'
  BY <1>1
<1>3. QED
  BY <1>2 DEF CollectedInv

LEMMA CollectedStep ==
  ASSUME HierarchiesInv, IslandsInv, CollectedInv, [Next]_vars
  PROVE  CollectedInv'
<1> USE DEF AfterCollect, AfterCallees
<1>1. pc' # "aborted" /\ IsInput
  BY HierarchiesStep DEF HierarchiesInv
<1>2. ASSUME program' = program, cha' = cha, marx' = marx, pc \in AfterCollect
      PROVE  CollectedInv'
  BY <1>2, CollectedPrimed DEF CollectedInv, marx
<1>3. ASSUME pc' \notin AfterCollect
      PROVE  CollectedInv'
  BY <1>3 DEF CollectedInv
<1>4. CASE CollectIslands
  <2> DEFINE keys == UNION {NamesOf(c) \X {c} : c \in DOMAIN classToIslandRoot}
  <2>1. /\ program' = program /\ cha' = cha /\ islands' = islands
        /\ classToIslandRoot' = classToIslandRoot /\ pc = "collect"
    BY <1>4 DEF CollectIslands
  <2>2. ClassToIsland' =
          [k \in keys |-> IslandFunctions(classToIslandRoot[k[2]], LastIn(k[2], k[1]))]
    BY <1>4 DEF CollectIslands, NamesOf, LastIn
  <2>3. Classes \subseteq DOMAIN classToIslandRoot
    <3>1. Claimed = cha.roots
      BY <2>1 DEF Claimed, AfterIslands
    <3>2. QED
      BY <1>1, <3>1, ReachFacts DEF IslandsInv
  <2>4. ASSUME NEW c \in Classes, NEW f \in NamesOf(c)
        PROVE  <<f, c>> \in keys
    BY <2>3
  <2> HIDE DEF keys
  <2>5. ASSUME NEW c \in Classes, NEW f \in NamesOf(c)
        PROVE  /\ <<f, c>> \in DOMAIN ClassToIsland'
               /\ ClassToIsland'[<<f, c>>] = IslandFunctions(classToIslandRoot[c], LastIn(c, f))
    BY <2>2, <2>4
  <2>6. QED
    BY <2>1, <2>5, CollectedPrimed
<1>5. CASE MatchStep
  <2>1. program' = program /\ cha' = cha
    BY <1>5, MatchFrame
  <2>2. ASSUME NEW v \in todo, MatchTargetsInVTable(v)
        PROVE  CollectedInv'
    BY <1>3, <2>2 DEF MatchTargetsInVTable
  <2>3. ASSUME NEW c \in todo, MatchTargetsInClass(c)
        PROVE  CollectedInv'
    BY <1>3, <2>3 DEF MatchTargetsInClass
  <2>4. ASSUME NEW r \in todo, ClaimIsland(r)
        PROVE  CollectedInv'
    BY <1>3, <2>4 DEF ClaimIsland
  <2>5. CASE FindAllVFunctions
    BY <1>2, <2>1, <2>5 DEF FindAllVFunctions
  <2>6. QED
    BY <1>4, <1>5, <2>2, <2>3, <2>4, <2>5 DEF MatchStep
<1>6. CASE SortStep
  BY <1>1, <1>3, <1>6, SortFrame
<1>7. CASE BuildSubHierarchy
  BY <1>1, <1>3, <1>7, BuildFrame
<1>8. CASE NextLoop
  <2>1. program' = program /\ cha' = cha /\ marx' = marx
    BY <1>8, LoopFrame
  <2>2. pc' \in AfterCollect => pc \in AfterCollect
    BY <1>8 DEF NextLoop
  <2>3. QED
    BY <1>2, <1>3, <2>1, <2>2
<1>9. CASE CallStep
  BY <1>2, <1>9, CallFrame
<1>10. CASE StoreStep
  BY <1>2, <1>10, StoreFrame
<1>11. CASE UNCHANGED vars
  <2>1. program' = program /\ cha' = cha /\ marx' = marx /\ pc' = pc
    BY <1>11 DEF vars
  <2>2. QED
    BY <1>2, <1>3, <2>1
<1>12. QED
  BY <1>5, <1>6, <1>7, <1>8, <1>9, <1>10, <1>11, StepCases

\* What was found for a call is what is filed now: nothing is filed any more.
MatchesInv ==
  \A i \in Analysed :
    Data[<<"virtual", i>>].hierarchy = HierarchyMatches(program.calls[i])

LEMMA MatchesStep ==
  ASSUME HierarchiesInv, FoundInv, MatchesInv, [Next]_vars
  PROVE  MatchesInv'
<1> USE DEF AfterCallees
<1>1. FoundInv'
  BY FoundStep
<1>2. ASSUME pc' \notin AfterCallees
      PROVE  MatchesInv'
  BY <1>1, <1>2 DEF FoundInv, MatchesInv, Analysed
<1>3. ASSUME program' = program, targets' = targets, marx' = marx, functions' = functions
      PROVE  \A i : HierarchyMatches(program.calls[i])' = HierarchyMatches(program.calls[i])
  BY <1>3 DEF HierarchyMatches, targets, marx, functions
<1>4. ASSUME program' = program, targets' = targets, marx' = marx, functions' = functions,
             \A i \in Analysed' :
               \/ i \in Analysed /\ Data'[<<"virtual", i>>] = Data[<<"virtual", i>>]
               \/ Data'[<<"virtual", i>>].hierarchy = HierarchyMatches(program.calls[i])
      PROVE  MatchesInv'
  BY <1>3, <1>4 DEF MatchesInv
<1>5. ASSUME program' = program, targets' = targets, marx' = marx, functions' = functions,
             sites' = sites
      PROVE  MatchesInv'
  <2>1. Data' = Data /\ Analysed' = Analysed
    BY <1>5 DEF sites, Analysed, Calls
  <2>2. QED
    BY <1>4, <1>5, <2>1
<1>6. HierarchiesInv'
  BY HierarchiesStep
<1>7. CASE SortStep
  BY <1>2, <1>6, <1>7, SortFrame DEF HierarchiesInv
<1>8. CASE BuildSubHierarchy
  BY <1>2, <1>6, <1>8, BuildFrame DEF HierarchiesInv
<1>9. CASE MatchStep
  BY <1>2, <1>9, MatchFrame DEF Matching
<1>10. CASE NextLoop
  BY <1>5, <1>10, LoopFrame
<1>11. CASE StoreStep
  BY <1>5, <1>11, StoreFrame
<1>12. CASE UNCHANGED vars
  BY <1>5, <1>12 DEF vars
<1>13. ASSUME NEW f \in todo, AnalyseCallee(f)
       PROVE  MatchesInv'
  BY <1>2, <1>13 DEF AnalyseCallee
<1>14. ASSUME NEW i \in todo, ProcessVirtualCallSite(i)
       PROVE  MatchesInv'
  <2> DEFINE call == program.calls[i]
             info == [types |-> CallSiteInfo(program.sites[call.site]),
                      hierarchy |-> HierarchyMatches(call)]
  <2>1. /\ program' = program /\ targets' = targets /\ marx' = marx
        /\ functions' = functions
    BY <1>14 DEF ProcessVirtualCallSite
  <2>2. CASE call.site = 0
    <3>1. sites' = sites
      BY <1>14, <2>2 DEF ProcessVirtualCallSite
    <3>2. QED
      BY <1>5, <2>1, <3>1
  <2>3. CASE call.site # 0
    <3>1. Data' = Merge(Data, [x \in {<<"virtual", i>>} |-> info])
      BY <1>14, <2>3 DEF ProcessVirtualCallSite
    <3>2. info.hierarchy = HierarchyMatches(call)
      OBVIOUS
    <3> HIDE DEF info, call
    <3>3. /\ DOMAIN Data' = DOMAIN Data \cup {<<"virtual", i>>}
          /\ \A x \in DOMAIN Data' : Data'[x] = IF x = <<"virtual", i>> THEN info ELSE Data[x]
      BY <3>1 DEF Merge
    <3>4. ASSUME NEW j \in Analysed'
          PROVE  \/ j \in Analysed /\ Data'[<<"virtual", j>>] = Data[<<"virtual", j>>]
                 \/ Data'[<<"virtual", j>>].hierarchy = HierarchyMatches(program.calls[j])
      <4>1. <<"virtual", j>> \in DOMAIN Data' /\ j \in Calls
        BY <2>1, <3>4 DEF Analysed, Calls
      <4>2. CASE j = i
        <5>1. Data'[<<"virtual", j>>] = info
          BY <3>3, <4>1, <4>2
        <5>2. QED
          BY <3>2, <4>2, <5>1 DEF call
      <4>3. CASE j # i
        BY <3>3, <4>1, <4>3 DEF Analysed
      <4>4. QED
        BY <4>2, <4>3
    <3>5. QED
      BY <1>4, <2>1, <3>4
  <2>4. QED
    BY <2>2, <2>3
<1>15. ASSUME NEW s \in todo, ProcessIndirectCallSite(s)
       PROVE  MatchesInv'
  <2> DEFINE new == [x \in {<<"indirect", s>>} |-> [types |-> CallSiteInfo(program.sites[s])]]
  <2>1. /\ program' = program /\ targets' = targets /\ marx' = marx
        /\ functions' = functions /\ (Data' = Data \/ Data' = Merge(Data, new))
    BY <1>15 DEF ProcessIndirectCallSite
  <2>2. DOMAIN new = {<<"indirect", s>>}
    OBVIOUS
  <2> HIDE DEF new
  <2>3. ASSUME NEW j \in Analysed'
        PROVE  j \in Analysed /\ Data'[<<"virtual", j>>] = Data[<<"virtual", j>>]
    <3>1. <<"virtual", j>> \in DOMAIN Data' /\ j \in Calls
      BY <2>1, <2>3 DEF Analysed, Calls
    <3>2. <<"virtual", j>> \notin DOMAIN new
      BY <2>2
    <3>3. QED
      BY <2>1, <3>1, <3>2 DEF Merge, Analysed
  <2>4. QED
    BY <1>4, <2>1, <2>3
<1>16. CASE CallStep
  BY <1>13, <1>14, <1>15, <1>16 DEF CallStep
<1>17. QED
  BY <1>7, <1>8, <1>9, <1>10, <1>11, <1>12, <1>16, StepCases

------------------------------------------------------------------------------
(* What a call may reach by its place in the hierarchy                       *)

\* What is filed, and where it comes from.
PlacesInv ==
  /\ HierarchiesInv /\ WorkInv /\ FoundInv
  /\ VTableTargetsInv /\ ClassTargetsInv
  /\ IslandsInv /\ CollectedInv /\ MatchesInv

LEMMA PlacesStep ==
  ASSUME PlacesInv, [Next]_vars
  PROVE  PlacesInv'
<1>1. HierarchiesInv' /\ FoundInv' /\ MatchesInv'
  BY HierarchiesStep, FoundStep, MatchesStep DEF PlacesInv
<1>2. WorkInv'
  <2>1. HierarchiesInv /\ WorkInv
    BY DEF PlacesInv
  <2>2. QED
    BY <2>1, TodoStep, KeysStep, IslandsStep, SitesStep DEF WorkInv
<1>3. VTableTargetsInv' /\ ClassTargetsInv'
  BY VTableTargetsStep, ClassTargetsStep DEF PlacesInv
<1>4. IslandsInv' /\ CollectedInv'
  BY IslandsInvStep, CollectedStep DEF PlacesInv
<1>5. QED
  BY <1>1, <1>2, <1>3, <1>4 DEF PlacesInv

\* What a call finds was filed for its function, at a place where the class has it.
LEMMA CallPlaces ==
  ASSUME PlacesInv, NEW i \in Analysed
  PROVE  LET call == program.calls[i]
             c    == call.class
             f    == call.function
             h    == Data[<<"virtual", i>>].hierarchy
         IN  /\ pc \in AfterCallees /\ IsInput /\ i \in Calls /\ c \in Classes
             /\ <<c, 0>> \in OwnVTables(metadata, c)
             /\ call.index + 1 \in DOMAIN program.entry[<<c, 0>>]
             /\ program.entry[<<c, 0>>][call.index + 1] = f /\ f # NoName
             /\ \E v \in OwnVTables(metadata, c) :
                  f \in NamesAt(v) /\ h.ShrinkWrap = VTableTargets(v, f)
             /\ f \in NamesOf(c)
             /\ h.VTV = ClassTargets(c, f)
             /\ h.Marx = IslandFunctions(classToIslandRoot[c], LastIn(c, f))
<1> DEFINE call == program.calls[i]
           c == call.class
           f == call.function
           h == Data[<<"virtual", i>>].hierarchy
           k == call.index + 1
<1>1. pc \in AfterCallees /\ IsInput /\ i \in Calls
  BY DEF PlacesInv, FoundInv, HierarchiesInv, Analysed
<1>2. /\ c \in Classes /\ k \in DOMAIN program.entry[<<c, 0>>]
      /\ program.entry[<<c, 0>>][k] = f /\ f # NoName
  BY <1>1, ProgramsAssumption DEF IsInput, IsProgram, Calls, Classes, metadata
<1>3. h = HierarchyMatches(call)
  BY DEF PlacesInv, MatchesInv
<1>4. /\ h.ShrinkWrap = Lookup(VTableSubHierarchyPerFunction, <<f, c>>)
      /\ h.VTV = Lookup(ClassSubHierarchyPerFunction, <<f, c>>)
      /\ h.Marx = Lookup(ClassToIsland, <<f, c>>)
  BY <1>3 DEF HierarchyMatches
<1> HIDE DEF c, f, h, k
<1>5. <<c, 0>> \in OwnVTables(metadata, c) /\ <<c, 0>> \in VTables
  BY <1>1, <1>2, InputFacts, PrimaryVTable DEF Described, Classes
<1>6. f \in NamesAt(<<c, 0>>)
  BY <1>1, <1>2, <1>5, PlaceOfName DEF NamesAt
<1>7. f \in NamesOf(c)
  BY <1>1, <1>2, <1>5, <1>6, LastIsPlace
<1>8. pc \in AfterVTables /\ pc \in AfterClasses /\ pc \in AfterCollect
  BY <1>1 DEF AfterVTables, AfterClasses, AfterIslands, AfterCollect
<1>9. \E v \in OwnVTables(metadata, c) : f \in NamesAt(v) /\ h.ShrinkWrap = VTableTargets(v, f)
  <2>1. <<f, c>> \in DOMAIN VTableSubHierarchyPerFunction
    <3>1. NamesAt(<<c, 0>>) \X {<<c, 0>>[1]} \subseteq DOMAIN VTableSubHierarchyPerFunction
      BY <1>5, <1>8 DEF PlacesInv, VTableTargetsInv
    <3>2. <<f, c>> \in NamesAt(<<c, 0>>) \X {<<c, 0>>[1]}
      BY <1>6
    <3>3. QED
      BY <3>1, <3>2
  <2>2. PICK v \in OwnVTables(metadata, <<f, c>>[2]) :
          /\ <<f, c>>[1] \in NamesAt(v)
          /\ VTableSubHierarchyPerFunction[<<f, c>>] = VTableTargets(v, <<f, c>>[1])
    BY <2>1 DEF PlacesInv, VTableTargetsInv
  <2>3. h.ShrinkWrap = VTableSubHierarchyPerFunction[<<f, c>>]
    BY <1>4, <2>1 DEF Lookup
  <2>4. QED
    BY <2>2, <2>3
<1>10. h.VTV = ClassTargets(c, f)
  BY <1>2, <1>4, <1>7, <1>8 DEF PlacesInv, ClassTargetsInv, Lookup
<1>11. h.Marx = IslandFunctions(classToIslandRoot[c], LastIn(c, f))
  BY <1>2, <1>4, <1>7, <1>8 DEF PlacesInv, CollectedInv, Lookup
<1>12. QED
  BY <1>1, <1>2, <1>5, <1>7, <1>9, <1>10, <1>11 DEF c, f, h, k

LEMMA BelowFacts ==
  ASSUME HierarchiesInv, pc \in AfterCallees
  PROVE  /\ \A c \in Classes : \A v \in OwnVTables(metadata, c) :
              v \in VTables /\ v[1] = c /\ VTableSubHierarchy[v] = DefinedBelow(v)
         /\ \A v \in VTables : DefinedBelow(v) \subseteq VTables
         /\ \A v \in VTables : v \in OwnVTables(metadata, v[1]) /\ v[1] \in Classes
         /\ \A c \in Classes : ClassSubHierarchy[c] = ClassesBelow(c)
<1>1. /\ IsInput /\ Exact
      /\ DOMAIN VTableSubHierarchy = Described(metadata) /\ DOMAIN ClassSubHierarchy = Classes
  BY DEF HierarchiesInv, AfterCallees
<1>2. VTables = Described(metadata)
  BY <1>1, InputFacts
<1>3. \A c \in Classes : \A v \in OwnVTables(metadata, c) :
        v \in VTables /\ v[1] = c /\ v \in OwnVTables(metadata, v[1])
  BY <1>1, <1>2, InputFacts, OwnVTableType DEF Described, Classes
<1>4. \A v \in VTables : v \in OwnVTables(metadata, v[1]) /\ v[1] \in Classes
  BY <1>2, <1>3 DEF Described, Classes
<1>5. \A v \in VTables : VTableSubHierarchy[v] = DefinedBelow(v) /\ DefinedBelow(v) \subseteq VTables
  BY <1>1, <1>2 DEF Exact, DefinedBelow, Derived
<1>6. QED
  BY <1>1, <1>3, <1>4, <1>5 DEF Exact

\* Below a class, the overriders of a function are the same in all places where the
\* class has it.
LEMMA SamePlace ==
  ASSUME HierarchiesInv, pc \in AfterCallees, NEW i \in Calls,
         program.calls[i].class \in Classes, AlignedBelow(program.calls[i].class),
         program.calls[i].function # NoName,
         NEW v \in OwnVTables(metadata, program.calls[i].class),
         NEW w \in OwnVTables(metadata, program.calls[i].class),
         NEW o \in Offsets(v), NameAt(v, o) = program.calls[i].function,
         NEW q \in Offsets(w), NameAt(w, q) = program.calls[i].function,
         NEW x \in DefinedBelow(v)
  PROVE  \E y \in DefinedBelow(w) :
           y[1] = x[1] /\ q \in Offsets(y) /\ NameAt(y, q) = NameAt(x, o)
<1> DEFINE c == program.calls[i].class
           f == program.calls[i].function
<1>1. IsInput
  BY DEF HierarchiesInv
<1>2. v \in VTables /\ w \in VTables /\ x \in VTables
  BY BelowFacts
<1>3. PICK k \in DOMAIN program.entry[v] :
        o = Prefix(v) + k - 1 /\ program.entry[v][k] # NoName
        /\ NameAt(v, o) = program.entry[v][k]
  BY <1>1, <1>2, PlaceOfName
<1>4. PICK l \in DOMAIN program.entry[w] :
        q = Prefix(w) + l - 1 /\ program.entry[w][l] # NoName
        /\ NameAt(w, q) = program.entry[w][l]
  BY <1>1, <1>2, PlaceOfName
<1>5. program.entry[v][k] = f /\ program.entry[w][l] = f
  BY <1>3, <1>4
<1>6. OneOverrider(program)
  BY <1>1, ProgramsAssumption DEF IsInput, IsProgram
<1>7. x \in Derived(metadata, v) /\ isDefined(x[1])
  BY DEF DefinedBelow
<1>8. /\ k \in DOMAIN program.entry[x] /\ program.entry[x][k] # NoName
      /\ \E y \in Derived(metadata, w) :
           /\ y[1] = x[1] /\ l \in DOMAIN program.entry[y]
           /\ program.entry[y][l] = program.entry[x][k]
  BY <1>5, <1>6, <1>7 DEF OneOverrider, Calls, metadata
<1>9. PICK y \in Derived(metadata, w) :
        /\ y[1] = x[1] /\ l \in DOMAIN program.entry[y]
        /\ program.entry[y][l] = program.entry[x][k]
  BY <1>8
<1>10. y \in DefinedBelow(w)
  BY <1>7, <1>9 DEF DefinedBelow
<1>11. y \in VTables
  BY <1>2, <1>10, BelowFacts
<1>12. Prefix(x) = Prefix(v) /\ Prefix(y) = Prefix(w)
  BY <1>10, BelowFacts DEF AlignedBelow
<1>13. o = Prefix(x) + k - 1 /\ q = Prefix(y) + l - 1
  BY <1>3, <1>4, <1>12
<1>14. o \in Offsets(x) /\ NameAt(x, o) = program.entry[x][k]
  <2>1. Prefix(x) + k - 1 \in Offsets(x)
    BY <1>1, <1>2, <1>8, PlaceOfName
  <2>2. o \in Offsets(x)
    BY <1>13, <2>1
  <2>3. QED
    BY <1>1, <1>2, <1>8, <1>13, <2>2, PlaceOfName
<1>15. q \in Offsets(y) /\ NameAt(y, q) = program.entry[y][l]
  <2>1. Prefix(y) + l - 1 \in Offsets(y)
    BY <1>1, <1>8, <1>9, <1>11, PlaceOfName
  <2>2. q \in Offsets(y)
    BY <1>13, <2>1
  <2>3. QED
    BY <1>1, <1>9, <1>11, <1>13, <2>2, PlaceOfName
<1>16. QED
  BY <1>9, <1>10, <1>14, <1>15

\* A function that a class of the sub-hierarchy has is in the set of the class.
LEMMA ShrinkWrapInVTV ==
  ASSUME PlacesInv, NEW i \in Analysed, AlignedBelow(program.calls[i].class)
  PROVE  LET h == Data[<<"virtual", i>>].hierarchy
         IN  h.ShrinkWrap \subseteq h.VTV
<1> DEFINE c == program.calls[i].class
           f == program.calls[i].function
           h == Data[<<"virtual", i>>].hierarchy
<1>1. /\ pc \in AfterCallees /\ IsInput /\ i \in Calls /\ c \in Classes /\ f # NoName
      /\ f \in NamesOf(c) /\ h.VTV = ClassTargets(c, f)
  BY CallPlaces
<1>2. PICK v \in OwnVTables(metadata, c) : f \in NamesAt(v) /\ h.ShrinkWrap = VTableTargets(v, f)
  BY CallPlaces
<1> DEFINE o == LastAt(v, f)
           q == LastIn(c, f)
<1>3. o \in Offsets(v) /\ NameAt(v, o) = f
  BY <1>1, <1>2, LastIsPlace
<1>4. PICK w \in OwnVTables(metadata, c) : q \in Offsets(w) /\ NameAt(w, q) = f
  BY <1>1, LastIsPlace
<1>5. HierarchiesInv
  BY DEF PlacesInv
<1> HIDE DEF h, o, q
<1>6. ASSUME NEW g \in VTableTargets(v, f)
      PROVE  g \in ClassTargets(c, f)
  <2>1. PICK x \in DefinedBelow(v) : g = NameAt(x, o)
    BY <1>1, <1>5, BelowFacts DEF VTableTargets, o
  <2>2. PICK y \in DefinedBelow(w) : y[1] = x[1] /\ q \in Offsets(y) /\ NameAt(y, q) = NameAt(x, o)
    BY <1>1, <1>3, <1>4, <1>5, SamePlace
  <2>3. y \in OwnVTables(metadata, y[1])
    BY <1>1, <1>5, BelowFacts
  <2>4. g \in NamesInClassAt(y[1], q)
    BY <2>1, <2>2, <2>3 DEF NamesInClassAt
  <2>5. y[1] \in ClassSubHierarchy[c]
    BY <1>1, <1>5, BelowFacts DEF ClassesBelow
  <2>6. QED
    BY <2>4, <2>5 DEF ClassTargets, q
<1>7. QED
  BY <1>1, <1>2, <1>6 DEF h

\* The classes below a class are in its island.
LEMMA VTVInMarx ==
  ASSUME PlacesInv, NEW i \in Analysed, TidyIslands
  PROVE  LET h == Data[<<"virtual", i>>].hierarchy
         IN  h.VTV \subseteq h.Marx
<1> DEFINE c == program.calls[i].class
           f == program.calls[i].function
           h == Data[<<"virtual", i>>].hierarchy
           q == LastIn(c, f)
<1>1. /\ pc \in AfterCallees /\ IsInput /\ c \in Classes
      /\ h.VTV = ClassTargets(c, f) /\ h.Marx = IslandFunctions(classToIslandRoot[c], q)
  BY CallPlaces
<1>2. HierarchiesInv /\ IslandsInv /\ IslandsOK
  BY DEF PlacesInv, WorkInv
<1>3. ClassTargets(c, f) = UNION {NamesInClassAt(d, q) : d \in ClassesBelow(c)}
  BY <1>1, <1>2, BelowFacts DEF ClassTargets
<1> HIDE DEF h, q
<1>4. ASSUME NEW d \in ClassesBelow(c)
      PROVE  d \in Lookup(islands, classToIslandRoot[c]) /\ isDefined(d)
  <2>1. PICK r \in cha.roots : c \in Reach(r) /\ d \in Reach(r)
    BY <1>1, ReachFacts
  <2>2. Claimed = cha.roots
    BY <1>1 DEF Claimed, AfterIslands, AfterCollect, AfterCallees
  <2>3. classToIslandRoot[c] = classToIslandRoot[d] /\ d \in DOMAIN classToIslandRoot
    BY <1>2, <2>1, <2>2 DEF IslandsInv
  <2>4. d \in Lookup(islands, classToIslandRoot[d])
    BY <1>2, <2>3 DEF IslandsOK, Lookup
  <2>5. isDefined(d)
    BY DEF ClassesBelow, DefinedBelow
  <2>6. QED
    BY <2>3, <2>4, <2>5
<1>5. UNION {NamesInClassAt(d, q) : d \in ClassesBelow(c)} \subseteq IslandFunctions(classToIslandRoot[c], q)
  BY <1>4 DEF IslandFunctions
<1>6. QED
  BY <1>1, <1>3, <1>5 DEF h

\* What an island has in its defined classes is in a vtable.
LEMMA MarxIsVirtual ==
  ASSUME PlacesInv, NEW i \in Analysed
  PROVE  Data[<<"virtual", i>>].hierarchy.Marx \subseteq AllVFunctions
<1> DEFINE c == program.calls[i].class
           f == program.calls[i].function
           r == classToIslandRoot[c]
           q == LastIn(c, f)
<1>1. /\ pc \in AfterCallees /\ IsInput
      /\ Data[<<"virtual", i>>].hierarchy.Marx = IslandFunctions(r, q)
  BY CallPlaces
<1>2. HierarchiesInv /\ FoundInv /\ IslandsOK
  BY DEF PlacesInv, WorkInv
<1> HIDE DEF r, q
<1>3. ASSUME NEW g \in IslandFunctions(r, q)
      PROVE  g \in AllVFunctions
  <2>1. PICK d \in Lookup(islands, r) : isDefined(d) /\ g \in NamesInClassAt(d, q)
    BY DEF IslandFunctions
  <2>2. d \in Classes
    BY <1>2 DEF IslandsOK, Lookup
  <2>3. PICK v \in OwnVTables(metadata, d) : q \in Offsets(v) /\ g = NameAt(v, q)
    BY <2>1 DEF NamesInClassAt
  <2>4. v \in VTables /\ v[1] = d
    BY <1>1, <1>2, <2>2, BelowFacts
  <2>5. InVTable(g)
    BY <1>1, <2>1, <2>3, <2>4, NameAtOffset DEF InVTable
  <2>6. QED
    BY <1>1, <1>2, <2>5 DEF FoundInv
<1>4. QED
  BY <1>1, <1>3

\* What a call may reach in a program that breaks no rule is at its place in the
\* vtables below.
LEMMA LegalInShrinkWrap ==
  ASSUME PlacesInv, NEW i \in Analysed, AlignedBelow(program.calls[i].class)
  PROVE  LegalTargets(i) \subseteq Data[<<"virtual", i>>].hierarchy.ShrinkWrap
<1> DEFINE c == program.calls[i].class
           f == program.calls[i].function
           h == Data[<<"virtual", i>>].hierarchy
           u == <<c, 0>>
           n == program.calls[i].index
           k == n + 1
<1>1. /\ pc \in AfterCallees /\ IsInput /\ i \in Calls /\ c \in Classes /\ f # NoName
      /\ u \in OwnVTables(metadata, c)
      /\ k \in DOMAIN program.entry[u] /\ program.entry[u][k] = f
  BY CallPlaces
<1>2. PICK v \in OwnVTables(metadata, c) : f \in NamesAt(v) /\ h.ShrinkWrap = VTableTargets(v, f)
  BY CallPlaces
<1>3. HierarchiesInv
  BY DEF PlacesInv
<1>4. IsProgram(program)
  BY <1>1, ProgramsAssumption DEF IsInput
<1>5. n \in Nat
  BY <1>1, <1>4 DEF IsProgram, Calls
<1> DEFINE o == Prefix(u) + k - 1
           q == LastAt(v, f)
<1>6. q \in Offsets(v) /\ NameAt(v, q) = f
  BY <1>1, <1>2, LastIsPlace
<1>7. u \in VTables
  BY <1>1, <1>3, BelowFacts
<1>8. o \in Offsets(u) /\ NameAt(u, o) = f
  BY <1>1, <1>7, PlaceOfName
<1>9. ASSUME NEW g \in LegalTargets(i)
      PROVE  g \in VTableTargets(v, f)
  <2>1. PICK x \in DefinedBelow(u) : Len(program.entry[x]) > n /\ g = program.entry[x][k]
    BY DEF LegalTargets
  <2>2. g # NoName
    BY <1>4 DEF LegalTargets, IsProgram
  <2>3. x \in VTables /\ x \in Described(metadata)
    BY <1>1, <1>3, <1>7, BelowFacts, InputFacts
  <2>4. k \in DOMAIN program.entry[x]
    <3>1. program.entry[x] \in Seq(FunctionName)
      BY <1>4, <2>3 DEF IsProgram, metadata
    <3> DEFINE m == Len(program.entry[x])
    <3>2. m \in Nat /\ m > n /\ DOMAIN program.entry[x] = 1 .. m
      BY <2>1, <3>1
    <3> HIDE DEF m, n
    <3>3. n + 1 \in 1 .. m
      BY <1>5, <3>2
    <3>4. QED
      BY <3>2, <3>3
  <2>5. Prefix(x) = Prefix(u)
    BY <1>1, <1>3, BelowFacts DEF AlignedBelow
  <2>6. NameAt(x, o) = g
    <3>1. Prefix(x) + k - 1 \in Offsets(x)
      BY <1>1, <2>1, <2>2, <2>3, <2>4, PlaceOfName
    <3>2. o = Prefix(x) + k - 1
      BY <2>5
    <3> HIDE DEF o, k
    <3>3. QED
      BY <1>1, <2>1, <2>3, <2>4, <3>1, <3>2, PlaceOfName
  <2> HIDE DEF o, k
  <2>7. PICK y \in DefinedBelow(v) : q \in Offsets(y) /\ NameAt(y, q) = NameAt(x, o)
    BY <1>1, <1>3, <1>6, <1>8, SamePlace
  <2>8. VTableSubHierarchy[v] = DefinedBelow(v)
    BY <1>1, <1>3, BelowFacts
  <2>9. QED
    BY <2>6, <2>7, <2>8 DEF VTableTargets
<1>10. QED
  BY <1>2, <1>9

LEMMA PlacesInit ==
  ASSUME Init
  PROVE  PlacesInv
<1>1. pc = "sort" /\ DOMAIN Data = {} /\ DOMAIN VTableSubHierarchyPerFunction = {}
  BY DEF Init, EmptyMap
<1>2. Analysed = {}
  BY <1>1 DEF Analysed
<1>3. HierarchiesInv /\ IsInput
  BY HierarchiesInit DEF HierarchiesInv
<1>4. WorkInv
  BY <1>1 DEF Init, EmptyMap, WorkInv, TodoOK, Loops, KeysOK, IslandsOK, SitesOK
<1>5. FoundInv /\ MatchesInv
  BY <1>1, <1>2 DEF FoundInv, MatchesInv, AfterCallees
<1> USE DEF AfterVTables, AfterClasses, AfterIslands, AfterCollect, AfterCallees
<1>6. VTableTargetsInv /\ ClassTargetsInv
  BY <1>1 DEF VTableTargetsInv, ClassTargetsInv
<1>7. IslandsInv
  <2>1. Claimed = {} /\ DOMAIN classToIslandRoot = {}
    BY <1>1 DEF Claimed, Init, EmptyMap
  <2>2. QED
    BY <2>1 DEF IslandsInv
<1>8. CollectedInv
  BY <1>1 DEF CollectedInv
<1>9. QED
  BY <1>3, <1>4, <1>5, <1>6, <1>7, <1>8 DEF PlacesInv

\* What is filed for functions, by vtables, classes and islands.
THEOREM PlacesInvariant == Spec => []PlacesInv
<1>1. Init => PlacesInv
  BY PlacesInit
<1>2. PlacesInv /\ [Next]_vars => PlacesInv'
  BY PlacesStep
<1>3. QED
  BY <1>1, <1>2, PTL DEF Spec

\* The sets of the policies of the hierarchy grow from sub-vtables to classes, islands
\* and all vtables.
THEOREM PoliciesNest == Spec => []PoliciesNested
<1>1. PlacesInv => PoliciesNested
  BY ShrinkWrapInVTV, VTVInMarx, MarxIsVirtual DEF PoliciesNested
<1>2. QED
  BY <1>1, PlacesInvariant, PTL

\* No policy of the hierarchy forbids a legal call.
THEOREM LegalByHierarchy == Spec => []LegalTargetsAllowed
<1>1. PlacesInv => LegalTargetsAllowed
  <2> SUFFICES ASSUME PlacesInv, NEW i \in Analysed, AlignedBelow(program.calls[i].class)
               PROVE  LET h == Data[<<"virtual", i>>].hierarchy
                      IN  /\ LegalTargets(i) \subseteq h.ShrinkWrap
                          /\ LegalTargets(i) \subseteq h.VTV
                          /\ TidyIslands => LegalTargets(i) \subseteq h.Marx
    BY DEF LegalTargetsAllowed
  <2>1. LegalTargets(i) \subseteq Data[<<"virtual", i>>].hierarchy.ShrinkWrap
    BY LegalInShrinkWrap
  <2>2. LET h == Data[<<"virtual", i>>].hierarchy
        IN  h.ShrinkWrap \subseteq h.VTV /\ (TidyIslands => h.VTV \subseteq h.Marx)
    BY ShrinkWrapInVTV, VTVInMarx
  <2>3. QED
    BY <2>1, <2>2
<1>2. QED
  BY <1>1, PlacesInvariant, PTL

==============================================================================
