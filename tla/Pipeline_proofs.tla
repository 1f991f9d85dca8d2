--------------------------- MODULE Pipeline_proofs ---------------------------
(****************************************************************************)
(* Proofs about a build, for every set of sources and options: the order    *)
(* the pass manager runs the passes in, and what the passes find and leave. *)
(****************************************************************************)
EXTENDS Pipeline, Hierarchy_proofs

------------------------------------------------------------------------------
(* The schedule                                                              *)

\* A required pass that is available is not scheduled again.
LEMMA NothingToProvide ==
  ASSUME NEW s, NEW n \in 0 .. 2, NEW r, DOMAIN r = 1 .. n,
         \A i \in 1 .. n : r[i] \in s.available
  PROVE  FoldLeft(ProvideAll, s, r) = s
<1> DEFINE D == 1 .. n
           Is(F) == F = [S \in SUBSET D |->
                           IF S = {} THEN s
                           ELSE LET i == Max(S) IN ProvideAll(F[S \ {i}], r[i])]
           G == [S \in SUBSET D |-> s]
<1>1. \A S \in SUBSET D : S # {} => Max(S) \in S
  <2>1. SUFFICES ASSUME NEW S \in SUBSET D, S # {}
                 PROVE  \E x \in S : \A y \in S : x >= y
    BY DEF Max
  <2>2. CASE 2 \in S
    BY <2>2
  <2>3. CASE 2 \notin S
    BY <2>1, <2>3
  <2>4. QED
    BY <2>2, <2>3
<1>2. \A i \in D : ProvideAll(s, r[i]) = s
  BY DEF ProvideAll
<1>3. Is(G)
  BY <1>1, <1>2
<1>4. ASSUME NEW F, Is(F)
      PROVE  F[D] = s
  <2>1. \A S \in SUBSET D :
          F[S] = IF S = {} THEN s ELSE ProvideAll(F[S \ {Max(S)}], r[Max(S)])
    BY <1>4
  <2>2. F[{}] = s
    BY <2>1
  <2>3. \A i \in D : F[{i}] = s
    <3>1. SUFFICES ASSUME NEW i \in D
                   PROVE  F[{i}] = s
      OBVIOUS
    <3>2. Max({i}) = i
      <4>1. {i} \in SUBSET D /\ {i} # {}
        OBVIOUS
      <4>2. Max({i}) \in {i}
        BY <1>1, <4>1
      <4>3. QED
        BY <4>2
    <3>3. F[{i}] = ProvideAll(F[{i} \ {i}], r[i])
      BY <2>1, <3>2
    <3>4. {i} \ {i} = {}
      OBVIOUS
    <3>5. QED
      BY <1>2, <2>2, <3>3, <3>4
  <2>4. CASE n = 2
    <3>1. D = {1, 2}
      BY <2>4
    <3>2. Max(D) \in D
      BY <1>1, <3>1
    <3>3. \E j \in D : D \ {Max(D)} = {j}
      BY <3>1, <3>2
    <3>4. F[D] = ProvideAll(s, r[Max(D)])
      BY <2>1, <2>3, <3>1, <3>3
    <3>5. QED
      BY <1>2, <3>2, <3>4
  <2>5. CASE n = 1
    <3>1. D = {1}
      BY <2>5
    <3>2. QED
      BY <2>3, <3>1
  <2>6. CASE n = 0
    <3>1. D = {}
      BY <2>6
    <3>2. QED
      BY <2>2, <3>1
  <2>7. QED
    BY <2>4, <2>5, <2>6
<1> DEFINE F == CHOOSE F : Is(F)
<1>5. FoldLeft(ProvideAll, s, r) = F[D]
  BY DEF FoldLeft, MapThenFoldSet
<1>6. Is(F)
  BY <1>3
<1> HIDE DEF F, Is
<1>7. QED
  BY <1>4, <1>5, <1>6

\* What is available after a pass, if the one before left what it requires.
Leaves(name) ==
  CASE name = "SDBuildCHA" -> {"SDFix", "SDBuildCHA"}
    [] name \in {"SDAnalysis", "SDLayoutBuilder", "SDUpdateIndices"} ->
         {"SDBuildCHA", name}
    [] OTHER -> {name}

LeftBefore(ps, i) == IF i = 1 THEN {} ELSE Leaves(ps[i - 1].name)

\* Every pass of the list finds what it requires where it stands.
SelfSufficient(ps) ==
  \A i \in 1 .. Len(ps) :
    LET r == Required(ps[i].name) IN
    /\ \A k \in DOMAIN r : r[k] \in LeftBefore(ps, i)
    /\ Leaves(ps[i].name) =
         Preserved(ps[i].name, LeftBefore(ps, i)) \cup {ps[i].name}

\* Nothing is added to such a list.
LEMMA ScheduledAsGiven ==
  ASSUME NEW T, NEW ps \in Seq(T), SelfSufficient(ps)
  PROVE  schedulePasses(ps) = ps
<1> DEFINE n == Len(ps)
           none == [passes |-> <<>>, available |-> {}]
           Is(F) == F = [i \in 0 .. n |-> IF i = 0 THEN none
                                          ELSE schedulePass(F[i - 1], ps[i])]
           at(i) == [passes    |-> SubSeq(ps, 1, i),
                     available |-> IF i = 0 THEN {} ELSE Leaves(ps[i].name)]
           G == [i \in 0 .. n |-> at(i)]
<1>1. n \in Nat
  OBVIOUS
<1>2. at(0) = none
  <2>1. SubSeq(ps, 1, 0) = <<>>
    <3>1. SubSeq(ps, 1, 0) \in Seq(T) /\ Len(SubSeq(ps, 1, 0)) = 0
      BY <1>1
    <3>2. QED
      BY <3>1
  <2>2. QED
    BY <2>1
<1>3. ASSUME NEW i \in 1 .. n
      PROVE  schedulePass(at(i - 1), ps[i]) = at(i)
  <2> DEFINE r == Required(ps[i].name)
  <2>1. /\ at(i - 1).available = LeftBefore(ps, i)
        /\ at(i - 1).passes = SubSeq(ps, 1, i - 1)
    BY DEF LeftBefore
  <2>2. \E k \in 0 .. 2 : DOMAIN r = 1 .. k
    BY DEF Required
  <2>3. \A k \in DOMAIN r : r[k] \in at(i - 1).available
    BY <2>1 DEF SelfSufficient
  <2>4. FoldLeft(ProvideAll, at(i - 1), r) = at(i - 1)
    <3> HIDE DEF at, r
    <3>1. QED
      BY <2>2, <2>3, NothingToProvide
  <2>5. schedulePass(at(i - 1), ps[i]) = Add(at(i - 1), ps[i])
    BY <2>4 DEF schedulePass
  <2>6. Append(SubSeq(ps, 1, i - 1), ps[i]) = SubSeq(ps, 1, i)
    <3> DEFINE s == SubSeq(ps, 1, i - 1)
               u == SubSeq(ps, 1, i)
    <3>1. s \in Seq(T) /\ u \in Seq(T) /\ ps[i] \in T
      BY <1>1
    <3>2. Len(s) = i - 1 /\ Len(u) = i
      BY <1>1
    <3>3. \A k \in 1 .. i - 1 : s[k] = ps[k]
      BY <1>1
    <3>4. \A k \in 1 .. i : u[k] = ps[k]
      BY <1>1
    <3> HIDE DEF s, u
    <3>5. Append(s, ps[i]) \in Seq(T) /\ Len(Append(s, ps[i])) = i
      BY <3>1, <3>2
    <3>6. \A k \in 1 .. i : Append(s, ps[i])[k] = u[k]
      BY <3>1, <3>2, <3>3, <3>4
    <3>7. QED
      BY <3>1, <3>2, <3>5, <3>6
  <2>7. Preserved(ps[i].name, LeftBefore(ps, i)) \cup {ps[i].name} = Leaves(ps[i].name)
    BY DEF SelfSufficient
  <2>8. Add(at(i - 1), ps[i]) = [passes |-> SubSeq(ps, 1, i), available |-> Leaves(ps[i].name)]
    <3> HIDE DEF at
    <3>1. QED
      BY <2>1, <2>6, <2>7 DEF Add
  <2>9. at(i) = [passes |-> SubSeq(ps, 1, i), available |-> Leaves(ps[i].name)]
    <3>1. i # 0
      BY <1>1
    <3>2. QED
      BY <3>1
  <2> HIDE DEF at
  <2>10. QED
    BY <2>5, <2>8, <2>9
<1> HIDE DEF at, none
<1>4. Is(G)
  <2>1. ASSUME NEW i \in 0 .. n
        PROVE  G[i] = IF i = 0 THEN none ELSE schedulePass(G[i - 1], ps[i])
    <3>1. CASE i = 0
      BY <1>2, <3>1
    <3>2. CASE i # 0
      <4>1. i \in 1 .. n /\ i - 1 \in 0 .. n
        BY <3>2
      <4>2. QED
        BY <1>3, <3>2, <4>1
    <3>3. QED
      BY <3>1, <3>2
  <2>2. QED
    BY <2>1
<1>5. ASSUME NEW F, Is(F)
      PROVE  F[n] = at(n)
  <2> DEFINE Bad == {i \in 0 .. n : F[i] # at(i)}
  <2>1. SUFFICES ASSUME Bad # {}
                 PROVE  FALSE
    BY <1>1
  <2>2. PICK i \in Bad : \A j \in Bad : i <= j
    <3>1. Bad \subseteq Nat
      BY <1>1
    <3> HIDE DEF Bad
    <3>2. QED
      BY <2>1, <3>1, LeastNat
  <2>3. F[i] = IF i = 0 THEN none ELSE schedulePass(F[i - 1], ps[i])
    BY <1>5
  <2>4. i # 0
    BY <1>2, <2>2, <2>3
  <2>5. i \in 1 .. n /\ i - 1 \in 0 .. n /\ i - 1 \notin Bad
    BY <2>2, <2>4
  <2>6. F[i - 1] = at(i - 1)
    BY <2>5
  <2>7. F[i] = at(i)
    BY <1>3, <2>3, <2>4, <2>5, <2>6
  <2>8. QED
    BY <2>2, <2>7
<1> DEFINE F == CHOOSE F : Is(F)
<1>6. schedulePasses(ps) = F[n].passes
  BY DEF schedulePasses, none
<1>7. Is(F)
  BY <1>4
<1> HIDE DEF F, Is
<1>8. F[n] = at(n)
  BY <1>5, <1>7
<1>9. SubSeq(ps, 1, n) = ps
  OBVIOUS
<1>10. QED
  BY <1>6, <1>8, <1>9 DEF at

\* The passes that the options ask for, in one order.
Scheduled(options) ==
  {"SDCleanup"}
    \cup (IF options = {} THEN {} ELSE {"GlobalDCE", "SDFix", "SDBuildCHA"})
    \cup (IF "returnChecks" \in options THEN {"SDAnalysis"} ELSE {})
    \cup (IF lays(options) THEN {"SDLayoutBuilder", "SDUpdateIndices", "SDSubstModule"}
                           ELSE {})

Rank(name) ==
  CASE name = "GlobalDCE"       -> 1 [] name = "SDFix"           -> 2
    [] name = "SDBuildCHA"      -> 3 [] name = "SDAnalysis"      -> 4
    [] name = "SDLayoutBuilder" -> 5 [] name = "SDUpdateIndices" -> 6
    [] name = "SDSubstModule"   -> 7 [] OTHER                    -> 8

Passes == [name : PassNames, interleave : BOOLEAN]

IsSchedule(ps, options) ==
  /\ ps \in Seq(Passes)
  /\ SelfSufficient(ps)
  /\ \A i, j \in 1 .. Len(ps) : i < j => Rank(ps[i].name) < Rank(ps[j].name)
  /\ \A i \in 1 .. Len(ps) :
       /\ ps[i].name \in Scheduled(options)
       /\ ps[i].name = "SDLayoutBuilder" =>
            ps[i].interleave = ("interleave" \in options)
  /\ \A x \in Scheduled(options) : \E i \in 1 .. Len(ps) : ps[i].name = x

Laid(options) ==
  [name |-> "SDLayoutBuilder", interleave |-> "interleave" \in options]

\* The four lists there are.
LEMMA Lists ==
  ASSUME NEW options \in SUBSET Options
  PROVE  populateLTOPassManager(options) =
           IF options = {} THEN <<Pass("SDCleanup")>>
           ELSE IF ~ lays(options)
           THEN <<Pass("GlobalDCE"), Pass("SDFix"), Pass("SDBuildCHA"),
                  Pass("SDAnalysis"), Pass("SDCleanup")>>
           ELSE IF "returnChecks" \notin options
           THEN <<Pass("GlobalDCE"), Pass("SDFix"), Pass("SDBuildCHA"), Laid(options),
                  Pass("SDUpdateIndices"), Pass("SDSubstModule"), Pass("SDCleanup")>>
           ELSE <<Pass("GlobalDCE"), Pass("SDFix"), Pass("SDBuildCHA"),
                  Pass("SDAnalysis"), Laid(options), Pass("SDUpdateIndices"),
                  Pass("SDSubstModule"), Pass("SDCleanup")>>
<1>1. [Pass("SDLayoutBuilder") EXCEPT !.interleave = "interleave" \in options] = Laid(options)
  BY DEF Pass, Laid
<1>2. options = {} => ~ lays(options) /\ "returnChecks" \notin options
  BY DEF lays
<1>3. options # {} /\ ~ lays(options) => "returnChecks" \in options
  BY DEF lays, Options
<1>4. CASE options = {}
  BY <1>2, <1>4 DEF populateLTOPassManager, Only
<1>5. CASE options # {} /\ ~ lays(options)
  <2>1. populateLTOPassManager(options) =
          <<Pass("GlobalDCE"), Pass("SDFix"), Pass("SDBuildCHA")>>
            \o <<Pass("SDAnalysis")>> \o <<>> \o <<Pass("SDCleanup")>>
    BY <1>3, <1>5 DEF populateLTOPassManager, Only
  <2>2. QED
    BY <1>5, <2>1
<1>6. CASE options # {} /\ lays(options) /\ "returnChecks" \notin options
  BY <1>1, <1>6 DEF populateLTOPassManager, Only
<1>7. CASE options # {} /\ lays(options) /\ "returnChecks" \in options
  BY <1>1, <1>7 DEF populateLTOPassManager, Only
<1>8. QED
  BY <1>4, <1>5, <1>6, <1>7

\* Where a pass finds what it requires, and leaves what is said of it.
FindsRequired(name, before) ==
  /\ \A k \in DOMAIN Required(name) : Required(name)[k] \in before
  /\ Leaves(name) = Preserved(name, before) \cup {name}

LEMMA Neighbours ==
  /\ \A before : \A name \in {"GlobalDCE", "SDFix", "SDSubstModule", "SDCleanup"} :
       FindsRequired(name, before)
  /\ FindsRequired("SDBuildCHA", Leaves("SDFix"))
  /\ \A before \in {"SDBuildCHA", "SDAnalysis"} :
       \A name \in {"SDAnalysis", "SDLayoutBuilder"} : FindsRequired(name, Leaves(before))
  /\ FindsRequired("SDUpdateIndices", Leaves("SDLayoutBuilder"))
<1> USE DEF FindsRequired, Leaves, Required, Preserved
<1>1. ASSUME NEW before, NEW name \in {"GlobalDCE", "SDFix", "SDSubstModule", "SDCleanup"}
      PROVE  FindsRequired(name, before)
  <2>1. Required(name) = <<>> /\ DOMAIN Required(name) = {}
    BY <1>1
  <2>2. Leaves(name) = {name} /\ Preserved(name, before) = {}
    BY <1>1
  <2>3. QED
    BY <2>1, <2>2
<1>2. FindsRequired("SDBuildCHA", Leaves("SDFix"))
  <2>1. Required("SDBuildCHA") = <<>>
    OBVIOUS
  <2>2. QED
    BY <2>1
<1>3. ASSUME NEW before \in {"SDBuildCHA", "SDAnalysis"},
             NEW name \in {"SDAnalysis", "SDLayoutBuilder"}
      PROVE  FindsRequired(name, Leaves(before))
  <2>1. Required(name) = <<"SDBuildCHA">>
    OBVIOUS
  <2>2. QED
    BY <2>1
<1>4. FindsRequired("SDUpdateIndices", Leaves("SDLayoutBuilder"))
  <2>1. Required("SDUpdateIndices") = <<"SDLayoutBuilder", "SDBuildCHA">>
    OBVIOUS
  <2>2. QED
    BY <2>1
<1>5. QED
  BY <1>1, <1>2, <1>3, <1>4

\* Whatever is asked for, every pass has what it requires.
LEMMA ListIsSchedule ==
  ASSUME NEW options \in SUBSET Options
  PROVE  IsSchedule(populateLTOPassManager(options), options)
<1> DEFINE ps == populateLTOPassManager(options)
<1>0. /\ Laid(options) \in Passes
      /\ \A x \in PassNames : Pass(x) \in Passes
      /\ {"GlobalDCE", "SDFix", "SDBuildCHA", "SDAnalysis", "SDUpdateIndices",
          "SDSubstModule", "SDCleanup"} \subseteq PassNames
  BY DEF Laid, Pass, Passes, PassNames
<1>1. ASSUME options = {}
      PROVE  IsSchedule(ps, options)
  <2>1. ps = <<Pass("SDCleanup")>>
    BY <1>1, Lists
  <2> HIDE DEF ps
  <2>2. /\ Len(ps) = 1
        /\ ps[1] = Pass("SDCleanup")
    BY <2>1
  <2>3. ps \in Seq(Passes)
    BY <1>0, <2>1
  <2>4. Scheduled(options) = {"SDCleanup"}
    BY <1>1 DEF Scheduled, lays
  <2>5. /\ ps[1].name = "SDCleanup"
    BY <2>2 DEF Pass, Laid
  <2>6. \A i \in 1 .. Len(ps) : i = 1
    BY <2>2
  <2>7. SelfSufficient(ps)
    <3>1. \A i \in 1 .. Len(ps) : FindsRequired(ps[i].name, LeftBefore(ps, i))
      BY <2>5, <2>6, Neighbours DEF LeftBefore
    <3>2. QED
      BY <3>1 DEF SelfSufficient, FindsRequired
  <2>8. \A i, j \in 1 .. Len(ps) : i < j => Rank(ps[i].name) < Rank(ps[j].name)
    <3>1. /\ Rank(ps[1].name) = 8
      BY <2>5 DEF Rank
    <3>2. QED
      BY <2>6, <3>1
  <2>9. \A i \in 1 .. Len(ps) : ps[i].name \in Scheduled(options)
    BY <2>4, <2>5, <2>6
  <2>10. \A i \in 1 .. Len(ps) :
          ps[i].name = "SDLayoutBuilder" => ps[i].interleave = ("interleave" \in options)
    BY <2>2, <2>5, <2>6 DEF Laid
  <2>11. \A x \in Scheduled(options) : \E i \in 1 .. Len(ps) : ps[i].name = x
    BY <2>2, <2>4, <2>5
  <2>12. QED
    BY <2>3, <2>7, <2>8, <2>9, <2>10, <2>11 DEF IsSchedule
<1>2. ASSUME options # {}, ~ lays(options)
      PROVE  IsSchedule(ps, options)
  <2>1. ps = <<Pass("GlobalDCE"), Pass("SDFix"), Pass("SDBuildCHA"),
               Pass("SDAnalysis"), Pass("SDCleanup")>>
    BY <1>2, Lists
  <2> HIDE DEF ps
  <2>2. /\ Len(ps) = 5
        /\ ps[1] = Pass("GlobalDCE")
        /\ ps[2] = Pass("SDFix")
        /\ ps[3] = Pass("SDBuildCHA")
        /\ ps[4] = Pass("SDAnalysis")
        /\ ps[5] = Pass("SDCleanup")
    BY <2>1
  <2>3. ps \in Seq(Passes)
    BY <1>0, <2>1
  <2>4. Scheduled(options) = {"GlobalDCE", "SDFix", "SDBuildCHA", "SDAnalysis", "SDCleanup"}
    <3>1. "returnChecks" \in options
      BY <1>2 DEF lays, Options
    <3>2. QED
      BY <1>2, <3>1 DEF Scheduled
  <2>5. /\ ps[1].name = "GlobalDCE"
        /\ ps[2].name = "SDFix"
        /\ ps[3].name = "SDBuildCHA"
        /\ ps[4].name = "SDAnalysis"
        /\ ps[5].name = "SDCleanup"
    BY <2>2 DEF Pass, Laid
  <2>6. \A i \in 1 .. Len(ps) : i = 1 \/ i = 2 \/ i = 3 \/ i = 4 \/ i = 5
    BY <2>2
  <2>7. SelfSufficient(ps)
    <3>1. \A i \in 1 .. Len(ps) : FindsRequired(ps[i].name, LeftBefore(ps, i))
      BY <2>5, <2>6, Neighbours DEF LeftBefore
    <3>2. QED
      BY <3>1 DEF SelfSufficient, FindsRequired
  <2>8. \A i, j \in 1 .. Len(ps) : i < j => Rank(ps[i].name) < Rank(ps[j].name)
    <3>1. /\ Rank(ps[1].name) = 1
          /\ Rank(ps[2].name) = 2
          /\ Rank(ps[3].name) = 3
          /\ Rank(ps[4].name) = 4
          /\ Rank(ps[5].name) = 8
      BY <2>5 DEF Rank
    <3>2. QED
      BY <2>6, <3>1
  <2>9. \A i \in 1 .. Len(ps) : ps[i].name \in Scheduled(options)
    BY <2>4, <2>5, <2>6
  <2>10. \A i \in 1 .. Len(ps) :
          ps[i].name = "SDLayoutBuilder" => ps[i].interleave = ("interleave" \in options)
    BY <2>2, <2>5, <2>6 DEF Laid
  <2>11. \A x \in Scheduled(options) : \E i \in 1 .. Len(ps) : ps[i].name = x
    BY <2>2, <2>4, <2>5
  <2>12. QED
    BY <2>3, <2>7, <2>8, <2>9, <2>10, <2>11 DEF IsSchedule
<1>3. ASSUME options # {}, lays(options), "returnChecks" \notin options
      PROVE  IsSchedule(ps, options)
  <2>1. ps = <<Pass("GlobalDCE"), Pass("SDFix"), Pass("SDBuildCHA"), Laid(options),
               Pass("SDUpdateIndices"), Pass("SDSubstModule"), Pass("SDCleanup")>>
    BY <1>3, Lists
  <2> HIDE DEF ps
  <2>2. /\ Len(ps) = 7
        /\ ps[1] = Pass("GlobalDCE")
        /\ ps[2] = Pass("SDFix")
        /\ ps[3] = Pass("SDBuildCHA")
        /\ ps[4] = Laid(options)
        /\ ps[5] = Pass("SDUpdateIndices")
        /\ ps[6] = Pass("SDSubstModule")
        /\ ps[7] = Pass("SDCleanup")
    BY <2>1
  <2>3. ps \in Seq(Passes)
    BY <1>0, <2>1
  <2>4. Scheduled(options) = {"GlobalDCE", "SDFix", "SDBuildCHA", "SDLayoutBuilder", "SDUpdateIndices", "SDSubstModule", "SDCleanup"}
    BY <1>3 DEF Scheduled
  <2>5. /\ ps[1].name = "GlobalDCE"
        /\ ps[2].name = "SDFix"
        /\ ps[3].name = "SDBuildCHA"
        /\ ps[4].name = "SDLayoutBuilder"
        /\ ps[5].name = "SDUpdateIndices"
        /\ ps[6].name = "SDSubstModule"
        /\ ps[7].name = "SDCleanup"
    BY <2>2 DEF Pass, Laid
  <2>6. \A i \in 1 .. Len(ps) : i = 1 \/ i = 2 \/ i = 3 \/ i = 4 \/ i = 5 \/ i = 6 \/ i = 7
    BY <2>2
  <2>7. SelfSufficient(ps)
    <3>1. \A i \in 1 .. Len(ps) : FindsRequired(ps[i].name, LeftBefore(ps, i))
      BY <2>5, <2>6, Neighbours DEF LeftBefore
    <3>2. QED
      BY <3>1 DEF SelfSufficient, FindsRequired
  <2>8. \A i, j \in 1 .. Len(ps) : i < j => Rank(ps[i].name) < Rank(ps[j].name)
    <3>1. /\ Rank(ps[1].name) = 1
          /\ Rank(ps[2].name) = 2
          /\ Rank(ps[3].name) = 3
          /\ Rank(ps[4].name) = 5
          /\ Rank(ps[5].name) = 6
          /\ Rank(ps[6].name) = 7
          /\ Rank(ps[7].name) = 8
      BY <2>5 DEF Rank
    <3>2. \A i \in 1 .. Len(ps) : Rank(ps[i].name) = IF i <= 3 THEN i ELSE i + 1
      BY <2>6, <3>1
    <3>3. QED
      BY <2>2, <3>2
  <2>9. \A i \in 1 .. Len(ps) : ps[i].name \in Scheduled(options)
    BY <2>4, <2>5, <2>6
  <2>10. \A i \in 1 .. Len(ps) :
          ps[i].name = "SDLayoutBuilder" => ps[i].interleave = ("interleave" \in options)
    BY <2>2, <2>5, <2>6 DEF Laid
  <2>11. \A x \in Scheduled(options) : \E i \in 1 .. Len(ps) : ps[i].name = x
    BY <2>2, <2>4, <2>5
  <2>12. QED
    BY <2>3, <2>7, <2>8, <2>9, <2>10, <2>11 DEF IsSchedule
<1>4. ASSUME options # {}, lays(options), "returnChecks" \in options
      PROVE  IsSchedule(ps, options)
  <2>1. ps = <<Pass("GlobalDCE"), Pass("SDFix"), Pass("SDBuildCHA"),
               Pass("SDAnalysis"), Laid(options), Pass("SDUpdateIndices"),
               Pass("SDSubstModule"), Pass("SDCleanup")>>
    BY <1>4, Lists
  <2> HIDE DEF ps
  <2>2. /\ Len(ps) = 8
        /\ ps[1] = Pass("GlobalDCE")
        /\ ps[2] = Pass("SDFix")
        /\ ps[3] = Pass("SDBuildCHA")
        /\ ps[4] = Pass("SDAnalysis")
        /\ ps[5] = Laid(options)
        /\ ps[6] = Pass("SDUpdateIndices")
        /\ ps[7] = Pass("SDSubstModule")
        /\ ps[8] = Pass("SDCleanup")
    BY <2>1
  <2>3. ps \in Seq(Passes)
    BY <1>0, <2>1
  <2>4. Scheduled(options) = {"GlobalDCE", "SDFix", "SDBuildCHA", "SDAnalysis", "SDLayoutBuilder", "SDUpdateIndices", "SDSubstModule", "SDCleanup"}
    BY <1>4 DEF Scheduled
  <2>5. /\ ps[1].name = "GlobalDCE"
        /\ ps[2].name = "SDFix"
        /\ ps[3].name = "SDBuildCHA"
        /\ ps[4].name = "SDAnalysis"
        /\ ps[5].name = "SDLayoutBuilder"
        /\ ps[6].name = "SDUpdateIndices"
        /\ ps[7].name = "SDSubstModule"
        /\ ps[8].name = "SDCleanup"
    BY <2>2 DEF Pass, Laid
  <2>6. \A i \in 1 .. Len(ps) : i = 1 \/ i = 2 \/ i = 3 \/ i = 4 \/ i = 5 \/ i = 6 \/ i = 7 \/ i = 8
    BY <2>2
  <2>7. SelfSufficient(ps)
    <3>1. /\ LeftBefore(ps, 3) = Leaves("SDFix")
          /\ LeftBefore(ps, 4) = Leaves("SDBuildCHA")
          /\ LeftBefore(ps, 5) = Leaves("SDAnalysis")
          /\ LeftBefore(ps, 6) = Leaves("SDLayoutBuilder")
      BY <2>5 DEF LeftBefore
    <3>2. /\ FindsRequired(ps[1].name, LeftBefore(ps, 1))
          /\ FindsRequired(ps[2].name, LeftBefore(ps, 2))
          /\ FindsRequired(ps[7].name, LeftBefore(ps, 7))
          /\ FindsRequired(ps[8].name, LeftBefore(ps, 8))
      BY <2>5, Neighbours
    <3>3. /\ FindsRequired(ps[3].name, LeftBefore(ps, 3))
          /\ FindsRequired(ps[4].name, LeftBefore(ps, 4))
          /\ FindsRequired(ps[5].name, LeftBefore(ps, 5))
          /\ FindsRequired(ps[6].name, LeftBefore(ps, 6))
      BY <2>5, <3>1, Neighbours
    <3>4. \A i \in 1 .. Len(ps) : FindsRequired(ps[i].name, LeftBefore(ps, i))
      BY <2>6, <3>2, <3>3
    <3>5. QED
      BY <3>4 DEF SelfSufficient, FindsRequired
  <2>8. \A i, j \in 1 .. Len(ps) : i < j => Rank(ps[i].name) < Rank(ps[j].name)
    <3>1. /\ Rank(ps[1].name) = 1
          /\ Rank(ps[2].name) = 2
          /\ Rank(ps[3].name) = 3
          /\ Rank(ps[4].name) = 4
          /\ Rank(ps[5].name) = 5
          /\ Rank(ps[6].name) = 6
          /\ Rank(ps[7].name) = 7
          /\ Rank(ps[8].name) = 8
      BY <2>5 DEF Rank
    <3>2. QED
      BY <2>6, <3>1
  <2>9. \A i \in 1 .. Len(ps) : ps[i].name \in Scheduled(options)
    BY <2>4, <2>5, <2>6
  <2>10. \A i \in 1 .. Len(ps) :
          ps[i].name = "SDLayoutBuilder" => ps[i].interleave = ("interleave" \in options)
    BY <2>2, <2>5, <2>6 DEF Laid
  <2>11. \A x \in Scheduled(options) : \E i \in 1 .. Len(ps) : ps[i].name = x
    BY <2>2, <2>4, <2>5
  <2>12. QED
    BY <2>3, <2>7, <2>8, <2>9, <2>10, <2>11 DEF IsSchedule
<1>5. QED
  BY <1>1, <1>2, <1>3, <1>4

\* The passes left are those from some rank on, in order.
Names(ps) == {ps[i].name : i \in 1 .. Len(ps)}

Remaining(ps, options) ==
  /\ ps \in Seq(Passes)
  /\ \A i, j \in 1 .. Len(ps) : i < j => Rank(ps[i].name) < Rank(ps[j].name)
  /\ \A i \in 1 .. Len(ps) :
       /\ ps[i].name \in Scheduled(options)
       /\ ps[i].name = "SDLayoutBuilder" =>
            ps[i].interleave = ("interleave" \in options)
  /\ \A x \in Scheduled(options) : \A i \in 1 .. Len(ps) :
       Rank(ps[i].name) <= Rank(x) => x \in Names(ps)

LEMMA RankType ==
  ASSUME NEW x, NEW y, x \in PassNames, y \in PassNames
  PROVE  /\ Rank(x) \in 1 .. 8
         /\ Rank(x) = Rank(y) => x = y
BY DEF Rank, PassNames

LEMMA ScheduledNames ==
  ASSUME NEW options
  PROVE  Scheduled(options) \subseteq PassNames
BY DEF Scheduled, PassNames

LEMMA HeadAndTail ==
  ASSUME NEW options, NEW ps, Remaining(ps, options), ps # <<>>
  PROVE  LET h == Head(ps) IN
         /\ h \in Passes
         /\ h.name \in Scheduled(options)
         /\ h.name = "SDLayoutBuilder" => h.interleave = ("interleave" \in options)
         /\ Names(ps) = {x \in Scheduled(options) : Rank(h.name) <= Rank(x)}
         /\ Names(Tail(ps)) = {x \in Scheduled(options) : Rank(h.name) < Rank(x)}
         /\ Remaining(Tail(ps), options)
<1> DEFINE h == Head(ps)
           q == Tail(ps)
           n == Len(ps)
<1>1. /\ ps \in Seq(Passes) /\ n \in Nat \ {0} /\ h = ps[1] /\ 1 \in 1 .. n
      /\ h \in Passes
  BY DEF Remaining
<1>2. /\ q \in Seq(Passes) /\ Len(q) = n - 1
      /\ \A i \in 1 .. n - 1 : q[i] = ps[i + 1] /\ i + 1 \in 1 .. n
  BY <1>1
<1>3. /\ h.name \in Scheduled(options)
      /\ h.name = "SDLayoutBuilder" => h.interleave = ("interleave" \in options)
  BY <1>1 DEF Remaining
<1>4. \A i \in 1 .. n : ps[i].name \in Scheduled(options) /\ Rank(ps[i].name) \in 1 .. 8
  BY ScheduledNames, RankType DEF Remaining
<1>5. \A i \in 1 .. n : i # 1 => Rank(h.name) < Rank(ps[i].name)
  BY <1>1 DEF Remaining
<1>6. Names(ps) = {x \in Scheduled(options) : Rank(h.name) <= Rank(x)}
  <2>1. ASSUME NEW x \in Names(ps)
        PROVE  x \in Scheduled(options) /\ Rank(h.name) <= Rank(x)
    <3>1. PICK i \in 1 .. n : x = ps[i].name
      BY DEF Names
    <3>2. CASE i = 1
      BY <1>1, <1>4, <3>1, <3>2
    <3>3. CASE i # 1
      BY <1>1, <1>4, <1>5, <3>1, <3>3
    <3>4. QED
      BY <3>2, <3>3
  <2>2. ASSUME NEW x \in Scheduled(options), Rank(h.name) <= Rank(x)
        PROVE  x \in Names(ps)
    BY <1>1, <2>2 DEF Remaining
  <2>3. QED
    BY <2>1, <2>2
<1>7. Names(q) = {x \in Scheduled(options) : Rank(h.name) < Rank(x)}
  <2>1. ASSUME NEW x \in Names(q)
        PROVE  x \in Scheduled(options) /\ Rank(h.name) < Rank(x)
    <3>1. PICK i \in 1 .. n - 1 : x = q[i].name
      BY <1>2 DEF Names
    <3>2. x = ps[i + 1].name /\ i + 1 \in 1 .. n /\ i + 1 # 1
      BY <1>1, <1>2, <3>1
    <3>3. QED
      BY <1>4, <1>5, <3>2
  <2>2. ASSUME NEW x \in Scheduled(options), Rank(h.name) < Rank(x)
        PROVE  x \in Names(q)
    <3>1. Rank(h.name) \in 1 .. 8 /\ Rank(x) \in 1 .. 8
      BY <1>1, <1>4, RankType, ScheduledNames
    <3>2. x \in Names(ps)
      BY <1>6, <2>2, <3>1
    <3>3. PICK i \in 1 .. n : x = ps[i].name
      BY <3>2 DEF Names
    <3>4. i # 1
      BY <1>1, <2>2, <3>1, <3>3
    <3>5. i - 1 \in 1 .. n - 1 /\ i - 1 + 1 = i
      BY <1>1, <3>4
    <3>6. q[i - 1] = ps[i]
      BY <1>2, <3>5
    <3>7. QED
      BY <1>2, <3>3, <3>5, <3>6 DEF Names
  <2>3. QED
    BY <2>1, <2>2
<1>8. Remaining(q, options)
  <2>1. \A i, j \in 1 .. Len(q) : i < j => Rank(q[i].name) < Rank(q[j].name)
    <3>1. SUFFICES ASSUME NEW i \in 1 .. n - 1, NEW j \in 1 .. n - 1, i < j
                   PROVE  Rank(q[i].name) < Rank(q[j].name)
      BY <1>2
    <3>2. q[i] = ps[i + 1] /\ q[j] = ps[j + 1]
      BY <1>2
    <3>3. i + 1 \in 1 .. n /\ j + 1 \in 1 .. n /\ i + 1 < j + 1
      BY <1>1, <3>1
    <3>4. QED
      BY <3>2, <3>3 DEF Remaining
  <2>2. \A i \in 1 .. Len(q) :
          /\ q[i].name \in Scheduled(options)
          /\ q[i].name = "SDLayoutBuilder" =>
               q[i].interleave = ("interleave" \in options)
    BY <1>2 DEF Remaining
  <2>3. ASSUME NEW x \in Scheduled(options), NEW i \in 1 .. Len(q),
               Rank(q[i].name) <= Rank(x)
        PROVE  x \in Names(q)
    <3>1. q[i].name \in Names(q)
      BY DEF Names
    <3>2. Rank(h.name) < Rank(q[i].name)
      BY <1>7, <3>1
    <3>3. /\ Rank(h.name) \in 1 .. 8 /\ Rank(x) \in 1 .. 8
          /\ Rank(q[i].name) \in 1 .. 8
      BY <1>3, <2>2, RankType, ScheduledNames
    <3>4. Rank(h.name) < Rank(x)
      BY <2>3, <3>2, <3>3
    <3>5. QED
      BY <1>7, <3>4
  <2>4. QED
    BY <1>2, <2>1, <2>2, <2>3 DEF Remaining
<1>9. QED
  BY <1>1, <1>3, <1>6, <1>7, <1>8

\* In the beginning all are left.
LEMMA AllRemain ==
  ASSUME NEW options \in SUBSET Options
  PROVE  LET ps == schedulePasses(populateLTOPassManager(options)) IN
         Remaining(ps, options) /\ Names(ps) = Scheduled(options)
<1> DEFINE ps == populateLTOPassManager(options)
<1>1. IsSchedule(ps, options)
  BY ListIsSchedule
<1>2. schedulePasses(ps) = ps
  <2> HIDE DEF ps
  <2>1. ps \in Seq(Passes) /\ SelfSufficient(ps)
    BY <1>1 DEF IsSchedule
  <2>2. QED
    BY <2>1, ScheduledAsGiven
<1>3. Names(ps) = Scheduled(options)
  <2> HIDE DEF ps
  <2>1. QED
    BY <1>1 DEF IsSchedule, Names
<1>4. Remaining(ps, options)
  <2> HIDE DEF ps
  <2>1. QED
    BY <1>1, <1>3 DEF IsSchedule, Remaining
<1>5. QED
  BY <1>2, <1>3, <1>4

------------------------------------------------------------------------------
(* The nodes of a unit                                                       *)

\* What the sources are.
LEMMA SourceFacts ==
  ASSUME program \in Programs
  PROVE  /\ Len(program.units) \in Nat \ {0}
         /\ Units = 1 .. Len(program.units)
         /\ IsBuild(program)
         /\ \A t \in Units :
              /\ IsMetadata(MD(t))
              /\ NamedParents(MD(t)) \subseteq Described(MD(t))
              /\ \A c \in DOMAIN MD(t) :
                   /\ c \in Class
                   /\ ParentNames(t, c) \subseteq DOMAIN MD(t)
                   /\ c \notin ParentNames(t, c)
<1>1. IsSource(program) /\ IsBuild(program)
  BY SourcesAssumption, BuildsAssumption
<1>2. /\ Len(program.units) \in Nat \ {0}
      /\ Units = 1 .. Len(program.units)
      /\ \A t \in Units : IsMetadata(MD(t)) /\ NamedParents(MD(t)) \subseteq Described(MD(t))
  BY <1>1 DEF IsSource, Units, MD
<1>3. ASSUME NEW t \in Units, NEW c \in DOMAIN MD(t)
      PROVE  /\ c \in Class
             /\ ParentNames(t, c) \subseteq DOMAIN MD(t)
             /\ c \notin ParentNames(t, c)
  <2>1. IsMetadata(MD(t))
    BY <1>2
  <2>2. c \in Class
    BY <2>1 DEF IsMetadata
  <2>3. ASSUME NEW b \in ParentNames(t, c)
        PROVE  b \in DOMAIN MD(t) /\ b # c
    <3>1. PICK v \in OwnVTables(MD(t), c) : \E p \in Parents(MD(t), v) : b = p[1]
      BY DEF ParentNames
    <3>2. PICK p \in Parents(MD(t), v) : b = p[1]
      BY <3>1
    <3>3. v \in Described(MD(t)) /\ v[1] = c
      BY OwnVTableType, <2>1 DEF Described
    <3>4. p \in Described(MD(t)) /\ p[1] # v[1]
      BY <1>2, <2>1, <3>2, <3>3 DEF NamedParents, IsMetadata
    <3>5. PICK d \in DOMAIN MD(t) : p \in OwnVTables(MD(t), d)
      BY <3>4 DEF Described
    <3>6. p[1] = d
      BY <2>1, <3>5, OwnVTableType
    <3>7. QED
      BY <3>2, <3>3, <3>4, <3>5, <3>6
  <2>4. QED
    BY <2>2, <2>3
<1>4. QED
  BY <1>1, <1>2, <1>3

\* The bases of a class are described and hold the bases of its bases.
LEMMA BasesClosed ==
  ASSUME program \in Programs, NEW t \in Units, NEW c \in DOMAIN MD(t)
  PROVE  /\ BasesOf(t, c) \subseteq DOMAIN MD(t)
         /\ ParentNames(t, c) \subseteq BasesOf(t, c)
         /\ \A b \in BasesOf(t, c) : ParentNames(t, b) \subseteq BasesOf(t, c)
<1>1. BasesOf(t, c) \subseteq DOMAIN MD(t)
  BY DEF BasesOf
<1>2. ASSUME NEW b \in ParentNames(t, c)
      PROVE  b \in BasesOf(t, c)
  BY SourceFacts DEF BasesOf
<1>3. ASSUME NEW b \in BasesOf(t, c), NEW d \in ParentNames(t, b)
      PROVE  d \in BasesOf(t, c)
  <2>1. d \in DOMAIN MD(t)
    BY <1>1, SourceFacts
  <2>2. ASSUME NEW S \in SUBSET DOMAIN MD(t), ParentNames(t, c) \subseteq S,
               \A e \in S : ParentNames(t, e) \subseteq S
        PROVE  d \in S
    <3>1. b \in S
      BY <2>2 DEF BasesOf
    <3>2. QED
      BY <2>2, <3>1
  <2>3. QED
    BY <2>1, <2>2 DEF BasesOf
<1>4. QED
  BY <1>1, <1>2, <1>3

\* An entry names what was declared when it was written; every base that has a
\* vtable name has an entry, and one that is named by its string alone had no
\* symbol when its own entry was written, either.
NodesOK(t, declares, emits_, nodes) ==
  /\ \A c \in DOMAIN nodes :
       /\ c \in DOMAIN MD(t)
       /\ isVtableName(c)
       /\ nodes[c] \subseteq NamesIn(t, c) \cap declares
       /\ \A b \in ParentNames(t, c) : isVtableName(b) =>
            /\ b \in DOMAIN nodes
            /\ b \notin nodes[c] => b \notin nodes[b]
  /\ \A c \in emits_ : isVtableName(c) => c \in DOMAIN nodes

LEMMA NewNodesOK ==
  ASSUME program \in Programs, NEW t \in Units, NEW c \in DOMAIN MD(t),
         NEW declares, NEW emits_, NodesOK(t, declares, emits_, info[t])
  PROVE  NodesOK(t, declares \cup {c}, emits_ \cup {c},
                 Entries(t, c, declares \cup {c}))
<1> DEFINE D == declares \cup {c}
           new == NewNodes(t, c)
           J == Entries(t, c, D)
           V == {b \in {c} \cup BasesOf(t, c) : isVtableName(b)}
<1>1. /\ DOMAIN J = new \cup DOMAIN info[t]
      /\ \A b \in new : J[b] = NamesIn(t, b) \cap D
      /\ \A b \in DOMAIN info[t] : b \notin new => J[b] = info[t][b]
  BY DEF Entries, NewNodes
<1>2. /\ new \cap DOMAIN info[t] = {}
      /\ new \subseteq V
  BY DEF NewNodes
<1>3. isVtableName(c) => c \in new \cup DOMAIN info[t]
  BY DEF NewNodes
<1>4. new # {} => V \subseteq new \cup DOMAIN info[t]
  BY DEF NewNodes
<1> HIDE DEF J, new
<1>5. ASSUME NEW x \in DOMAIN J
      PROVE  /\ x \in DOMAIN MD(t)
             /\ isVtableName(x)
             /\ J[x] \subseteq NamesIn(t, x) \cap D
             /\ \A b \in ParentNames(t, x) : isVtableName(b) =>
                  /\ b \in DOMAIN J
                  /\ b \notin J[x] => b \notin J[b]
  <2>1. CASE x \in new
    <3>1. x \in V
      BY <1>2, <2>1
    <3>2. x \in DOMAIN MD(t) /\ isVtableName(x)
      BY <3>1, BasesClosed
    <3>3. J[x] = NamesIn(t, x) \cap D
      BY <1>1, <2>1
    <3>4. ASSUME NEW b \in ParentNames(t, x), isVtableName(b)
          PROVE  /\ b \in DOMAIN J
                 /\ b \notin J[x] => b \notin J[b]
      <4>1. b \in V
        BY <3>1, <3>4, BasesClosed
      <4>2. b \in new \cup DOMAIN info[t]
        BY <1>4, <2>1, <4>1
      <4>3. J[b] \subseteq D
        BY <1>1, <4>2 DEF NodesOK
      <4>4. b \notin J[x] => b \notin D
        BY <3>3 DEF NamesIn
      <4>5. QED
        BY <1>1, <4>2, <4>3, <4>4
    <3>5. QED
      BY <3>2, <3>3, <3>4
  <2>2. CASE x \notin new
    <3>1. x \in DOMAIN info[t] /\ J[x] = info[t][x]
      BY <1>1, <2>2
    <3>2. \A b \in DOMAIN info[t] : J[b] = info[t][b]
      BY <1>1, <1>2
    <3>3. QED
      BY <1>1, <3>1, <3>2 DEF NodesOK
  <2>3. QED
    BY <2>1, <2>2
<1>6. ASSUME NEW x \in emits_ \cup {c}, isVtableName(x)
      PROVE  x \in DOMAIN J
  BY <1>1, <1>3, <1>6 DEF NodesOK
<1>7. QED
  BY <1>5, <1>6 DEF NodesOK, J

------------------------------------------------------------------------------
(* Compiling and linking                                                     *)

\* What the units have written.
CompileInv ==
  /\ program \in Programs
  /\ pc \in {"compile", "link", "passes", "done", "aborted"}
  /\ unit \in Units
  /\ declared \in [Units -> SUBSET Class]
  /\ emitted \in [Units -> SUBSET Class]
  /\ info = [t \in Units |-> info[t]]
  /\ \A t \in Units :
       /\ emitted[t] \subseteq declared[t]
       /\ declared[t] \subseteq DOMAIN MD(t)
       /\ \A c \in emitted[t] : MD(t)[c].defined
       /\ NodesOK(t, declared[t], emitted[t], info[t])

\* Who has which symbol: a name of one unit keeps its own, of two internal ones
\* of a name only one does, and all units end up linked.
SymbolsInv ==
  /\ pc = "compile" => linked = <<>>
  /\ linked \in Seq(Units)
  /\ IsInjective(linked)
  /\ symbol = [t \in Units |-> symbol[t]]
  /\ \A t \in Units :
       /\ DOMAIN symbol[t] = IF t \in ToSet(linked) THEN declared[t] ELSE {}
       /\ \A c \in DOMAIN symbol[t] :
            \/ symbol[t][c] = c
            \/ symbol[t][c] = Renamed(c, t) /\ isInternal(t, c) /\ Shared(c)
  /\ \A t, u \in Units : \A c \in DOMAIN symbol[t] \cap DOMAIN symbol[u] :
       t # u /\ isInternal(t, c) => symbol[t][c] # c \/ symbol[u][c] # c
  /\ pc \notin {"compile", "link"} => ToSet(linked) = Units

------------------------------------------------------------------------------
(* The passes                                                                *)

\* What the users of an intrinsic get that the build emits.
Lowered(kind, left) ==
  IF lays(program.options)
  THEN CASE kind = "thisOffset" -> IF "SDLayoutBuilder" \in left THEN "get" ELSE "new"
         [] kind = "clonedResultOffset" ->
              IF "SDLayoutBuilder" \in left THEN "get" ELSE "other"
         [] kind = "resultOffset" -> IF "SDUpdateIndices" \in left THEN "get" ELSE "old"
         [] OTHER -> IF "SDUpdateIndices" \in left THEN "get"
                     ELSE IF "SDSubstModule" \in left THEN "subst" ELSE "new"
  ELSE IF "SDCleanup" \in left THEN "get" ELSE "old"

\* The vtables a fresh analysis would find defined.
Found == {n \in DOMAIN extractMetadata : extractMetadata[n].defined}

\* How far the passes have got shows in the results that are kept, in the code
\* and in the vtables.
ResultsAt(left) ==
  LET o == program.options IN
  /\ cha = IF o = {} \/ "SDBuildCHA" \in left THEN [status |-> "none"]
           ELSE IF lays(o) /\ "SDUpdateIndices" \notin left THEN [status |-> "cleared"]
           ELSE [status |-> "built", metadata |-> extractMetadata]
  /\ layout = IF ~ lays(o) \/ "SDLayoutBuilder" \in left THEN [status |-> "none"]
              ELSE IF "SDUpdateIndices" \notin left THEN [status |-> "cleared"]
              ELSE [status |-> "built", interleave |-> "interleave" \in o, laid |-> Found]

CodeAt(left) ==
  LET laid == lays(program.options) IN
  /\ tables = IF ~ laid \/ "SDLayoutBuilder" \in left THEN "old"
              ELSE IF "SDUpdateIndices" \in left THEN "both" ELSE "new"
  /\ code = [k \in Kinds |-> IF emits(k) THEN Lowered(k, left) ELSE "none"]

VTablesAt(left) ==
  LET o == program.options IN
  /\ removed \subseteq Definitions
  /\ moved \subseteq removed
  /\ ~ lays(o) \/ "SDUpdateIndices" \in left => moved = {}
  /\ IF o = {} \/ "SDFix" \in left THEN replaced = {}
     ELSE replaced = Missing /\ \A d \in Missing : Replaceable(d)

StageInv ==
  LET o == program.options
      L == Names(todo) IN
  /\ Remaining(todo, o)
  /\ pc \in {"compile", "link"} => L = Scheduled(o) /\ removed = {}
  /\ pc = "done" => todo = <<>>
  /\ ResultsAt(L)
  /\ CodeAt(L)
  /\ VTablesAt(L)

------------------------------------------------------------------------------
(* Compiling                                                                 *)

\* What the nodes are about does not change.
LEMMA NodesStable ==
  ASSUME program' = program, NEW t,
         NodesOK(t, declared'[t], emitted'[t], info'[t])
  PROVE  NodesOK(t, declared[t], emitted[t], info[t])'
BY DEF NodesOK, isVtableName, NamesIn, ParentNames, MD

LEMMA InitCompileInv == Init => CompileInv
<1> SUFFICES ASSUME Init
             PROVE  CompileInv
  OBVIOUS
<1> USE DEF Init, LinkInit
<1>1. 1 \in Units
  BY SourceFacts
<1>2. \A t \in Units : NodesOK(t, declared[t], emitted[t], info[t])
  BY DEF NodesOK
<1>3. QED
  BY <1>1, <1>2 DEF CompileInv

\* Nothing else is touched by the linker and the passes.
LEMMA CompileStable ==
  ASSUME CompileInv, program' = program, UNCHANGED compiled,
         pc' \in {"compile", "link", "passes", "done", "aborted"}
  PROVE  CompileInv'
<1> USE DEF CompileInv, compiled
<1>1. Units' = Units /\ \A t : MD(t)' = MD(t)
  BY DEF Units, MD
<1>2. ASSUME NEW t \in Units
      PROVE  NodesOK(t, declared[t], emitted[t], info[t])'
  BY NodesStable
<1>3. QED
  BY <1>1, <1>2

LEMMA ReferenceVTableCompileInv ==
  ASSUME CompileInv, NEW c \in Class, ReferenceVTable(c)
  PROVE  CompileInv'
<1> USE DEF CompileInv, ReferenceVTable
<1>1. Units' = Units /\ \A t : MD(t)' = MD(t)
  BY DEF Units, MD
<1>2. ASSUME NEW t \in Units
      PROVE  /\ NodesOK(t, declared[t], emitted[t], info[t])'
             /\ declared'[t] \subseteq DOMAIN MD(t)
             /\ declared[t] \subseteq declared'[t]
  <2>1. /\ declared[t] \subseteq declared'[t]
        /\ declared'[t] \subseteq DOMAIN MD(t)
    BY <1>2
  <2>2. NodesOK(t, declared'[t], emitted'[t], info'[t])
    BY <2>1 DEF NodesOK
  <2>3. QED
    BY <2>1, <2>2, NodesStable
<1>3. QED
  BY <1>1, <1>2

LEMMA DefineVTableCompileInv ==
  ASSUME CompileInv, NEW c \in Class, DefineVTable(c)
  PROVE  CompileInv'
<1> USE DEF CompileInv, DefineVTable
<1>1. Units' = Units /\ \A t : MD(t)' = MD(t)
  BY DEF Units, MD
<1>2. ASSUME NEW t \in Units
      PROVE  /\ NodesOK(t, declared[t], emitted[t], info[t])'
             /\ emitted'[t] \subseteq declared'[t]
             /\ declared'[t] \subseteq DOMAIN MD(t)
             /\ \A d \in emitted'[t] : MD(t)[d].defined
  <2>1. CASE t = unit
    <3>1. /\ declared'[t] = declared[t] \cup {c}
          /\ emitted'[t] = emitted[t] \cup {c}
          /\ info'[t] = Entries(t, c, declared[t] \cup {c})
      BY <2>1
    <3>2. NodesOK(t, declared'[t], emitted'[t], info'[t])
      BY <2>1, <3>1, NewNodesOK
    <3>3. NodesOK(t, declared[t], emitted[t], info[t])'
      BY <3>2, NodesStable
    <3>4. QED
      BY <2>1, <3>1, <3>3
  <2>2. CASE t # unit
    <3>1. declared'[t] = declared[t] /\ emitted'[t] = emitted[t] /\ info'[t] = info[t]
      BY <1>2, <2>2
    <3>2. NodesOK(t, declared[t], emitted[t], info[t])'
      BY <1>2, <3>1, NodesStable
    <3>3. QED
      BY <1>2, <3>1, <3>2
  <2>3. QED
    BY <2>1, <2>2
<1>3. QED
  BY <1>1, <1>2

LEMMA EndUnitCompileInv ==
  ASSUME CompileInv, EndUnit
  PROVE  CompileInv'
<1> USE DEF CompileInv, EndUnit
<1>1. Units' = Units /\ \A t : MD(t)' = MD(t)
  BY DEF Units, MD
<1>2. \A t \in Units : NodesOK(t, declared[t], emitted[t], info[t])'
  BY NodesStable
<1>3. unit' \in Units
  BY SourceFacts
<1>4. QED
  BY <1>1, <1>2, <1>3


\* What the passes leave alone.
PassStep ==
  \/ GlobalDCE \/ SDFix \/ SDBuildCHA \/ SDAnalysis
  \/ SDLayoutBuilder \/ SDUpdateIndices \/ SDSubstModule \/ SDCleanup
  \/ Done

LEMMA PassFrame ==
  ASSUME PassStep
  PROVE  /\ UNCHANGED <<program, compiled, link>>
         /\ pc = "passes"
         /\ pc' \in {"passes", "done", "aborted"}
<1> USE DEF Runs, Ended, Aborted
<1>1. CASE GlobalDCE
  BY <1>1 DEF GlobalDCE
<1>2. CASE SDFix
  BY <1>2 DEF SDFix
<1>3. CASE SDBuildCHA
  BY <1>3 DEF SDBuildCHA
<1>4. CASE SDAnalysis
  BY <1>4 DEF SDAnalysis
<1>5. CASE SDLayoutBuilder
  BY <1>5 DEF SDLayoutBuilder
<1>6. CASE SDUpdateIndices
  BY <1>6 DEF SDUpdateIndices
<1>7. CASE SDSubstModule
  BY <1>7 DEF SDSubstModule
<1>8. CASE SDCleanup
  BY <1>8 DEF SDCleanup
<1>9. CASE Done
  BY <1>9 DEF Done
<1>10. QED
  BY <1>1, <1>2, <1>3, <1>4, <1>5, <1>6, <1>7, <1>8, <1>9 DEF PassStep

\* The steps there are.
LEMMA StepCases ==
  ASSUME [Next]_vars
  PROVE  \/ \E c \in Class : ReferenceVTable(c) /\ UNCHANGED passes
         \/ \E c \in Class : DefineVTable(c) /\ UNCHANGED passes
         \/ EndUnit /\ UNCHANGED passes
         \/ \E t \in Units : LinkUnit(t) /\ UNCHANGED passes
         \/ PassStep
         \/ UNCHANGED vars
BY DEF Next, Build, Finished, PassStep

LEMMA NextCompileInv == CompileInv /\ [Next]_vars => CompileInv'
<1> SUFFICES ASSUME CompileInv, [Next]_vars
             PROVE  CompileInv'
  OBVIOUS
<1>1. ASSUME NEW t \in Units, LinkUnit(t)
      PROVE  CompileInv'
  <2>1. program' = program /\ UNCHANGED compiled /\ pc' \in {pc, "passes"}
    BY <1>1 DEF LinkUnit
  <2>2. pc' \in {"compile", "link", "passes", "done", "aborted"}
    BY <2>1 DEF CompileInv
  <2>3. QED
    BY <2>1, <2>2, CompileStable
<1>2. CASE PassStep
  BY <1>2, PassFrame, CompileStable
<1>3. CASE UNCHANGED vars
  <2>1. program' = program /\ UNCHANGED compiled /\ pc' = pc
    BY <1>3 DEF vars, compiled
  <2>2. QED
    BY <2>1, CompileStable DEF CompileInv
<1>4. QED
  BY <1>1, <1>2, <1>3, StepCases, ReferenceVTableCompileInv, DefineVTableCompileInv,
     EndUnitCompileInv

------------------------------------------------------------------------------
(* Linking                                                                   *)

LEMMA InitSymbolsInv == Init => SymbolsInv
<1> SUFFICES ASSUME Init
             PROVE  SymbolsInv
  OBVIOUS
<1>1. /\ pc = "compile" /\ linked = <<>>
      /\ symbol = [t \in Units |-> <<>>] /\ declared = [t \in Units |-> {}]
  BY DEF Init, LinkInit
<1>2. ToSet(linked) = {} /\ IsInjective(linked)
  BY <1>1 DEF ToSet, IsInjective
<1>3. QED
  BY <1>1, <1>2 DEF SymbolsInv

\* The invariant is about the symbols, and about what was declared of units
\* that are linked.
LEMMA SymbolsStable ==
  ASSUME SymbolsInv, program' = program, UNCHANGED link,
         \A t \in ToSet(linked) : declared'[t] = declared[t],
         pc' = "compile" => pc = "compile",
         pc' \in {"compile", "link"} \/ pc \notin {"compile", "link"}
  PROVE  SymbolsInv'
<1>1. /\ Units' = Units /\ linked' = linked /\ symbol' = symbol
      /\ \A t, c : Shared(c)' = Shared(c) /\ isInternal(t, c)' = isInternal(t, c)
  BY DEF Units, MD, Shared, isInternal, link
<1>2. QED
  BY <1>1 DEF SymbolsInv, ToSet, IsInjective

\* A name that is internal to two units is shared.
LEMMA SharedByTwo ==
  ASSUME CompileInv, NEW t \in Units, NEW u \in Units, t # u,
         NEW c, c \in DOMAIN MD(t), c \in DOMAIN MD(u), isInternal(t, c)
  PROVE  Shared(c) /\ isInternal(u, c)
<1> DEFINE T == {w \in Units : c \in DOMAIN MD(w) /\ isInternal(w, c)}
<1>1. isInternal(u, c)
  BY SourcesAssumption DEF CompileInv, IsSource, isInternal, Units, MD
<1>2. t \in T /\ u \in T
  BY <1>1
<1>3. T \subseteq 1 .. Len(program.units) /\ Len(program.units) \in Nat
  BY SourceFacts DEF CompileInv
<1> HIDE DEF T
<1>4. IsFiniteSet(T)
  <2> DEFINE n == Len(program.units)
  <2>1. IsFiniteSet(1 .. n)
    <3>1. 1 \in Int /\ n \in Int
      BY <1>3
    <3>2. QED
      BY <3>1, FS_Interval
  <2>2. QED
    BY <1>3, <2>1, FS_Subset
<1>5. Cardinality(T) # 0 /\ Cardinality(T) # 1 /\ Cardinality(T) \in Nat
  BY <1>2, <1>4, FS_EmptySet, FS_Singleton, FS_CardinalityType
<1>6. Cardinality(T) > 1
  BY <1>5
<1>7. QED
  BY <1>1, <1>6 DEF Shared, T

\* New symbols are nobody's names.
LEMMA RenamedFacts ==
  ASSUME program \in Programs, NEW t \in Units, NEW c \in DOMAIN MD(t)
  PROVE  /\ Renamed(c, t) \in Class
         /\ \A u \in Units : Renamed(c, t) \notin DOMAIN MD(u)
         /\ \A u \in Units : \A d \in DOMAIN MD(u) :
              Renamed(c, t) = Renamed(d, u) => c = d /\ t = u
BY RenamedAssumption DEF Units, MD

\* A sequence of all units once.
LEMMA AllLinked ==
  ASSUME NEW n \in Nat, NEW s \in Seq(1 .. n), IsInjective(s), Len(s) = n
  PROVE  ToSet(s) = 1 .. n
<1>1. s \in [1 .. n -> 1 .. n]
  OBVIOUS
<1>2. s \in Injection(1 .. n, 1 .. n)
  BY <1>1 DEF Injection, IsInjective
<1>3. IsFiniteSet(1 .. n)
  BY FS_Interval
<1>4. s \in Surjection(1 .. n, 1 .. n)
  BY <1>2, <1>3, FS_Injection
<1>5. QED
  BY <1>1, <1>4 DEF Surjection, ToSet


LEMMA LinkUnitSymbolsInv ==
  ASSUME CompileInv, SymbolsInv, NEW t \in Units, LinkUnit(t)
  PROVE  SymbolsInv'
<1> DEFINE sym == [c \in declared[t] |->
                     IF isInternal(t, c) /\ c \in Symbols THEN Renamed(c, t) ELSE c]
<1>1. /\ pc = "link" /\ t \notin ToSet(linked)
      /\ linked' = Append(linked, t)
      /\ symbol' = [symbol EXCEPT ![t] = sym]
      /\ pc' = IF Len(linked') = Len(program.units) THEN "passes" ELSE pc
      /\ program' = program /\ declared' = declared
  BY DEF LinkUnit, compiled
<1>2. /\ Units' = Units /\ \A u : MD(u)' = MD(u)
      /\ \A u, c : Shared(c)' = Shared(c) /\ isInternal(u, c)' = isInternal(u, c)
  BY <1>1 DEF Units, MD, Shared, isInternal
<1>3. linked' \in Seq(Units) /\ Len(linked') = Len(linked) + 1 /\ Len(linked) \in Nat
  BY <1>1 DEF SymbolsInv
<1>4. IsInjective(linked) /\ linked \in Seq(Units)
  BY DEF SymbolsInv
<1>5. \A i \in 1 .. Len(linked) : linked'[i] = linked[i] /\ linked[i] # t
  BY <1>1, <1>4 DEF ToSet
<1>6. linked'[Len(linked) + 1] = t
  BY <1>1, <1>4
<1>7. DOMAIN linked = 1 .. Len(linked) /\ DOMAIN linked' = 1 .. Len(linked) + 1
  BY <1>3, <1>4
<1>8. ToSet(linked)' = ToSet(linked) \cup {t}
  <2>1. ToSet(linked)' = {linked'[i] : i \in 1 .. Len(linked) + 1}
    BY <1>7 DEF ToSet
  <2>2. ToSet(linked) = {linked[i] : i \in 1 .. Len(linked)}
    BY <1>7 DEF ToSet
  <2>3. \A i \in 1 .. Len(linked) + 1 : i \in 1 .. Len(linked) \/ i = Len(linked) + 1
    BY <1>3
  <2>4. \A i \in 1 .. Len(linked) : i \in 1 .. Len(linked) + 1
    BY <1>3
  <2>5. Len(linked) + 1 \in 1 .. Len(linked) + 1
    BY <1>3
  <2> DEFINE m == Len(linked)
             r == linked'
  <2> HIDE DEF m, r
  <2>6. QED
    BY <1>5, <1>6, <2>1, <2>2, <2>3, <2>4, <2>5
<1>9. IsInjective(linked)'
  <2>1. SUFFICES ASSUME NEW i \in 1 .. Len(linked) + 1, NEW j \in 1 .. Len(linked) + 1,
                        linked'[i] = linked'[j]
                 PROVE  i = j
    BY <1>7 DEF IsInjective
  <2>2. CASE i \in 1 .. Len(linked) /\ j \in 1 .. Len(linked)
    BY <1>4, <1>5, <1>7, <2>1, <2>2 DEF IsInjective
  <2>3. CASE i = Len(linked) + 1 /\ j \in 1 .. Len(linked)
    BY <1>5, <1>6, <2>1, <2>3
  <2>4. CASE j = Len(linked) + 1 /\ i \in 1 .. Len(linked)
    BY <1>5, <1>6, <2>1, <2>4
  <2>5. QED
    BY <1>3, <2>2, <2>3, <2>4
<1>10. /\ symbol' = [u \in Units |-> symbol'[u]]
       /\ symbol'[t] = sym
       /\ \A u \in Units : u # t => symbol'[u] = symbol[u]
  <2>1. symbol = [u \in Units |-> symbol[u]]
    BY DEF SymbolsInv
  <2> HIDE DEF sym
  <2>2. QED
    BY <1>1, <2>1
<1>11. \A u \in Units : DOMAIN symbol'[u] =
         IF u \in ToSet(linked) \cup {t} THEN declared[u] ELSE {}
  BY <1>10 DEF SymbolsInv
<1>12. \A c \in declared[t] : c \in DOMAIN MD(t) /\ Renamed(c, t) # c
  BY RenamedFacts DEF CompileInv
\* A symbol that the unit finds taken is another unit's internal name.
<1>13. ASSUME NEW u \in Units, NEW d \in DOMAIN symbol[u], NEW c \in declared[t],
              symbol[u][d] = c
       PROVE  d = c /\ u # t /\ c \in DOMAIN MD(u)
  <2>1. u \in ToSet(linked) /\ d \in declared[u] /\ d \in DOMAIN MD(u) /\ u # t
    BY <1>1, <1>13 DEF SymbolsInv, CompileInv
  <2>2. Renamed(d, u) \notin DOMAIN MD(t)
    BY <2>1, RenamedFacts DEF CompileInv
  <2>3. d = c
    BY <1>12, <1>13, <2>2 DEF SymbolsInv
  <2>4. QED
    BY <2>1, <2>3
<1>14. ASSUME NEW c \in declared[t], isInternal(t, c), c \in Symbols
       PROVE  Shared(c)
  <2>1. PICK u \in Units : \E d \in DOMAIN symbol[u] : symbol[u][d] = c
    BY <1>14 DEF Symbols, Range
  <2>2. u # t /\ c \in DOMAIN MD(u)
    BY <1>13, <2>1
  <2>3. QED
    BY <1>12, <1>14, <2>2, SharedByTwo
<1>15. ASSUME NEW u \in Units, NEW c \in DOMAIN symbol'[u]
       PROVE  \/ symbol'[u][c] = c
              \/ symbol'[u][c] = Renamed(c, u) /\ isInternal(u, c) /\ Shared(c)
  <2>1. CASE u = t
    <3>1. c \in declared[t] /\ symbol'[u][c] = sym[c]
      BY <1>10, <2>1
    <3>2. QED
      BY <1>14, <2>1, <3>1
  <2>2. CASE u # t
    BY <1>10, <1>15, <2>2 DEF SymbolsInv
  <2>3. QED
    BY <2>1, <2>2
<1>16. ASSUME NEW u \in Units, u # t, NEW c \in DOMAIN symbol'[u] \cap declared[t],
              isInternal(t, c), sym[c] = c
       PROVE  symbol'[u][c] # c
  <2>1. c \notin Symbols
    BY <1>12, <1>16
  <2>2. c \in DOMAIN symbol[u] /\ symbol'[u] = symbol[u]
    BY <1>10, <1>16
  <2>3. QED
    BY <2>1, <2>2 DEF Symbols, Range
<1>17. ASSUME NEW u \in Units, NEW w \in Units,
              NEW c \in DOMAIN symbol'[u] \cap DOMAIN symbol'[w], u # w, isInternal(u, c)
       PROVE  symbol'[u][c] # c \/ symbol'[w][c] # c
  <2>1. c \in declared[u] /\ c \in declared[w]
    BY <1>11
  <2>2. c \in DOMAIN MD(u) /\ c \in DOMAIN MD(w)
    BY <2>1 DEF CompileInv
  <2>3. isInternal(w, c)
    BY <1>17, <2>2, SharedByTwo
  <2> HIDE DEF sym
  <2>4. CASE u = t
    BY <1>10, <1>16, <1>17, <2>1, <2>4
  <2>5. CASE w = t
    BY <1>10, <1>16, <1>17, <2>1, <2>3, <2>5
  <2>6. CASE u # t /\ w # t
    BY <1>10, <1>17, <2>6 DEF SymbolsInv
  <2>7. QED
    BY <2>4, <2>5, <2>6
<1>18. pc' \notin {"compile", "link"} => ToSet(linked)' = Units
  <2>1. SUFFICES ASSUME Len(linked') = Len(program.units)
                 PROVE  ToSet(linked') = Units
    BY <1>1 DEF ToSet
  <2>2. Units = 1 .. Len(program.units) /\ Len(program.units) \in Nat
    BY SourceFacts DEF CompileInv
  <2>3. IsInjective(linked')
    BY <1>9 DEF IsInjective
  <2>4. linked' \in Seq(1 .. Len(program.units))
    BY <1>3, <2>2
  <2>5. QED
    BY <2>1, <2>2, <2>3, <2>4, AllLinked
<1>19. pc' # "compile"
  BY <1>1
<1> HIDE DEF sym
<1>20. QED
  BY <1>2, <1>3, <1>8, <1>9, <1>10, <1>11, <1>15, <1>17, <1>18, <1>19, <1>1 DEF SymbolsInv

LEMMA NextSymbolsInv == CompileInv /\ SymbolsInv /\ [Next]_vars => SymbolsInv'
<1> SUFFICES ASSUME CompileInv, SymbolsInv, [Next]_vars
             PROVE  SymbolsInv'
  OBVIOUS
<1>1. ASSUME pc = "compile", program' = program, UNCHANGED link,
             pc' \in {"compile", "link"}
      PROVE  SymbolsInv'
  <2>1. ToSet(linked) = {}
    BY <1>1 DEF SymbolsInv, ToSet
  <2>2. QED
    BY <1>1, <2>1, SymbolsStable
<1>2. ASSUME NEW c \in Class, ReferenceVTable(c)
      PROVE  SymbolsInv'
  BY <1>1, <1>2 DEF ReferenceVTable
<1>3. ASSUME NEW c \in Class, DefineVTable(c)
      PROVE  SymbolsInv'
  BY <1>1, <1>3 DEF DefineVTable
<1>4. CASE EndUnit
  BY <1>1, <1>4 DEF EndUnit
<1>5. CASE PassStep
  <2>1. /\ program' = program /\ UNCHANGED link /\ declared' = declared
        /\ pc' \notin {"compile", "link"} /\ pc \notin {"compile", "link"}
    BY <1>5, PassFrame DEF compiled
  <2>2. QED
    BY <2>1, SymbolsStable
<1>6. CASE UNCHANGED vars
  BY <1>6, SymbolsStable DEF vars, compiled
<1>7. QED
  BY <1>2, <1>3, <1>4, <1>5, <1>6, StepCases, LinkUnitSymbolsInv


------------------------------------------------------------------------------
(* The stages                                                                *)

\* What is read from the module depends on its symbols, nodes and vtables.
LEMMA ModuleStable ==
  ASSUME UNCHANGED <<program, compiled, link>>
  PROVE  /\ Definitions' = Definitions
         /\ removed' = removed => extractMetadata' = extractMetadata /\ Found' = Found
<1> USE DEF compiled, link, Units, MD
<1>1. Definitions' = Definitions
  BY DEF Definitions, ToSet
<1>2. ASSUME removed' = removed
      PROVE  extractMetadata' = extractMetadata
  BY <1>2 DEF extractMetadata, Nodes, CopyNames, Copies, FirstCopy, SubVTables, NameOf, Alive,
     Definitions, ToSet
<1>3. ASSUME removed' = removed
      PROVE  Found' = Found
  BY <1>2, <1>3 DEF Found
<1>4. QED
  BY <1>1, <1>2, <1>3

LEMMA MissingStable ==
  ASSUME UNCHANGED <<program, compiled, link>>, Alive' \cup moved' = Alive \cup moved
  PROVE  /\ Missing' = Missing
         /\ Inspectable' = Inspectable
         /\ \A d : Replaceable(d)' = Replaceable(d)
<1>1. Missing' = Missing
  BY DEF Missing, Destructors, Slots, isDefined, Form, isVtableName
<1>2. program' = program
  OBVIOUS
<1>3. \A d : Replaceable(d)' = Replaceable(d)
  BY <1>2 DEF Replaceable, Form, Base
<1>4. Inspectable' = Inspectable
  BY DEF Inspectable, Destructors, Slots, Form, isVtableName
<1>5. QED
  BY <1>1, <1>3, <1>4

LEMMA EmitsStable ==
  ASSUME program' = program
  PROVE  /\ \A k : emits(k)' = emits(k)
         /\ \A k, L : Lowered(k, L)' = Lowered(k, L)
BY DEF emits, Lowered

LEMMA OptionsType ==
  ASSUME program \in Programs
  PROVE  program.options \in SUBSET Options
BY SourceFacts DEF IsBuild

\* With all passes to come, nothing has been done.
LEMMA NothingDone ==
  ASSUME NEW o, o = program.options, NEW left, left = Scheduled(o)
  PROVE  /\ o = {} \/ "SDBuildCHA" \in left
         /\ o = {} \/ "SDFix" \in left
         /\ ~ lays(o) \/ "SDLayoutBuilder" \in left
         /\ ~ lays(o) \/ "SDUpdateIndices" \in left
         /\ \A k \in Kinds : Lowered(k, left) = "get"
BY DEF Scheduled, Lowered

LEMMA InitStageInv == Init => StageInv
<1> SUFFICES ASSUME Init
             PROVE  StageInv
  OBVIOUS
<1> DEFINE o == program.options
           L == Names(todo)
<1>1. program \in Programs /\ o \in SUBSET Options
  BY OptionsType DEF Init, LinkInit
<1>2. Remaining(todo, o) /\ L = Scheduled(o)
  BY <1>1, AllRemain DEF Init
<1>3. /\ cha = [status |-> "none"] /\ layout = [status |-> "none"] /\ tables = "old"
      /\ moved = {} /\ replaced = {} /\ removed = {} /\ pc = "compile"
      /\ code = [k \in Kinds |-> IF emits(k) THEN "get" ELSE "none"]
  BY DEF Init, LinkInit
<1>4. /\ o = {} \/ "SDBuildCHA" \in L
      /\ o = {} \/ "SDFix" \in L
      /\ ~ lays(o) \/ "SDLayoutBuilder" \in L
      /\ ~ lays(o) \/ "SDUpdateIndices" \in L
      /\ \A k \in Kinds : Lowered(k, L) = "get"
  BY <1>2, NothingDone
<1> HIDE DEF L
<1>5. ResultsAt(L)
  BY <1>3, <1>4 DEF ResultsAt
<1>6. CodeAt(L)
  BY <1>3, <1>4 DEF CodeAt
<1>7. VTablesAt(L)
  BY <1>3, <1>4 DEF VTablesAt
<1>8. QED
  BY <1>2, <1>3, <1>5, <1>6, <1>7 DEF StageInv, L

\* Compiling and linking do not touch what the passes do.
LEMMA BeforePassesStageInv ==
  ASSUME CompileInv, StageInv, program' = program, UNCHANGED passes, removed' = removed,
         pc \in {"compile", "link"}, pc' \in {"compile", "link", "passes"}
  PROVE  StageInv'
<1> DEFINE o == program.options
           L == Names(todo)
<1>1. /\ Remaining(todo, o) /\ L = Scheduled(o) /\ removed = {}
      /\ ResultsAt(L) /\ CodeAt(L) /\ VTablesAt(L)
  BY DEF StageInv
<1>2. /\ o = {} \/ "SDBuildCHA" \in L
      /\ o = {} \/ "SDFix" \in L
      /\ ~ lays(o) \/ "SDLayoutBuilder" \in L
      /\ ~ lays(o) \/ "SDUpdateIndices" \in L
  BY <1>1, NothingDone
<1>3. todo' = todo /\ cha' = cha /\ layout' = layout /\ tables' = tables
      /\ moved' = moved /\ replaced' = replaced /\ code' = code
  BY DEF passes
<1>4. L' = L /\ o' = o
  BY <1>3 DEF Names
<1> HIDE DEF L
<1>5. ResultsAt(L)'
  BY <1>1, <1>2, <1>3, <1>4 DEF ResultsAt
<1>6. CodeAt(L)'
  BY <1>1, <1>3, <1>4, EmitsStable DEF CodeAt
<1>7. VTablesAt(L)'
  BY <1>1, <1>2, <1>3, <1>4 DEF VTablesAt
<1>8. Remaining(todo, o)'
  BY <1>1, <1>3, <1>4 DEF Remaining, Names
<1>9. Scheduled(o)' = Scheduled(o)
  BY <1>4 DEF Scheduled, lays
<1>10. QED
  BY <1>1, <1>3, <1>4, <1>5, <1>6, <1>7, <1>8, <1>9 DEF StageInv, L


\* The pass that runs is the first of those left, and what it takes with it is
\* its own name.
LEMMA AtHead ==
  ASSUME CompileInv, StageInv, NEW h, Runs(h)
  PROVE  LET o == program.options
             L == Names(todo) IN
         /\ o \in SUBSET Options
         /\ h \in Scheduled(o) /\ h \in PassNames
         /\ L = {x \in Scheduled(o) : Rank(h) <= Rank(x)}
         /\ Names(Tail(todo)) = L \ {h}
         /\ Remaining(Tail(todo), o)
         /\ h = "SDLayoutBuilder" => Head(todo).interleave = ("interleave" \in o)
         /\ ResultsAt(L) /\ CodeAt(L) /\ VTablesAt(L)
<1> DEFINE o == program.options
           L == Names(todo)
<1>1. /\ Remaining(todo, o) /\ ResultsAt(L) /\ CodeAt(L) /\ VTablesAt(L)
      /\ todo # <<>> /\ Head(todo).name = h
  BY DEF StageInv, Runs
<1>2. o \in SUBSET Options
  BY OptionsType DEF CompileInv
<1>3. /\ h \in Scheduled(o)
      /\ h = "SDLayoutBuilder" => Head(todo).interleave = ("interleave" \in o)
      /\ L = {x \in Scheduled(o) : Rank(h) <= Rank(x)}
      /\ Names(Tail(todo)) = {x \in Scheduled(o) : Rank(h) < Rank(x)}
      /\ Remaining(Tail(todo), o)
  <2> DEFINE k == Head(todo).name
  <2>1. /\ k \in Scheduled(o)
        /\ k = "SDLayoutBuilder" => Head(todo).interleave = ("interleave" \in o)
        /\ L = {x \in Scheduled(o) : Rank(k) <= Rank(x)}
        /\ Names(Tail(todo)) = {x \in Scheduled(o) : Rank(k) < Rank(x)}
        /\ Remaining(Tail(todo), o)
    BY <1>1, HeadAndTail
  <2>2. k = h
    BY <1>1
  <2> HIDE DEF k, L
  <2>3. QED
    BY <2>1, <2>2
<1>4. h \in PassNames /\ Scheduled(o) \subseteq PassNames
  BY <1>3, ScheduledNames
<1>5. \A x \in Scheduled(o) : /\ Rank(x) \in 1 .. 8 /\ Rank(h) \in 1 .. 8
                              /\ Rank(h) = Rank(x) => h = x
  BY <1>4, RankType
<1>6. Names(Tail(todo)) = L \ {h}
  BY <1>3, <1>5
<1>7. QED
  BY <1>1, <1>2, <1>3, <1>4, <1>6

\* Once a pass has run, with what it leaves.
LEMMA Advance ==
  ASSUME CompileInv, StageInv, NEW h, Runs(h), Ended, program' = program,
         pc' = "passes", NEW left, left = Names(todo) \ {h},
         ResultsAt(left)', CodeAt(left)', VTablesAt(left)'
  PROVE  StageInv'
<1> DEFINE o == program.options
<1>1. /\ Remaining(Tail(todo), o)
      /\ Names(Tail(todo)) = left
  BY AtHead
<1>2. todo' = Tail(todo) /\ o' = o
  BY DEF Ended
<1>3. Names(todo') = left /\ Remaining(todo', o)
  BY <1>1, <1>2
<1>4. Names(todo)' = left
  BY <1>3 DEF Names
<1>5. Remaining(todo, o)'
  BY <1>2, <1>3 DEF Remaining, Names, Scheduled, lays
<1>6. QED
  BY <1>4, <1>5 DEF StageInv

\* What cannot have changed.
LEMMA ResultsStable ==
  ASSUME UNCHANGED <<program, compiled, link, cha, layout>>, NEW left, NEW rest,
         ResultsAt(left),
         \/ /\ program.options = {} \/ "SDBuildCHA" \in left
            /\ ~ lays(program.options) \/ "SDLayoutBuilder" \in left
         \/ removed' = removed,
         \A x \in {"SDBuildCHA", "SDLayoutBuilder", "SDUpdateIndices"} :
           x \in left <=> x \in rest
  PROVE  ResultsAt(rest)'
<1>1. removed' = removed => extractMetadata' = extractMetadata /\ Found' = Found
  BY ModuleStable
<1>2. program' = program /\ cha' = cha /\ layout' = layout
  OBVIOUS
<1>3. lays(program.options)' = lays(program.options)
  BY <1>2 DEF lays
<1>4. CASE removed' = removed
  BY <1>1, <1>2, <1>3, <1>4 DEF ResultsAt
<1>5. CASE removed' # removed
  BY <1>2, <1>3, <1>5 DEF ResultsAt
<1>6. QED
  BY <1>4, <1>5

LEMMA CodeStable ==
  ASSUME program' = program, UNCHANGED <<tables, code>>, NEW left, NEW rest, CodeAt(left),
         \A x \in {"SDLayoutBuilder", "SDUpdateIndices", "SDSubstModule", "SDCleanup"} :
           x \in left <=> x \in rest
  PROVE  CodeAt(rest)'
<1>1. \A k \in Kinds : Lowered(k, left) = Lowered(k, rest)
  BY DEF Lowered
<1>2. \A k : emits(k)' = emits(k) /\ Lowered(k, rest)' = Lowered(k, rest)
  BY EmitsStable
<1>3. QED
  BY <1>1, <1>2 DEF CodeAt

LEMMA VTablesStable ==
  ASSUME UNCHANGED <<program, compiled, link, removed, moved, replaced>>,
         NEW left, NEW rest, VTablesAt(left),
         \A x \in {"SDFix", "SDUpdateIndices"} : x \in left <=> x \in rest
  PROVE  VTablesAt(rest)'
<1>1. Definitions' = Definitions
  BY ModuleStable
<1>2. Alive' \cup moved' = Alive \cup moved
  BY <1>1 DEF Alive
<1>3. Missing' = Missing /\ \A d : Replaceable(d)' = Replaceable(d)
  BY <1>2, MissingStable
<1>4. program' = program /\ removed' = removed /\ moved' = moved /\ replaced' = replaced
  OBVIOUS
<1>5. QED
  BY <1>1, <1>3, <1>4 DEF VTablesAt


\* A step that only moves on, like that of a pass that asserts.
LEMMA StageInvStable ==
  ASSUME StageInv, pc' = "done" => todo = <<>>,
         pc' \in {"compile", "link"} => pc \in {"compile", "link"},
         UNCHANGED <<program, compiled, link, removed, todo, cha, layout, tables, moved,
                     replaced, code>>
  PROVE  StageInv'
<1> DEFINE L == Names(todo)
<1>1. /\ Remaining(todo, program.options) /\ ResultsAt(L) /\ CodeAt(L) /\ VTablesAt(L)
      /\ pc \in {"compile", "link"} => L = Scheduled(program.options) /\ removed = {}
  BY DEF StageInv
<1> HIDE DEF L
<1>2. ASSUME NEW left, left = L
      PROVE  ResultsAt(left)' /\ CodeAt(left)' /\ VTablesAt(left)'
  BY <1>1, <1>2, ResultsStable, CodeStable, VTablesStable
<1>3. todo' = todo /\ program' = program /\ removed' = removed
  OBVIOUS
<1>4. L' = L
  BY <1>3 DEF L, Names
<1>5. /\ Remaining(todo, program.options)'
      /\ Scheduled(program.options)' = Scheduled(program.options)
  BY <1>1, <1>3 DEF Remaining, Names, Scheduled, lays
<1>6. PICK left : left = L
  OBVIOUS
<1>7. ResultsAt(left)' /\ CodeAt(left)' /\ VTablesAt(left)'
  BY <1>2, <1>6
<1>8. Names(todo)' = left
  BY <1>4, <1>6 DEF L
<1>9. QED
  BY <1>1, <1>3, <1>5, <1>6, <1>7, <1>8 DEF StageInv

LEMMA GlobalDCEStageInv ==
  ASSUME CompileInv, StageInv, GlobalDCE
  PROVE  StageInv'
<1> DEFINE o == program.options
           L == Names(todo)
<1>1. /\ Runs("GlobalDCE") /\ Ended /\ pc' = "passes" /\ program' = program
      /\ removed' \subseteq Definitions
      /\ UNCHANGED <<program, compiled, link, cha, layout>>
      /\ UNCHANGED <<tables, code, moved, replaced>>
  BY DEF GlobalDCE, Runs
<1>2. /\ o \in SUBSET Options /\ "GlobalDCE" \in Scheduled(o)
      /\ L = {x \in Scheduled(o) : Rank("GlobalDCE") <= Rank(x)}
      /\ ResultsAt(L) /\ CodeAt(L) /\ VTablesAt(L)
  BY <1>1, AtHead
<1>3. /\ o # {} /\ "SDFix" \in L /\ "SDBuildCHA" \in L
      /\ lays(o) => "SDUpdateIndices" \in L /\ "SDLayoutBuilder" \in L
  BY <1>2 DEF Scheduled, Rank
<1>4. PICK left : left = L \ {"GlobalDCE"}
  OBVIOUS
<1> HIDE DEF L
<1>5. ResultsAt(left)'
  BY <1>1, <1>2, <1>3, <1>4, ResultsStable
<1>6. CodeAt(left)'
  BY <1>1, <1>2, <1>4, CodeStable
<1>7. VTablesAt(left)'
  <2>1. Definitions' = Definitions
    BY <1>1, ModuleStable
  <2>2. /\ moved = {} /\ replaced = {}
    BY <1>2, <1>3 DEF VTablesAt
  <2>3. /\ moved' = {} /\ replaced' = {} /\ "SDFix" \in left /\ o' = o
    BY <1>1, <1>3, <1>4, <2>2
  <2>4. QED
    BY <1>1, <2>1, <2>3 DEF VTablesAt
<1>8. QED
  BY <1>1, <1>4, <1>5, <1>6, <1>7, Advance DEF L

LEMMA SDFixStageInv ==
  ASSUME CompileInv, StageInv, SDFix
  PROVE  StageInv'
<1> DEFINE o == program.options
           L == Names(todo)
<1>1. /\ Runs("SDFix") /\ program' = program /\ pc = "passes"
      /\ UNCHANGED <<program, compiled, link, cha, layout>> /\ removed' = removed
      /\ UNCHANGED <<tables, code, moved>>
      /\ \/ Aborted /\ UNCHANGED replaced
         \/ Ended /\ pc' = pc /\ replaced' = Missing /\ \A d \in Missing : Replaceable(d)
  BY DEF SDFix, Runs
<1>2. CASE Aborted /\ UNCHANGED replaced
  BY <1>1, <1>2, StageInvStable DEF Aborted
<1>3. CASE /\ Ended /\ pc' = pc /\ replaced' = Missing
           /\ \A d \in Missing : Replaceable(d)
  <2>1. /\ o \in SUBSET Options /\ "SDFix" \in Scheduled(o)
        /\ L = {x \in Scheduled(o) : Rank("SDFix") <= Rank(x)}
        /\ ResultsAt(L) /\ CodeAt(L) /\ VTablesAt(L)
    BY <1>1, AtHead
  <2>2. o # {}
    BY <2>1 DEF Scheduled
  <2>3. PICK left : left = L \ {"SDFix"}
    OBVIOUS
  <2> HIDE DEF L
  <2>4. ResultsAt(left)'
    BY <1>1, <2>1, <2>3, ResultsStable
  <2>5. CodeAt(left)'
    BY <1>1, <2>1, <2>3, CodeStable
  <2>6. VTablesAt(left)'
    <3>1. Definitions' = Definitions
      BY <1>1, ModuleStable
    <3>2. Alive' \cup moved' = Alive \cup moved
      BY <1>1, <3>1 DEF Alive
    <3>3. Missing' = Missing /\ \A d : Replaceable(d)' = Replaceable(d)
      BY <1>1, <3>2, MissingStable
    <3>4. /\ removed \subseteq Definitions /\ moved \subseteq removed
          /\ ~ lays(o) \/ "SDUpdateIndices" \in L => moved = {}
      BY <2>1 DEF VTablesAt
    <3>5. /\ removed' = removed /\ moved' = moved /\ o' = o
          /\ "SDUpdateIndices" \in left => "SDUpdateIndices" \in L
          /\ "SDFix" \notin left
      BY <1>1, <2>3
    <3>6. lays(o)' = lays(o)
      BY <1>1 DEF lays
    <3>7. QED
      BY <1>3, <2>2, <3>1, <3>3, <3>4, <3>5, <3>6 DEF VTablesAt
  <2>7. QED
    BY <1>1, <1>3, <2>3, <2>4, <2>5, <2>6, Advance DEF L
<1>4. QED
  BY <1>1, <1>2, <1>3

LEMMA SDBuildCHAStageInv ==
  ASSUME CompileInv, StageInv, SDBuildCHA
  PROVE  StageInv'
<1> DEFINE o == program.options
           L == Names(todo)
<1>1. /\ Runs("SDBuildCHA") /\ program' = program /\ pc = "passes"
      /\ UNCHANGED <<program, compiled, link, removed, moved, replaced>>
      /\ UNCHANGED <<tables, code>> /\ layout' = layout
      /\ \/ Aborted /\ UNCHANGED cha
         \/ /\ Ended /\ pc' = pc
            /\ cha' = [status |-> "built", metadata |-> extractMetadata]
  BY DEF SDBuildCHA, Runs
<1>2. CASE Aborted /\ UNCHANGED cha
  BY <1>1, <1>2, StageInvStable DEF Aborted
<1>3. CASE /\ Ended /\ pc' = pc
           /\ cha' = [status |-> "built", metadata |-> extractMetadata]
  <2>1. /\ o \in SUBSET Options /\ "SDBuildCHA" \in Scheduled(o)
        /\ L = {x \in Scheduled(o) : Rank("SDBuildCHA") <= Rank(x)}
        /\ ResultsAt(L) /\ CodeAt(L) /\ VTablesAt(L)
    BY <1>1, AtHead
  <2>2. /\ o # {}
        /\ lays(o) => "SDUpdateIndices" \in L
    BY <2>1 DEF Scheduled, Rank
  <2>3. PICK left : left = L \ {"SDBuildCHA"}
    OBVIOUS
  <2> HIDE DEF L
  <2>4. ResultsAt(left)'
    <3>1. extractMetadata' = extractMetadata /\ Found' = Found
      BY <1>1, ModuleStable
    <3>2. cha' = [status |-> "built", metadata |-> extractMetadata']
      BY <1>3, <3>1
    <3>3. layout = IF ~ lays(o) \/ "SDLayoutBuilder" \in L THEN [status |-> "none"]
                   ELSE IF "SDUpdateIndices" \notin L THEN [status |-> "cleared"]
                   ELSE [status |-> "built", interleave |-> "interleave" \in o,
                         laid |-> Found]
      BY <2>1 DEF ResultsAt
    <3>4. /\ "SDBuildCHA" \notin left /\ layout' = layout /\ o' = o
          /\ \A x \in {"SDLayoutBuilder", "SDUpdateIndices"} : x \in left <=> x \in L
      BY <1>1, <2>3
    <3>5. lays(o)' = lays(o)
      BY <1>1 DEF lays
    <3>6. cha' = IF o' = {} \/ "SDBuildCHA" \in left THEN [status |-> "none"]
                 ELSE IF lays(o') /\ "SDUpdateIndices" \notin left
                      THEN [status |-> "cleared"]
                 ELSE [status |-> "built", metadata |-> extractMetadata']
      BY <2>2, <3>2, <3>4 DEF lays
    <3>7. layout' = IF ~ lays(o') \/ "SDLayoutBuilder" \in left THEN [status |-> "none"]
                    ELSE IF "SDUpdateIndices" \notin left THEN [status |-> "cleared"]
                    ELSE [status |-> "built", interleave |-> "interleave" \in o',
                          laid |-> Found']
      BY <3>1, <3>3, <3>4 DEF lays
    <3>8. QED
      BY <3>6, <3>7 DEF ResultsAt, lays
  <2>5. CodeAt(left)'
    BY <1>1, <2>1, <2>3, CodeStable
  <2>6. VTablesAt(left)'
    BY <1>1, <2>1, <2>3, VTablesStable
  <2>7. QED
    BY <1>1, <1>3, <2>3, <2>4, <2>5, <2>6, Advance DEF L
<1>4. QED
  BY <1>1, <1>2, <1>3

LEMMA SDAnalysisStageInv ==
  ASSUME CompileInv, StageInv, SDAnalysis
  PROVE  StageInv'
<1> DEFINE L == Names(todo)
<1>1. /\ Runs("SDAnalysis") /\ program' = program /\ pc = "passes"
      /\ UNCHANGED <<program, compiled, link, cha, layout>> /\ removed' = removed
      /\ UNCHANGED <<tables, code>>
      /\ UNCHANGED <<program, compiled, link, removed, moved, replaced>>
      /\ Aborted \/ (Ended /\ pc' = pc)
  BY DEF SDAnalysis, Runs
<1>2. ResultsAt(L) /\ CodeAt(L) /\ VTablesAt(L)
  BY <1>1, AtHead
<1>3. PICK left : left = L \ {"SDAnalysis"}
  OBVIOUS
<1> HIDE DEF L
<1>4. ResultsAt(left)'
  BY <1>1, <1>2, <1>3, ResultsStable
<1>5. CodeAt(left)'
  BY <1>1, <1>2, <1>3, CodeStable
<1>6. VTablesAt(left)'
  BY <1>1, <1>2, <1>3, VTablesStable
<1>7. CASE Ended /\ pc' = pc
  BY <1>1, <1>3, <1>4, <1>5, <1>6, <1>7, Advance DEF L
<1>8. CASE Aborted
  BY <1>1, <1>8, StageInvStable DEF Aborted
<1>9. QED
  BY <1>1, <1>7, <1>8

\* The step that lays the vtables out.
LaysOut ==
  /\ layout' = [status |-> "built", interleave |-> Head(todo).interleave,
                laid |-> oldVTables]
  /\ tables' = "both"
  /\ code' = Becoming(Becoming(code, "get", "new", {"thisOffset"}),
                      "get", "other", {"clonedResultOffset"})
  /\ Ended
  /\ UNCHANGED pc

LEMMA SDLayoutBuilderStageInv ==
  ASSUME CompileInv, StageInv, Runs("SDLayoutBuilder"), LaysOut,
         UNCHANGED <<program, compiled, link, removed, cha, moved, replaced>>
  PROVE  StageInv'
<1> DEFINE o == program.options
           L == Names(todo)
<1>1. /\ Runs("SDLayoutBuilder") /\ Ended /\ program' = program /\ pc' = "passes"
      /\ UNCHANGED <<program, compiled, link, removed, moved, replaced>> /\ cha' = cha
      /\ layout' = [status |-> "built", interleave |-> Head(todo).interleave,
                    laid |-> oldVTables]
      /\ tables' = "both"
      /\ code' = Becoming(Becoming(code, "get", "new", {"thisOffset"}),
                          "get", "other", {"clonedResultOffset"})
  BY DEF LaysOut, Runs
<1>2. /\ o \in SUBSET Options /\ "SDLayoutBuilder" \in Scheduled(o)
      /\ L = {x \in Scheduled(o) : Rank("SDLayoutBuilder") <= Rank(x)}
      /\ Head(todo).interleave = ("interleave" \in o)
      /\ ResultsAt(L) /\ CodeAt(L) /\ VTablesAt(L)
  BY <1>1, AtHead
<1>3. lays(o)
  BY <1>2 DEF Scheduled
<1>4. "SDUpdateIndices" \in L /\ "SDLayoutBuilder" \in L /\ "SDBuildCHA" \notin L
  BY <1>2, <1>3 DEF Scheduled, Rank
<1>5. PICK left : left = L \ {"SDLayoutBuilder"}
  OBVIOUS
<1> HIDE DEF L
<1>6. /\ "SDLayoutBuilder" \notin left /\ "SDUpdateIndices" \in left
      /\ "SDBuildCHA" \in left <=> "SDBuildCHA" \in L
  BY <1>4, <1>5
<1>7. o' = o /\ lays(o)' = lays(o)
  BY <1>1 DEF lays
<1>8. ResultsAt(left)'
  <2>1. extractMetadata' = extractMetadata /\ Found' = Found
    BY <1>1, ModuleStable
  <2>2. cha = IF o = {} \/ "SDBuildCHA" \in L THEN [status |-> "none"]
              ELSE [status |-> "built", metadata |-> extractMetadata]
    BY <1>2, <1>4 DEF ResultsAt
  <2>3. cha' = IF o' = {} \/ "SDBuildCHA" \in left THEN [status |-> "none"]
               ELSE [status |-> "built", metadata |-> extractMetadata']
    BY <1>1, <1>6, <1>7, <2>1, <2>2
  <2>4. layout' = [status |-> "built", interleave |-> "interleave" \in o, laid |-> Found]
    <3>1. o # {}
      BY <1>3 DEF lays
    <3>2. cha = [status |-> "built", metadata |-> extractMetadata]
      BY <1>4, <2>2, <3>1
    <3>3. oldVTables = Found
      BY <3>2 DEF oldVTables, Found
    <3>4. QED
      BY <1>1, <1>2, <3>3
  <2>5. QED
    BY <1>3, <1>6, <1>7, <2>1, <2>3, <2>4 DEF ResultsAt
<1>9. CodeAt(left)'
  <2>1. /\ code = [k \in Kinds |-> IF emits(k) THEN Lowered(k, L) ELSE "none"]
    BY <1>2 DEF CodeAt
  <2>2. code' = [k \in Kinds |->
                   IF code[k] # "get" THEN code[k]
                   ELSE IF k = "thisOffset" THEN "new"
                   ELSE IF k = "clonedResultOffset" THEN "other" ELSE "get"]
    BY <1>1 DEF Becoming
  <2>3. \A k \in Kinds : code'[k] = IF emits(k) THEN Lowered(k, left) ELSE "none"
    <3>1. \A k \in Kinds : Lowered(k, L) = "get"
      BY <1>3, <1>4 DEF Lowered
    <3>2. \A k \in Kinds : Lowered(k, left) = IF k = "thisOffset" THEN "new"
                                              ELSE IF k = "clonedResultOffset" THEN "other"
                                              ELSE "get"
      BY <1>3, <1>6 DEF Lowered
    <3>3. QED
      BY <2>1, <2>2, <3>1, <3>2
  <2>4. code' = [k \in Kinds |-> IF emits(k) THEN Lowered(k, left) ELSE "none"]
    BY <2>2, <2>3
  <2>5. \A k : emits(k)' = emits(k) /\ Lowered(k, left)' = Lowered(k, left)
    BY <1>1, EmitsStable
  <2>6. QED
    BY <1>1, <1>3, <1>6, <1>7, <2>4, <2>5 DEF CodeAt
<1>10. VTablesAt(left)'
  BY <1>1, <1>2, <1>5, VTablesStable
<1>11. QED
  BY <1>1, <1>5, <1>8, <1>9, <1>10, Advance DEF L

\* The step that updates the indices.
Updates ==
  /\ code' = Becoming(Becoming(code, "get", "subst", {"index", "check"}),
                      "get", "old", Offsets)
  /\ tables' = "new"
  /\ moved' = oldVTables
  /\ removed' = removed \cup moved'
  /\ cha' = [status |-> "cleared"]
  /\ layout' = [status |-> "cleared"]
  /\ Ended
  /\ UNCHANGED pc

LEMMA SDUpdateIndicesStageInv ==
  ASSUME CompileInv, StageInv, Runs("SDUpdateIndices"), Updates,
         UNCHANGED <<program, compiled, link, replaced>>
  PROVE  StageInv'
<1> DEFINE o == program.options
           L == Names(todo)
<1>1. /\ Runs("SDUpdateIndices") /\ Ended /\ program' = program /\ pc' = "passes"
      /\ UNCHANGED <<program, compiled, link>> /\ replaced' = replaced
      /\ cha' = [status |-> "cleared"] /\ layout' = [status |-> "cleared"]
      /\ tables' = "new"
      /\ moved' = {n \in DOMAIN cha.metadata : cha.metadata[n].defined}
      /\ removed' = removed \cup moved'
      /\ code' = Becoming(Becoming(code, "get", "subst", {"index", "check"}),
                          "get", "old", Offsets)
  BY DEF Updates, Runs, oldVTables
<1>2. /\ o \in SUBSET Options /\ "SDUpdateIndices" \in Scheduled(o)
      /\ L = {x \in Scheduled(o) : Rank("SDUpdateIndices") <= Rank(x)}
      /\ ResultsAt(L) /\ CodeAt(L) /\ VTablesAt(L)
  BY <1>1, AtHead
<1>3. lays(o) /\ o # {}
  BY <1>2 DEF Scheduled, lays
<1>4. /\ "SDUpdateIndices" \in L /\ "SDSubstModule" \in L /\ "SDLayoutBuilder" \notin L
      /\ "SDBuildCHA" \notin L /\ "SDFix" \notin L
  BY <1>2, <1>3 DEF Scheduled, Rank
<1>5. PICK left : left = L \ {"SDUpdateIndices"}
  OBVIOUS
<1> HIDE DEF L
<1>6. /\ "SDLayoutBuilder" \notin left /\ "SDUpdateIndices" \notin left
      /\ "SDBuildCHA" \notin left /\ "SDFix" \notin left /\ "SDSubstModule" \in left
  BY <1>4, <1>5
<1>7. o' = o /\ lays(o)' = lays(o)
  BY <1>1 DEF lays
<1>8. ResultsAt(left)'
  BY <1>1, <1>3, <1>6, <1>7 DEF ResultsAt
<1>9. CodeAt(left)'
  <2>1. /\ code = [k \in Kinds |-> IF emits(k) THEN Lowered(k, L) ELSE "none"]
    BY <1>2 DEF CodeAt
  <2>2. code' = [k \in Kinds |->
                   IF code[k] # "get" THEN code[k]
                   ELSE IF k \in {"index", "check"} THEN "subst" ELSE "old"]
    BY <1>1 DEF Becoming, Kinds, Offsets
  <2>3. \A k \in Kinds : code'[k] = IF emits(k) THEN Lowered(k, left) ELSE "none"
    <3>1. \A k \in Kinds : Lowered(k, L) = CASE k = "thisOffset" -> "new"
                                             [] k = "clonedResultOffset" -> "other"
                                             [] OTHER -> "get"
      BY <1>3, <1>4 DEF Lowered
    <3>2. \A k \in Kinds : Lowered(k, left) = CASE k = "thisOffset" -> "new"
                                                [] k = "clonedResultOffset" -> "other"
                                                [] k = "resultOffset" -> "old"
                                                [] OTHER -> "subst"
      BY <1>3, <1>6 DEF Lowered
    <3>3. QED
      BY <2>1, <2>2, <3>1, <3>2 DEF Kinds, Offsets
  <2>4. code' = [k \in Kinds |-> IF emits(k) THEN Lowered(k, left) ELSE "none"]
    BY <2>2, <2>3
  <2>5. \A k : emits(k)' = emits(k) /\ Lowered(k, left)' = Lowered(k, left)
    BY <1>1, EmitsStable
  <2>6. QED
    BY <1>1, <1>3, <1>6, <1>7, <2>4, <2>5 DEF CodeAt
<1>10. VTablesAt(left)'
  <2>1. cha = [status |-> "built", metadata |-> extractMetadata]
    BY <1>2, <1>3, <1>4 DEF ResultsAt
  <2>2. moved' \subseteq Alive
    <3>1. \A n \in DOMAIN extractMetadata : extractMetadata[n].defined => n \in Alive
      BY DEF extractMetadata
    <3>2. cha.metadata = extractMetadata
      BY <2>1
    <3>3. QED
      BY <1>1, <3>1, <3>2
  <2>3. /\ removed \subseteq Definitions /\ moved = {}
        /\ replaced = Missing /\ \A d \in Missing : Replaceable(d)
    BY <1>2, <1>3, <1>4 DEF VTablesAt
  <2>4. Definitions' = Definitions
    BY <1>1, ModuleStable
  <2>5. Alive' \cup moved' = Alive \cup moved
    <3>1. Alive' = Definitions \ (removed \cup moved')
      BY <1>1, <2>4 DEF Alive
    <3>2. Alive = Definitions \ removed
      BY DEF Alive
    <3>3. QED
      BY <2>2, <2>3, <3>1, <3>2
  <2>6. Missing' = Missing /\ \A d : Replaceable(d)' = Replaceable(d)
    BY <1>1, <2>5, MissingStable
  <2>7. removed' \subseteq Definitions
    BY <1>1, <2>2, <2>3 DEF Alive
  <2>8. QED
    BY <1>1, <1>3, <1>6, <1>7, <2>3, <2>4, <2>6, <2>7 DEF VTablesAt
<1>11. QED
  BY <1>1, <1>5, <1>8, <1>9, <1>10, Advance DEF L

LEMMA SDSubstModuleStageInv ==
  ASSUME CompileInv, StageInv, SDSubstModule
  PROVE  StageInv'
<1> DEFINE o == program.options
           L == Names(todo)
<1>1. /\ Runs("SDSubstModule") /\ Ended /\ program' = program /\ pc' = "passes"
      /\ UNCHANGED <<program, compiled, link, cha, layout>> /\ removed' = removed
      /\ UNCHANGED <<program, compiled, link, removed, moved, replaced>>
      /\ tables' = tables
      /\ code' = Becoming(code, "subst", "new", {"index", "check"})
  BY DEF SDSubstModule, Runs
<1>2. /\ o \in SUBSET Options /\ "SDSubstModule" \in Scheduled(o)
      /\ L = {x \in Scheduled(o) : Rank("SDSubstModule") <= Rank(x)}
      /\ ResultsAt(L) /\ CodeAt(L) /\ VTablesAt(L)
  BY <1>1, AtHead
<1>3. lays(o)
  BY <1>2 DEF Scheduled, lays
<1>4. /\ "SDUpdateIndices" \notin L /\ "SDLayoutBuilder" \notin L /\ "SDSubstModule" \in L
  BY <1>2, <1>3 DEF Scheduled, Rank
<1>5. PICK left : left = L \ {"SDSubstModule"}
  OBVIOUS
<1> HIDE DEF L
<1>6. /\ "SDLayoutBuilder" \notin left /\ "SDUpdateIndices" \notin left
      /\ "SDSubstModule" \notin left
  BY <1>4, <1>5
<1>7. o' = o /\ lays(o)' = lays(o)
  BY <1>1 DEF lays
<1>8. ResultsAt(left)'
  BY <1>1, <1>2, <1>5, ResultsStable
<1>9. CodeAt(left)'
  <2>1. /\ code = [k \in Kinds |-> IF emits(k) THEN Lowered(k, L) ELSE "none"]
        /\ tables = "new"
    BY <1>2, <1>3, <1>4 DEF CodeAt
  <2>2. code' = [k \in Kinds |->
                   IF k \in {"index", "check"} /\ code[k] = "subst" THEN "new" ELSE code[k]]
    BY <1>1 DEF Becoming
  <2>3. \A k \in Kinds : code'[k] = IF emits(k) THEN Lowered(k, left) ELSE "none"
    <3>1. \A k \in Kinds : Lowered(k, L) = CASE k = "thisOffset" -> "new"
                                             [] k = "clonedResultOffset" -> "other"
                                             [] k = "resultOffset" -> "old"
                                             [] OTHER -> "subst"
      BY <1>3, <1>4 DEF Lowered
    <3>2. \A k \in Kinds : Lowered(k, left) = CASE k = "thisOffset" -> "new"
                                                [] k = "clonedResultOffset" -> "other"
                                                [] k = "resultOffset" -> "old"
                                                [] OTHER -> "new"
      BY <1>3, <1>6 DEF Lowered
    <3>3. QED
      BY <2>1, <2>2, <3>1, <3>2 DEF Kinds, Offsets
  <2>4. code' = [k \in Kinds |-> IF emits(k) THEN Lowered(k, left) ELSE "none"]
    BY <2>2, <2>3
  <2>5. \A k : emits(k)' = emits(k) /\ Lowered(k, left)' = Lowered(k, left)
    BY <1>1, EmitsStable
  <2>6. QED
    BY <1>1, <1>3, <1>6, <1>7, <2>1, <2>4, <2>5 DEF CodeAt
<1>10. VTablesAt(left)'
  BY <1>1, <1>2, <1>5, VTablesStable
<1>11. QED
  BY <1>1, <1>5, <1>8, <1>9, <1>10, Advance DEF L

LEMMA SDCleanupStageInv ==
  ASSUME CompileInv, StageInv, SDCleanup
  PROVE  StageInv'
<1> DEFINE o == program.options
           L == Names(todo)
<1>1. /\ Runs("SDCleanup") /\ Ended /\ program' = program /\ pc' = "passes"
      /\ UNCHANGED <<program, compiled, link, cha, layout>> /\ removed' = removed
      /\ UNCHANGED <<program, compiled, link, removed, moved, replaced>>
      /\ tables' = tables
      /\ code' = Becoming(code, "get", "old", Kinds)
  BY DEF SDCleanup, Runs
<1>2. /\ L = {x \in Scheduled(o) : Rank("SDCleanup") <= Rank(x)}
      /\ ResultsAt(L) /\ CodeAt(L) /\ VTablesAt(L)
      /\ "SDCleanup" \in Scheduled(o)
  BY <1>1, AtHead
<1>3. /\ "SDUpdateIndices" \notin L /\ "SDLayoutBuilder" \notin L /\ "SDSubstModule" \notin L
      /\ "SDCleanup" \in L
  BY <1>2 DEF Rank
<1>4. PICK left : left = L \ {"SDCleanup"}
  OBVIOUS
<1> HIDE DEF L
<1>5. /\ "SDLayoutBuilder" \notin left /\ "SDUpdateIndices" \notin left
      /\ "SDSubstModule" \notin left /\ "SDCleanup" \notin left
  BY <1>3, <1>4
<1>6. o' = o /\ lays(o)' = lays(o)
  BY <1>1 DEF lays
<1>7. ResultsAt(left)'
  BY <1>1, <1>2, <1>4, ResultsStable
<1>8. CodeAt(left)'
  <2>1. /\ code = [k \in Kinds |-> IF emits(k) THEN Lowered(k, L) ELSE "none"]
        /\ tables = IF ~ lays(o) THEN "old" ELSE "new"
    BY <1>2, <1>3 DEF CodeAt
  <2>2. code' = [k \in Kinds |-> IF code[k] = "get" THEN "old" ELSE code[k]]
    BY <1>1 DEF Becoming
  <2>3. \A k \in Kinds : code'[k] = IF emits(k) THEN Lowered(k, left) ELSE "none"
    <3>1. ASSUME lays(o), NEW k \in Kinds
          PROVE  Lowered(k, L) = Lowered(k, left) /\ Lowered(k, L) # "get"
      BY <1>3, <1>5, <3>1 DEF Lowered
    <3>2. ASSUME ~ lays(o), NEW k \in Kinds
          PROVE  Lowered(k, L) = "get" /\ Lowered(k, left) = "old"
      BY <1>3, <1>5, <3>2 DEF Lowered
    <3>3. QED
      BY <2>1, <2>2, <3>1, <3>2
  <2>4. code' = [k \in Kinds |-> IF emits(k) THEN Lowered(k, left) ELSE "none"]
    BY <2>2, <2>3
  <2>5. \A k : emits(k)' = emits(k) /\ Lowered(k, left)' = Lowered(k, left)
    BY <1>1, EmitsStable
  <2>6. QED
    BY <1>1, <1>5, <1>6, <2>1, <2>4, <2>5 DEF CodeAt
<1>9. VTablesAt(left)'
  BY <1>1, <1>2, <1>4, VTablesStable
<1>10. QED
  BY <1>1, <1>4, <1>7, <1>8, <1>9, Advance DEF L

LEMMA NextStageInv == CompileInv /\ StageInv /\ [Next]_vars => StageInv'
<1> SUFFICES ASSUME CompileInv, StageInv, [Next]_vars
             PROVE  StageInv'
  OBVIOUS
<1>1. CASE \E c \in Class : ReferenceVTable(c) /\ UNCHANGED passes
  BY <1>1, BeforePassesStageInv DEF ReferenceVTable
<1>2. CASE \E c \in Class : DefineVTable(c) /\ UNCHANGED passes
  BY <1>2, BeforePassesStageInv DEF DefineVTable
<1>3. CASE EndUnit /\ UNCHANGED passes
  BY <1>3, BeforePassesStageInv DEF EndUnit
<1>4. CASE \E t \in Units : LinkUnit(t) /\ UNCHANGED passes
  BY <1>4, BeforePassesStageInv DEF LinkUnit
<1>5. CASE Done
  BY <1>5, StageInvStable DEF Done, passes
<1>6. CASE PassStep
  <2>1. CASE SDLayoutBuilder
    <3>1. /\ Runs("SDLayoutBuilder") /\ pc = "passes"
          /\ UNCHANGED <<program, compiled, link, removed, cha, moved, replaced>>
          /\ LaysOut \/ (Aborted /\ UNCHANGED <<layout, tables, code>>)
      BY <2>1 DEF SDLayoutBuilder, LaysOut, Runs
    <3>2. CASE LaysOut
      BY <3>1, <3>2, SDLayoutBuilderStageInv
    <3>3. CASE Aborted /\ UNCHANGED <<layout, tables, code>>
      BY <3>1, <3>3, StageInvStable DEF Aborted
    <3>4. QED
      BY <3>1, <3>2, <3>3
  <2>2. CASE SDUpdateIndices
    <3>1. /\ Runs("SDUpdateIndices") /\ pc = "passes"
          /\ UNCHANGED <<program, compiled, link, replaced>>
          /\ \/ Updates
             \/ Aborted /\ UNCHANGED <<removed, cha, layout, tables, moved, code>>
      BY <2>2 DEF SDUpdateIndices, Updates, Runs
    <3>2. CASE Updates
      BY <3>1, <3>2, SDUpdateIndicesStageInv
    <3>3. CASE Aborted /\ UNCHANGED <<removed, cha, layout, tables, moved, code>>
      BY <3>1, <3>3, StageInvStable DEF Aborted
    <3>4. QED
      BY <3>1, <3>2, <3>3
  <2>3. QED
    BY <1>5, <1>6, <2>1, <2>2, GlobalDCEStageInv, SDFixStageInv, SDBuildCHAStageInv,
       SDAnalysisStageInv, SDSubstModuleStageInv, SDCleanupStageInv DEF PassStep
<1>7. CASE UNCHANGED vars
  <2>1. pc' = pc /\ UNCHANGED <<program, compiled, link, removed, todo, cha, layout, tables,
                                moved, replaced, code>>
    BY <1>7 DEF vars, passes
  <2>2. pc' = "done" => todo = <<>>
    BY <2>1 DEF StageInv
  <2>3. QED
    BY <2>1, <2>2, StageInvStable
<1>8. QED
  BY <1>1, <1>2, <1>3, <1>4, <1>6, <1>7, StepCases

\* What holds throughout a build.
BuildInv == CompileInv /\ SymbolsInv /\ StageInv

THEOREM BuildInvariant == Spec => []BuildInv
<1>1. Init => BuildInv
  BY InitCompileInv, InitSymbolsInv, InitStageInv DEF BuildInv
<1>2. BuildInv /\ [Next]_vars => BuildInv'
  BY NextCompileInv, NextSymbolsInv, NextStageInv DEF BuildInv
<1>3. QED
  BY <1>1, <1>2, PTL DEF Spec

------------------------------------------------------------------------------
(* What follows for the results, the code and the types                      *)

\* A pass that reads the hierarchy finds it as the module has it, in tables that
\* are not laid out yet, and the indices follow the layout that was asked for.
THEOREM ResultsAreCurrent == Spec => []ResultsCurrent
<1>1. BuildInv => ResultsCurrent
  <2> SUFFICES ASSUME BuildInv
               PROVE  ResultsCurrent
    OBVIOUS
  <2> DEFINE o == program.options
             L == Names(todo)
  <2>1. ASSUME NEW h \in {"SDAnalysis", "SDLayoutBuilder", "SDUpdateIndices"}, Runs(h)
        PROVE  /\ cha = [status |-> "built", metadata |-> extractMetadata]
               /\ h \in {"SDAnalysis", "SDLayoutBuilder"} => tables = "old"
               /\ h = "SDUpdateIndices" =>
                    layout = [status |-> "built", interleave |-> "interleave" \in o,
                              laid |-> oldVTables]
    <3>1. /\ o \in SUBSET Options /\ h \in Scheduled(o)
          /\ L = {x \in Scheduled(o) : Rank(h) <= Rank(x)}
          /\ ResultsAt(L) /\ CodeAt(L)
      BY <2>1, AtHead DEF BuildInv
    <3>2. o # {}
      BY <3>1 DEF Scheduled, lays
    <3>3. "SDBuildCHA" \notin L
      BY <3>1 DEF Rank
    <3>4. lays(o) => "SDUpdateIndices" \in L
      BY <3>1 DEF Rank, Scheduled
    <3>5. h \in {"SDAnalysis", "SDLayoutBuilder"} => ~ lays(o) \/ "SDLayoutBuilder" \in L
      BY <3>1 DEF Rank, Scheduled
    <3>6. h = "SDUpdateIndices" => lays(o) /\ "SDLayoutBuilder" \notin L
      BY <3>1 DEF Rank, Scheduled
    <3> HIDE DEF L
    <3>7. cha = [status |-> "built", metadata |-> extractMetadata]
      BY <3>1, <3>2, <3>3, <3>4 DEF ResultsAt
    <3>8. oldVTables = Found
      BY <3>7 DEF oldVTables, Found
    <3>9. h = "SDUpdateIndices" =>
            layout = [status |-> "built", interleave |-> "interleave" \in o, laid |-> Found]
      BY <3>1, <3>4, <3>6 DEF ResultsAt
    <3>10. QED
      BY <3>1, <3>5, <3>7, <3>8, <3>9 DEF CodeAt
  <2>2. QED
    BY <2>1 DEF ResultsCurrent, isNext, Runs
<1>2. QED
  BY <1>1, BuildInvariant, PTL

\* New tables exactly if the options ask for a layout, with new indices, checks and
\* offsets of `this'; old ones with all that was emitted as it was.
THEOREM CodeFitsTables == Spec => []CodeMatchesTables
<1>1. BuildInv => CodeMatchesTables
  <2> SUFFICES ASSUME BuildInv, pc = "done"
               PROVE  /\ tables = IF lays(program.options) THEN "new" ELSE "old"
                      /\ \A k \in {"index", "check", "thisOffset"} :
                           code[k] = IF emits(k) THEN tables ELSE "none"
                      /\ tables = "old" =>
                           \A k \in Offsets : code[k] = IF emits(k) THEN "old" ELSE "none"
    BY DEF CodeMatchesTables
  <2>1. todo = <<>> /\ CodeAt(Names(todo))
    BY DEF BuildInv, StageInv
  <2>2. Names(todo) = {}
    BY <2>1 DEF Names
  <2>3. CodeAt({})
    BY <2>1, <2>2
  <2>4. CASE lays(program.options)
    <3>1. \A k \in {"index", "check", "thisOffset"} : Lowered(k, {}) = "new" /\ k \in Kinds
      BY <2>4 DEF Lowered, Kinds, Offsets
    <3>2. QED
      BY <2>3, <2>4, <3>1 DEF CodeAt
  <2>5. CASE ~ lays(program.options)
    <3>1. \A k \in Kinds : Lowered(k, {}) = "old"
      BY <2>5 DEF Lowered
    <3>2. {"index", "check", "thisOffset"} \cup Offsets \subseteq Kinds
      BY DEF Kinds, Offsets
    <3>3. QED
      BY <2>3, <2>5, <3>1, <3>2 DEF CodeAt
  <2>6. QED
    BY <2>4, <2>5
<1>2. QED
  BY <1>1, BuildInvariant, PTL

\* A repaired vtable calls no complete destructor without a body.
THEOREM DestructorsRepaired == Spec => []DestructorsCallable
<1>1. BuildInv => DestructorsCallable
  <2> SUFFICES ASSUME BuildInv, pc = "done", program.options # {}
               PROVE  \A d \in Missing : d \in replaced /\ Form(Base(d)) = "defined"
    BY DEF DestructorsCallable
  <2>1. todo = <<>> /\ VTablesAt(Names(todo))
    BY DEF BuildInv, StageInv
  <2>2. Names(todo) = {}
    BY <2>1 DEF Names
  <2>3. VTablesAt({})
    BY <2>1, <2>2
  <2>4. QED
    BY <2>3 DEF VTablesAt, Replaceable
<1>2. QED
  BY <1>1, BuildInvariant, PTL

\* The state has the types of the code.
THEOREM TypeCorrect == Spec => []TypeOK
<1>1. BuildInv => TypeOK
  <2> SUFFICES ASSUME BuildInv
               PROVE  TypeOK
    OBVIOUS
  <2> DEFINE L == Names(todo)
  <2>1. CompileInv /\ SymbolsInv /\ StageInv /\ Remaining(todo, program.options)
        /\ ResultsAt(L) /\ CodeAt(L) /\ VTablesAt(L) /\ program \in Programs
    BY DEF BuildInv, StageInv, CompileInv
  <2> HIDE DEF L
  <2>2. ASSUME NEW t \in Units
        PROVE  /\ emitted[t] \subseteq declared[t]
               /\ declared[t] \subseteq DOMAIN MD(t)
               /\ DOMAIN info[t] \subseteq DOMAIN MD(t)
               /\ \A c \in DOMAIN info[t] :
                    info[t][c] \subseteq NamesIn(t, c) \cap declared[t]
    BY <2>1 DEF CompileInv, NodesOK
  <2>3. ASSUME NEW t \in Units
        PROVE  /\ DOMAIN symbol[t] = IF t \in ToSet(linked) THEN declared[t] ELSE {}
               /\ Range(symbol[t]) \subseteq Class
    <3>1. DOMAIN symbol[t] = IF t \in ToSet(linked) THEN declared[t] ELSE {}
      BY <2>1 DEF SymbolsInv
    <3>2. ASSUME NEW c \in DOMAIN symbol[t]
          PROVE  symbol[t][c] \in Class
      <4>1. c \in DOMAIN MD(t) /\ c \in Class
        BY <2>1, <2>2, <3>1, SourceFacts
      <4>2. Renamed(c, t) \in Class
        BY <2>1, <4>1, RenamedFacts
      <4>3. QED
        BY <2>1, <4>1, <4>2 DEF SymbolsInv
    <3>3. QED
      BY <3>1, <3>2 DEF Range
  <2>4. \A i \in DOMAIN todo : todo[i].name \in PassNames
    <3>1. todo \in Seq(Passes)
      BY <2>1 DEF Remaining
    <3>2. \A p \in Passes : p.name \in PassNames
      BY DEF Passes
    <3>3. QED
      BY <3>1, <3>2
  <2>5. /\ cha.status \in {"none", "built", "cleared"}
        /\ layout.status \in {"none", "built", "cleared"}
    BY <2>1 DEF ResultsAt
  <2>6. tables \in {"old", "both", "new"}
    BY <2>1 DEF CodeAt
  <2>7. code \in [Kinds -> {"none", "get", "subst", "new", "other", "old"}]
    <3>1. \A k \in Kinds : Lowered(k, L) \in {"get", "subst", "new", "other", "old"}
      BY DEF Lowered
    <3>2. QED
      BY <2>1, <3>1 DEF CodeAt
  <2>8. replaced \subseteq DOMAIN program.destructors
    <3>1. IsBuild(program)
      BY <2>1, SourceFacts
    <3>2. Missing \subseteq DOMAIN program.destructors
      BY <3>1 DEF Missing, Destructors, Slots, IsBuild
    <3>3. QED
      BY <2>1, <3>2 DEF VTablesAt
  <2>9. removed \subseteq Definitions /\ moved \subseteq removed
    BY <2>1 DEF VTablesAt
  <2>10. IsInjective(linked) /\ pc \in {"compile", "link", "passes", "done", "aborted"}
         /\ unit \in Units
    BY <2>1 DEF SymbolsInv, CompileInv
  <2>11. QED
    BY <2>2, <2>3, <2>4, <2>5, <2>6, <2>7, <2>8, <2>9, <2>10 DEF TypeOK
<1>2. QED
  BY <1>1, BuildInvariant, PTL


------------------------------------------------------------------------------
(* The linked metadata is metadata                                           *)

\* Along two numbers that decrease, a depth within the size of a set.
LEMMA DepthExists ==
  ASSUME NEW D, IsFiniteSet(D), NEW a \in [D -> Nat], NEW b \in [D -> Nat]
  PROVE  \E depth \in [D -> 1 .. Cardinality(D)] :
           \A m, n \in D : a[m] < a[n] \/ (a[m] = a[n] /\ b[m] < b[n]) => depth[m] < depth[n]
<1> DEFINE Less(m, n) == a[m] < a[n] \/ (a[m] = a[n] /\ b[m] < b[n])
           Below(n) == {m \in D : Less(m, n)}
           depth == [n \in D |-> Cardinality(Below(n)) + 1]
<1>1. ASSUME NEW n \in D
      PROVE  /\ IsFiniteSet(Below(n)) /\ Cardinality(Below(n)) \in Nat
             /\ Cardinality(Below(n)) < Cardinality(D)
             /\ Cardinality(D) \in Nat
  <2>1. Below(n) \subseteq D /\ n \notin Below(n)
    OBVIOUS
  <2> HIDE DEF Below
  <2>2. IsFiniteSet(Below(n)) /\ Cardinality(Below(n)) <= Cardinality(D)
    BY <2>1, FS_Subset
  <2>3. Cardinality(D) # Cardinality(Below(n))
    BY <2>1, FS_Subset
  <2>4. Cardinality(Below(n)) \in Nat /\ Cardinality(D) \in Nat
    BY <2>2, FS_CardinalityType
  <2>5. QED
    BY <2>2, <2>3, <2>4
<1>2. ASSUME NEW m \in D, NEW n \in D, Less(m, n)
      PROVE  Cardinality(Below(m)) < Cardinality(Below(n))
  <2>1. \A k \in D : Less(k, m) => Less(k, n)
    BY <1>2
  <2>2. m \in Below(n) /\ m \notin Below(m)
    BY <1>2
  <2>3. Below(m) \subseteq Below(n)
    BY <2>1
  <2> HIDE DEF Below, Less
  <2>4. IsFiniteSet(Below(n)) /\ IsFiniteSet(Below(m))
    BY <1>1
  <2>5. Cardinality(Below(m)) <= Cardinality(Below(n))
        /\ (Cardinality(Below(n)) = Cardinality(Below(m)) => Below(n) = Below(m))
    BY <2>3, <2>4, FS_Subset
  <2>6. QED
    BY <1>1, <2>2, <2>5
<1>3. depth \in [D -> 1 .. Cardinality(D)]
  <2> HIDE DEF Below
  <2>1. \A n \in D : Cardinality(Below(n)) + 1 \in 1 .. Cardinality(D)
    BY <1>1
  <2>2. QED
    BY <2>1
<1>4. ASSUME NEW m \in D, NEW n \in D, Less(m, n)
      PROVE  depth[m] < depth[n]
  <2>1. Cardinality(Below(m)) < Cardinality(Below(n))
    BY <1>2, <1>4
  <2> HIDE DEF Below, Less
  <2>2. QED
    BY <1>1, <2>1
<1> HIDE DEF depth, Below
<1>5. QED
  BY <1>3, <1>4

\* A name in an entry is the class's own or a symbol of its own.
LEMMA NameCases ==
  ASSUME BuildInv, NEW t \in Units, t \in ToSet(linked), NEW c \in DOMAIN info[t],
         NEW x \in NamesIn(t, c)
  PROVE  /\ x \in DOMAIN MD(t)
         /\ \/ NameOf(t, c, x) = x
            \/ NameOf(t, c, x) = Renamed(x, t)
         /\ NameOf(t, c, x) \in Class
<1>1. CompileInv /\ SymbolsInv /\ program \in Programs
  BY DEF BuildInv, CompileInv
<1>2. c \in DOMAIN MD(t) /\ info[t][c] \subseteq declared[t]
  BY <1>1 DEF CompileInv, NodesOK
<1>3. x \in DOMAIN MD(t) /\ x \in Class
  BY <1>1, <1>2, SourceFacts DEF NamesIn
<1>4. Renamed(x, t) \in Class
  BY <1>1, <1>3, RenamedFacts
<1>5. x \in info[t][c] => symbol[t][x] \in {x, Renamed(x, t)}
  BY <1>1, <1>2 DEF SymbolsInv
<1>6. QED
  BY <1>3, <1>4, <1>5 DEF NameOf

\* Whose name it is can be told from the name.
LEMMA NameOfOne ==
  ASSUME program \in Programs, NEW t \in Units, NEW u \in Units,
         NEW x \in DOMAIN MD(t), NEW y \in DOMAIN MD(u), NEW n,
         n \in {x, Renamed(x, t)}, n \in {y, Renamed(y, u)}
  PROVE  /\ x = y
         /\ n # x => t = u /\ n = Renamed(x, t)
<1>1. /\ Renamed(x, t) # y /\ Renamed(x, t) # x
      /\ Renamed(x, t) = Renamed(y, u) => x = y /\ t = u
  BY RenamedFacts
<1>2. Renamed(y, u) # x
  BY RenamedFacts
<1>3. QED
  BY <1>1, <1>2

\* The class and the unit that an entry is made of.
ClassOf(n) == CHOOSE c \in Nodes : n \in CopyNames(c)
UnitOf(n)  == FirstCopy(ClassOf(n), n)
PlaceOf(n) == CHOOSE i \in DOMAIN linked : linked[i] = UnitOf(n)

LEMMA EntryFacts ==
  ASSUME BuildInv, ToSet(linked) = Units, NEW n \in DOMAIN extractMetadata
  PROVE  LET c == ClassOf(n)
             t == UnitOf(n) IN
         /\ t \in Units /\ c \in DOMAIN info[t] /\ NameOf(t, c, c) = n
         /\ c \in DOMAIN MD(t) /\ isVtableName(c) /\ n \in Class
         /\ n \in {c, Renamed(c, t)}
         /\ extractMetadata[n] = [subVTables |-> SubVTables(t, c), defined |-> n \in Alive]
         /\ PlaceOf(n) \in DOMAIN linked /\ PlaceOf(n) \in Nat /\ linked[PlaceOf(n)] = t
         /\ \A i \in DOMAIN linked :
              c \in DOMAIN info[linked[i]] /\ NameOf(linked[i], c, c) = n => PlaceOf(n) <= i
<1> DEFINE c == ClassOf(n)
           t == UnitOf(n)
           named == {i \in DOMAIN linked :
                       c \in DOMAIN info[linked[i]] /\ NameOf(linked[i], c, c) = n}
<1>1. CompileInv /\ SymbolsInv /\ program \in Programs
  BY DEF BuildInv, CompileInv
<1>2. linked \in Seq(Units) /\ IsInjective(linked) /\ DOMAIN linked \subseteq Nat
  BY <1>1 DEF SymbolsInv
<1>3. c \in Nodes /\ n \in CopyNames(c)
  <2>1. \E d \in Nodes : n \in CopyNames(d)
    BY DEF extractMetadata
  <2>2. QED
    BY <2>1 DEF ClassOf
<1> HIDE DEF c
<1>4. named # {} /\ named \subseteq Nat
  <2>1. PICK u \in Copies(c) : n = NameOf(u, c, c)
    BY <1>3 DEF CopyNames
  <2>2. u \in ToSet(linked) /\ c \in DOMAIN info[u]
    BY <2>1 DEF Copies
  <2>3. PICK i \in DOMAIN linked : linked[i] = u
    BY <2>2 DEF ToSet
  <2>4. i \in named
    BY <2>1, <2>2, <2>3
  <2>5. QED
    BY <1>2, <2>4
<1>5. Min(named) \in named /\ \A i \in named : Min(named) <= i
  <2> HIDE DEF named
  <2>1. \E x \in named : \A y \in named : x <= y
    BY <1>4, LeastNat
  <2>2. QED
    BY <2>1 DEF Min
<1>6. t = linked[Min(named)]
  BY DEF UnitOf, FirstCopy, c
<1>7. Min(named) \in DOMAIN linked /\ c \in DOMAIN info[t] /\ NameOf(t, c, c) = n
  BY <1>5, <1>6
<1>8. t \in Units /\ t \in ToSet(linked)
  BY <1>2, <1>6, <1>7 DEF ToSet
<1>9. PlaceOf(n) = Min(named)
  <2> DEFINE m == Min(named)
  <2>1. m \in DOMAIN linked /\ linked[m] = t
    BY <1>6, <1>7
  <2> HIDE DEF m, t
  <2>2. \A i \in DOMAIN linked : linked[i] = t => i = m
    BY <1>2, <2>1 DEF IsInjective
  <2>3. PlaceOf(n) \in DOMAIN linked /\ linked[PlaceOf(n)] = t
    BY <2>1 DEF PlaceOf, t
  <2>4. QED
    BY <2>2, <2>3 DEF m
<1>10. extractMetadata[n] = [subVTables |-> SubVTables(t, c), defined |-> n \in Alive]
  BY DEF extractMetadata, UnitOf, ClassOf, c
<1>11. c \in DOMAIN MD(t) /\ isVtableName(c)
  BY <1>1, <1>7, <1>8 DEF CompileInv, NodesOK
<1>12. c \in NamesIn(t, c)
  BY DEF NamesIn
<1>13. n \in {c, Renamed(c, t)} /\ n \in Class
  <2> HIDE DEF t
  <2>1. QED
    BY <1>7, <1>8, <1>12, NameCases
<1>14. \A i \in DOMAIN linked :
          c \in DOMAIN info[linked[i]] /\ NameOf(linked[i], c, c) = n => PlaceOf(n) <= i
  BY <1>5, <1>9
<1> HIDE DEF t, named
<1>15. QED
  BY <1>2, <1>5, <1>6, <1>7, <1>8, <1>9, <1>10, <1>11, <1>13, <1>14 DEF c, t


\* An entry has the vtables of its class, with parents by their names.
LEMMA SubVTablesFacts ==
  ASSUME BuildInv, NEW t \in Units, t \in ToSet(linked), NEW c \in DOMAIN info[t]
  PROVE  LET S == SubVTables(t, c)
             s == MD(t)[c].subVTables IN
         /\ S \in Seq(SubVTable) /\ Len(S) = Len(s) /\ Len(s) \in Nat \ {0}
         /\ s \in Seq(SubVTable) /\ DOMAIN S = 1 .. Len(s)
         /\ \A i \in 1 .. Len(s) :
              /\ S[i].root = s[i].root
              /\ S[i].parents = {<<NameOf(t, c, p[1]), p[2]>> : p \in s[i].parents}
              /\ \A p \in s[i].parents : /\ p = <<p[1], p[2]>> /\ p[2] \in Nat
                                         /\ p[1] \in ParentNames(t, c)
              /\ s[i].root <=> s[i].parents = {}
<1> DEFINE S == SubVTables(t, c)
           s == MD(t)[c].subVTables
<1>1. CompileInv /\ program \in Programs
  BY DEF BuildInv, CompileInv
<1>2. c \in DOMAIN MD(t) /\ IsMetadata(MD(t))
  BY <1>1, SourceFacts DEF CompileInv, NodesOK
<1>3. s \in Seq(SubVTable) /\ Len(s) > 0
  BY <1>2 DEF IsMetadata, ClassInfo
<1>4. Len(s) \in Nat \ {0} /\ DOMAIN s = 1 .. Len(s)
  BY <1>3
<1>5. ASSUME NEW i \in 1 .. Len(s)
      PROVE  /\ \A p \in s[i].parents : /\ p \in VTable /\ p = <<p[1], p[2]>> /\ p[2] \in Nat
                                        /\ p[1] \in ParentNames(t, c)
             /\ s[i].root <=> s[i].parents = {}
  <2> DEFINE v == <<c, i - 1>>
  <2>1. i - 1 \in 0 .. Len(s) - 1 /\ i - 1 + 1 = i
    BY <1>4
  <2>2. v \in OwnVTables(MD(t), c) /\ v \in Described(MD(t))
    BY <1>2, <2>1 DEF OwnVTables, Described
  <2>3. Parents(MD(t), v) = s[i].parents /\ IsRoot(MD(t), v) = s[i].root
    BY <2>1 DEF Parents, IsRoot, SubInfo
  <2>4. Parents(MD(t), v) \in SUBSET VTable
    BY <1>2, <2>2, OwnVTableType
  <2>5. IsRoot(MD(t), v) <=> Parents(MD(t), v) = {}
    BY <1>2, <2>2 DEF IsMetadata
  <2>6. \A p \in Parents(MD(t), v) : p[1] \in ParentNames(t, c)
    BY <2>2 DEF ParentNames
  <2> HIDE DEF v
  <2>7. QED
    BY <2>3, <2>4, <2>5, <2>6 DEF VTable
<1>6. \A i \in 1 .. Len(s) : s[i] \in SubVTable /\ s[i] = [parents |-> s[i].parents, root |-> s[i].root]
  <2>1. \A i \in 1 .. Len(s) : s[i] \in SubVTable
    BY <1>3
  <2>2. \A x \in SubVTable : x = [parents |-> x.parents, root |-> x.root]
    BY DEF SubVTable
  <2> HIDE DEF s
  <2>3. QED
    BY <2>1, <2>2
<1>7. DOMAIN S = 1 .. Len(s)
  BY <1>4 DEF SubVTables
<1>8. ASSUME NEW i \in 1 .. Len(s)
      PROVE  /\ S[i] = [parents |-> {<<NameOf(t, c, p[1]), p[2]>> : p \in s[i].parents},
                        root |-> s[i].root]
  <2>1. S[i] = [s[i] EXCEPT !.parents = {<<NameOf(t, c, p[1]), p[2]>> : p \in @}]
    BY <1>4 DEF SubVTables
  <2>2. QED
    BY <1>6, <2>1
<1>9. ASSUME NEW i \in 1 .. Len(s)
      PROVE  S[i] \in SubVTable
  <2>1. \A p \in s[i].parents : <<NameOf(t, c, p[1]), p[2]>> \in VTable
    <3>1. SUFFICES ASSUME NEW p \in s[i].parents
                   PROVE  NameOf(t, c, p[1]) \in Class /\ p[2] \in Nat
      BY DEF VTable
    <3>2. p[1] \in NamesIn(t, c) /\ p[2] \in Nat
      BY <1>5 DEF NamesIn
    <3>3. QED
      BY <3>2, NameCases
  <2>2. s[i].root \in BOOLEAN
    BY <1>6 DEF SubVTable
  <2> DEFINE P == {<<NameOf(t, c, p[1]), p[2]>> : p \in s[i].parents}
  <2>3. S[i] = [parents |-> P, root |-> s[i].root]
    BY <1>8
  <2>4. P \in SUBSET VTable
    BY <2>1
  <2> HIDE DEF S, s, P
  <2>5. QED
    BY <2>2, <2>3, <2>4 DEF SubVTable
<1>10. S \in [1 .. Len(s) -> SubVTable]
  <2>1. S = [i \in 1 .. Len(s) |-> S[i]]
    BY <1>4 DEF SubVTables
  <2> HIDE DEF S, s
  <2>2. QED
    BY <1>7, <1>9, <2>1
<1> HIDE DEF S, s
<1>11. S \in Seq(SubVTable) /\ Len(S) = Len(s)
  BY <1>4, <1>10
<1>12. \A i \in 1 .. Len(s) :
         /\ S[i].root = s[i].root
         /\ S[i].parents = {<<NameOf(t, c, p[1]), p[2]>> : p \in s[i].parents}
  <2> SUFFICES ASSUME NEW i \in 1 .. Len(s)
               PROVE  /\ S[i].root = s[i].root
                      /\ S[i].parents = {<<NameOf(t, c, p[1]), p[2]>> : p \in s[i].parents}
    OBVIOUS
  <2>1. S[i] = [parents |-> {<<NameOf(t, c, p[1]), p[2]>> : p \in s[i].parents},
                root |-> s[i].root]
    BY <1>8
  <2>2. QED
    BY <2>1
<1>13. QED
  BY <1>3, <1>4, <1>5, <1>7, <1>11, <1>12 DEF S, s

\* A parent that an entry names and another describes is one of the unit's, and
\* the unit's own entry goes by that name as well.
LEMMA ParentHere ==
  ASSUME BuildInv, ToSet(linked) = Units, NEW t \in Units, NEW c \in DOMAIN info[t],
         NEW b \in ParentNames(t, c), NEW m \in DOMAIN extractMetadata,
         m = NameOf(t, c, b)
  PROVE  /\ ClassOf(m) = b /\ b \in DOMAIN info[t] /\ NameOf(t, b, b) = m
<1> DEFINE d == ClassOf(m)
           u == UnitOf(m)
<1>1. CompileInv /\ program \in Programs
  BY DEF BuildInv, CompileInv
<1>2. /\ u \in Units /\ d \in DOMAIN info[u] /\ NameOf(u, d, d) = m /\ d \in DOMAIN MD(u)
      /\ isVtableName(d) /\ m \in {d, Renamed(d, u)}
  BY EntryFacts
<1>3. b \in DOMAIN MD(t) /\ m \in {b, Renamed(b, t)}
  BY NameCases DEF NamesIn
<1> HIDE DEF d, u
<1>4. b = d /\ (m # b => t = u)
  BY <1>1, <1>2, <1>3, NameOfOne
<1>5. b \in DOMAIN info[t] /\ (b \notin info[t][c] => b \notin info[t][b])
  BY <1>1, <1>2, <1>4 DEF CompileInv, NodesOK
<1>6. CASE m # b
  BY <1>2, <1>4, <1>5, <1>6 DEF d
<1>7. CASE m = b
  BY <1>4, <1>5, <1>7 DEF NameOf, d
<1>8. QED
  BY <1>6, <1>7

\* Of every unit its depths.
LEMMA UnitDepths ==
  ASSUME program \in Programs
  PROVE  \E depths \in [Units -> [Class -> Nat]] :
           \A t \in Units : \A c \in DOMAIN MD(t) : \A b \in ParentNames(t, c) :
             depths[t][b] < depths[t][c]
<1> DEFINE Falls(t, depth) ==
             \A c \in DOMAIN MD(t) : \A b \in ParentNames(t, c) : depth[b] < depth[c]
<1>1. ASSUME NEW t \in Units
      PROVE  \E depth \in [Class -> Nat] : Falls(t, depth)
  <2>1. /\ IsMetadata(MD(t)) /\ NamedParents(MD(t)) \subseteq Described(MD(t))
        /\ DOMAIN MD(t) \subseteq Class
        /\ \A c \in DOMAIN MD(t) : ParentNames(t, c) \subseteq DOMAIN MD(t)
    BY SourceFacts
  <2>2. PICK f \in [DOMAIN MD(t) -> 1 .. Cardinality(DOMAIN MD(t))] :
          \A v \in Described(MD(t)) : \A p \in Parents(MD(t), v) \cap Described(MD(t)) :
            f[p[1]] < f[v[1]]
    BY <2>1 DEF IsMetadata
  <2>3. Cardinality(DOMAIN MD(t)) \in Nat
    BY <2>1, FS_CardinalityType DEF IsMetadata
  <2> DEFINE depth == [c \in Class |-> IF c \in DOMAIN MD(t) THEN f[c] ELSE 0]
  <2>4. depth \in [Class -> Nat]
    BY <2>2, <2>3
  <2>5. ASSUME NEW c \in DOMAIN MD(t), NEW b \in ParentNames(t, c)
        PROVE  depth[b] < depth[c]
    <3>1. PICK v \in OwnVTables(MD(t), c) : \E p \in Parents(MD(t), v) : b = p[1]
      BY DEF ParentNames
    <3>2. PICK p \in Parents(MD(t), v) : b = p[1]
      BY <3>1
    <3>3. v \in Described(MD(t)) /\ v[1] = c /\ p \in Described(MD(t))
      BY <2>1, <3>2, OwnVTableType DEF Described, NamedParents
    <3>4. f[b] < f[c]
      BY <2>2, <3>2, <3>3
    <3>5. b \in DOMAIN MD(t) /\ b \in Class /\ c \in Class
      BY <2>1
    <3>6. QED
      BY <3>4, <3>5
  <2>6. Falls(t, depth)
    BY <2>5
  <2> HIDE DEF depth, Falls
  <2>7. QED
    BY <2>4, <2>6
<1> DEFINE depths == [t \in Units |-> CHOOSE depth \in [Class -> Nat] : Falls(t, depth)]
<1> HIDE DEF Falls
<1>2. \A t \in Units : depths[t] \in [Class -> Nat] /\ Falls(t, depths[t])
  BY <1>1
<1>3. depths \in [Units -> [Class -> Nat]]
  BY <1>2
<1> HIDE DEF depths
<1>4. QED
  BY <1>2, <1>3 DEF Falls


\* Whatever was linked in whichever order and is left of it, the nodes describe
\* classes: entries of different units form no cycle.
LEMMA LinkedMetadata ==
  ASSUME BuildInv, ToSet(linked) = Units
  PROVE  IsMetadata(extractMetadata)
<1> DEFINE md == extractMetadata
<1>1. CompileInv /\ SymbolsInv /\ program \in Programs
  BY DEF BuildInv, CompileInv
<1>2. Units = 1 .. Len(program.units) /\ Len(program.units) \in Nat
      /\ linked \in Seq(Units) /\ Len(linked) \in Nat
  BY <1>1, SourceFacts DEF SymbolsInv
<1>3. ASSUME NEW n \in DOMAIN md
      PROVE  LET c == ClassOf(n)
                 t == UnitOf(n) IN
             /\ t \in Units /\ t \in ToSet(linked) /\ c \in DOMAIN info[t]
             /\ NameOf(t, c, c) = n /\ n \in Class
             /\ c \in DOMAIN MD(t) /\ n \in {c, Renamed(c, t)}
             /\ md[n].subVTables = SubVTables(t, c) /\ md[n].defined \in BOOLEAN
             /\ md[n] = [subVTables |-> md[n].subVTables, defined |-> md[n].defined]
  <2> DEFINE c == ClassOf(n)
             t == UnitOf(n)
  <2>1. /\ t \in Units /\ c \in DOMAIN info[t]
        /\ NameOf(t, c, c) = n /\ n \in Class
        /\ c \in DOMAIN MD(t) /\ n \in {c, Renamed(c, t)}
        /\ md[n] = [subVTables |-> SubVTables(t, c), defined |-> n \in Alive]
    BY EntryFacts
  <2> HIDE DEF c, t, md
  <2>2. /\ md[n].subVTables = SubVTables(t, c) /\ md[n].defined \in BOOLEAN
        /\ md[n] = [subVTables |-> md[n].subVTables, defined |-> md[n].defined]
    BY <2>1
  <2>3. QED
    BY <2>1, <2>2 DEF c, t
<1> DEFINE s(n) == MD(UnitOf(n))[ClassOf(n)].subVTables
<1>4. ASSUME NEW n \in DOMAIN md
      PROVE  /\ md[n].subVTables \in Seq(SubVTable)
             /\ Len(md[n].subVTables) = Len(s(n)) /\ Len(s(n)) \in Nat \ {0}
             /\ \A i \in 1 .. Len(s(n)) :
                  LET S == md[n].subVTables[i] IN
                  /\ S.root = s(n)[i].root
                  /\ S.parents = {<<NameOf(UnitOf(n), ClassOf(n), p[1]), p[2]>> :
                                    p \in s(n)[i].parents}
                  /\ \A p \in s(n)[i].parents : p[1] \in ParentNames(UnitOf(n), ClassOf(n))
                  /\ s(n)[i].root <=> s(n)[i].parents = {}
  BY <1>3, SubVTablesFacts
<1>5. md \in [DOMAIN md -> ClassInfo]
  <2>1. md = [n \in DOMAIN md |-> md[n]]
    BY DEF extractMetadata
  <2> HIDE DEF md
  <2>2. \A n \in DOMAIN md : md[n] \in ClassInfo
    BY <1>3, <1>4 DEF ClassInfo
  <2>3. QED
    BY <2>1, <2>2
<1> HIDE DEF md
<1>6. DOMAIN md \subseteq Class
  BY <1>3
<1>7. IsFiniteSet(DOMAIN md)
  <2> DEFINE cs == [t \in Units |-> DOMAIN MD(t)]
             C == UNION {cs[t] : t \in Units}
             P == DOMAIN linked
             f == [n \in DOMAIN md |-> <<PlaceOf(n), ClassOf(n)>>]
  <2>1. IsFiniteSet(Units) /\ IsFiniteSet(P)
    <3>1. \A k \in Nat : IsFiniteSet(1 .. k)
      BY FS_Interval
    <3>2. P = 1 .. Len(linked)
      BY <1>2
    <3>3. QED
      BY <1>2, <3>1, <3>2
  <2>2. IsFiniteSet(C)
    <3>1. DOMAIN cs = Units /\ \A t \in Units : IsFiniteSet(cs[t])
      BY <1>1, SourceFacts DEF IsMetadata
    <3> HIDE DEF cs
    <3>2. QED
      BY <2>1, <3>1, FiniteUnion
  <2>3. IsFiniteSet(P \X C)
    <3> HIDE DEF P, C
    <3>1. QED
      BY <2>1, <2>2, FS_Product
  <2>4. \A n \in DOMAIN md : PlaceOf(n) \in P /\ linked[PlaceOf(n)] = UnitOf(n)
    BY EntryFacts DEF md
  <2>5. f \in [DOMAIN md -> P \X C]
    BY <1>3, <2>4
  <2>6. ASSUME NEW m \in DOMAIN md, NEW n \in DOMAIN md, f[m] = f[n]
        PROVE  m = n
    <3>1. PlaceOf(m) = PlaceOf(n) /\ ClassOf(m) = ClassOf(n)
      BY <2>6
    <3>2. UnitOf(m) = UnitOf(n)
      BY <2>4, <3>1
    <3>3. QED
      BY <1>3, <3>1, <3>2
  <2> HIDE DEF f, P, C
  <2>7. f \in Injection(DOMAIN md, P \X C)
    BY <2>5, <2>6 DEF Injection, IsInjective
  <2>8. QED
    BY <2>3, <2>7, FS_Injection
<1>8. \A n \in DOMAIN md : Len(md[n].subVTables) > 0
  BY <1>4
\* A vtable is the copy of one of its unit's.
<1>9. ASSUME NEW v \in Described(md)
      PROVE  LET n == v[1]
                 i == v[2] + 1 IN
             /\ n \in DOMAIN md /\ i \in 1 .. Len(s(n))
             /\ IsRoot(md, v) = s(n)[i].root
             /\ Parents(md, v) = {<<NameOf(UnitOf(n), ClassOf(n), p[1]), p[2]>> :
                                    p \in s(n)[i].parents}
  <2>1. PICK n \in DOMAIN md : v \in OwnVTables(md, n)
    BY DEF Described
  <2>2. PICK k \in 0 .. Len(md[n].subVTables) - 1 : v = <<n, k>>
    BY <2>1 DEF OwnVTables
  <2>3. v[1] = n /\ v[2] = k /\ k + 1 \in 1 .. Len(s(n))
    BY <1>4, <2>2
  <2> HIDE DEF s
  <2>4. QED
    BY <1>4, <2>3 DEF IsRoot, Parents, SubInfo
<1>10. ASSUME NEW v \in Described(md), NEW q \in Parents(md, v)
       PROVE  \E b \in ParentNames(UnitOf(v[1]), ClassOf(v[1])) :
                q[1] = NameOf(UnitOf(v[1]), ClassOf(v[1]), b)
  <2> DEFINE n == v[1]
             i == v[2] + 1
  <2>1. PICK p \in s(n)[i].parents : q = <<NameOf(UnitOf(n), ClassOf(n), p[1]), p[2]>>
    BY <1>9
  <2>2. p[1] \in ParentNames(UnitOf(n), ClassOf(n))
    BY <1>4, <1>9
  <2>3. QED
    BY <2>1, <2>2
<1>11. ASSUME NEW v \in Described(md)
       PROVE  /\ IsRoot(md, v) <=> Parents(md, v) = {}
              /\ \A q \in Parents(md, v) : q[1] # v[1]
  <2> DEFINE n == v[1]
             i == v[2] + 1
             c == ClassOf(n)
             t == UnitOf(n)
  <2>1. IsRoot(md, v) <=> Parents(md, v) = {}
    <3>1. /\ IsRoot(md, v) = s(n)[i].root
          /\ Parents(md, v) = {<<NameOf(t, c, p[1]), p[2]>> : p \in s(n)[i].parents}
          /\ s(n)[i].root <=> s(n)[i].parents = {}
      BY <1>4, <1>9
    <3> HIDE DEF s, n, i, c, t
    <3>2. QED
      BY <3>1
  <2>2. ASSUME NEW q \in Parents(md, v)
        PROVE  q[1] # n
    <3>1. PICK b \in ParentNames(t, c) : q[1] = NameOf(t, c, b)
      BY <1>10
    <3>2. /\ t \in Units /\ t \in ToSet(linked) /\ c \in DOMAIN info[t]
          /\ c \in DOMAIN MD(t) /\ n \in {c, Renamed(c, t)}
      BY <1>3, <1>9
    <3>3. b # c
      BY <1>1, <3>2, SourceFacts
    <3>4. b \in DOMAIN MD(t) /\ q[1] \in {b, Renamed(b, t)}
      BY <3>1, <3>2, NameCases DEF NamesIn
    <3> HIDE DEF n, c, t
    <3>5. QED
      BY <1>1, <3>2, <3>3, <3>4, NameOfOne
  <2>3. QED
    BY <2>1, <2>2
<1>12. \E depth \in [DOMAIN md -> 1 .. Cardinality(DOMAIN md)] :
         \A v \in Described(md) : \A q \in Parents(md, v) \cap Described(md) :
           depth[q[1]] < depth[v[1]]
  <2>1. PICK depths \in [Units -> [Class -> Nat]] :
          \A t \in Units : \A c \in DOMAIN MD(t) : \A b \in ParentNames(t, c) :
            depths[t][b] < depths[t][c]
    BY <1>1, UnitDepths
  <2> DEFINE place == [n \in DOMAIN md |-> PlaceOf(n)]
             inner == [n \in DOMAIN md |-> depths[UnitOf(n)][ClassOf(n)]]
  <2>2. place \in [DOMAIN md -> Nat]
    BY EntryFacts DEF md
  <2>3. inner \in [DOMAIN md -> Nat]
    <3>1. ASSUME NEW n \in DOMAIN md
          PROVE  depths[UnitOf(n)][ClassOf(n)] \in Nat
      <4>1. UnitOf(n) \in Units /\ ClassOf(n) \in Class
        BY <1>1, <1>3, SourceFacts
      <4> DEFINE u == UnitOf(n)
                 c == ClassOf(n)
      <4> HIDE DEF u, c
      <4>2. u \in Units /\ c \in Class
        BY <4>1 DEF u, c
      <4>3. depths[u] \in [Class -> Nat]
        BY <2>1, <4>2
      <4>4. depths[u][c] \in Nat
        BY <4>2, <4>3
      <4>5. QED
        BY <4>4 DEF u, c
    <3>2. QED
      BY <3>1
  <2>4. PICK depth \in [DOMAIN md -> 1 .. Cardinality(DOMAIN md)] :
          \A m, n \in DOMAIN md :
            place[m] < place[n] \/ (place[m] = place[n] /\ inner[m] < inner[n])
              => depth[m] < depth[n]
    <3> HIDE DEF place, inner
    <3>1. QED
      BY <1>7, <2>2, <2>3, DepthExists
  <2>5. ASSUME NEW v \in Described(md), NEW q \in Parents(md, v) \cap Described(md)
        PROVE  depth[q[1]] < depth[v[1]]
    <3> DEFINE n == v[1]
               m == q[1]
               c == ClassOf(n)
               t == UnitOf(n)
    <3>1. m \in DOMAIN md /\ n \in DOMAIN md
      BY <1>9
    <3>2. PICK b \in ParentNames(t, c) : m = NameOf(t, c, b)
      BY <1>10
    <3>3. /\ t \in Units /\ c \in DOMAIN info[t] /\ c \in DOMAIN MD(t)
      BY <1>3, <3>1
    <3>4. ClassOf(m) = b /\ b \in DOMAIN info[t] /\ NameOf(t, b, b) = m
      <4> HIDE DEF n, m, c, t
      <4>1. QED
        BY <3>1, <3>2, <3>3, ParentHere DEF md
    <3>5. /\ PlaceOf(n) \in DOMAIN linked /\ linked[PlaceOf(n)] = t /\ PlaceOf(n) \in Nat
      BY <3>1, EntryFacts DEF md
    <3>6. /\ PlaceOf(m) \in Nat /\ linked[PlaceOf(m)] = UnitOf(m)
          /\ \A i \in DOMAIN linked :
               b \in DOMAIN info[linked[i]] /\ NameOf(linked[i], b, b) = m => PlaceOf(m) <= i
      BY <3>1, <3>4, EntryFacts DEF md
    <3>7. PlaceOf(m) <= PlaceOf(n)
      BY <3>4, <3>5, <3>6
    <3>8. CASE PlaceOf(m) = PlaceOf(n)
      <4>1. UnitOf(m) = t
        BY <3>5, <3>6, <3>8
      <4>2. depths[t][b] < depths[t][c]
        BY <2>1, <3>2, <3>3
      <4>3. inner[m] = depths[t][b] /\ inner[n] = depths[t][c]
        BY <3>1, <3>4, <4>1
      <4>4. place[m] = place[n]
        BY <3>1, <3>8
      <4> HIDE DEF inner, place, n, m
      <4>5. QED
        BY <2>4, <3>1, <4>2, <4>3, <4>4 DEF n, m
    <3>9. CASE PlaceOf(m) # PlaceOf(n)
      <4>1. PlaceOf(m) < PlaceOf(n)
        <5>1. PlaceOf(m) \in Nat /\ PlaceOf(n) \in Nat
          BY <3>5, <3>6
        <5> HIDE DEF m, n
        <5>2. QED
          BY <3>7, <3>9, <5>1
      <4>2. place[m] < place[n]
        BY <3>1, <4>1
      <4> HIDE DEF inner, place
      <4>3. QED
        BY <2>4, <3>1, <4>2
    <3>10. QED
      BY <3>8, <3>9
  <2>6. QED
    BY <2>5
<1>13. QED
  BY <1>5, <1>6, <1>7, <1>8, <1>11, <1>12 DEF IsMetadata, md

\* What the analysis is given is metadata, as its own theorems assume.
THEOREM AnalysisReadsMetadata == Spec => []LinkedIsMetadata
<1>1. BuildInv => LinkedIsMetadata
  <2> SUFFICES ASSUME BuildInv, pc = "passes"
               PROVE  IsMetadata(extractMetadata)
    BY DEF LinkedIsMetadata, isNext
  <2>1. ToSet(linked) = Units
    BY DEF BuildInv, SymbolsInv
  <2>2. QED
    BY <2>1, LinkedMetadata
<1>2. QED
  BY <1>1, BuildInvariant, PTL


------------------------------------------------------------------------------
(* The linked metadata is that of the units                                  *)

\* Entries that know the symbols they need name their classes by them.
LEMMA NamesBySymbol ==
  ASSUME BuildInv, ToSet(linked) = Units, NamesKnown, NEW t \in Units,
         NEW c \in DOMAIN info[t], NEW x \in NamesIn(t, c)
  PROVE  NameOf(t, c, x) = SymbolOf(t, x)
<1>1. CompileInv /\ SymbolsInv
  BY DEF BuildInv
<1>2. info[t][c] \subseteq declared[t] /\ DOMAIN symbol[t] = declared[t]
  BY <1>1 DEF CompileInv, NodesOK, SymbolsInv
<1>3. CASE Shared(x)
  BY <1>2, <1>3 DEF NamesKnown, NameOf, SymbolOf, Alive
<1>4. CASE ~ Shared(x)
  <2>1. x \in declared[t] => symbol[t][x] = x
    BY <1>1, <1>2, <1>4 DEF SymbolsInv
  <2>2. QED
    BY <1>2, <2>1 DEF NameOf, SymbolOf
<1>5. QED
  BY <1>3, <1>4

\* An external name is its symbol.
LEMMA ExternalSymbol ==
  ASSUME BuildInv, ToSet(linked) = Units, NEW t \in Units, NEW x, ~ isInternal(t, x)
  PROVE  SymbolOf(t, x) = x
BY DEF BuildInv, SymbolsInv, SymbolOf

\* Two units that know a class by one symbol mean the same class.
LEMMA SameSymbolSameClass ==
  ASSUME BuildInv, ToSet(linked) = Units, NamesKnown, NEW t \in Units, NEW u \in Units,
         t # u, NEW c, c \in DOMAIN info[t], c \in DOMAIN info[u],
         SymbolOf(t, c) = SymbolOf(u, c)
  PROVE  /\ MD(t)[c].subVTables = MD(u)[c].subVTables
         /\ \A b \in ParentNames(t, c) : SymbolOf(t, b) = SymbolOf(u, b)
<1>1. CompileInv /\ SymbolsInv /\ program \in Programs
  BY DEF BuildInv, CompileInv
<1>2. /\ c \in DOMAIN MD(t) /\ c \in DOMAIN MD(u)
      /\ info[t][c] \subseteq declared[t] /\ info[u][c] \subseteq declared[u]
      /\ DOMAIN symbol[t] = declared[t] /\ DOMAIN symbol[u] = declared[u]
  BY <1>1 DEF CompileInv, NodesOK, SymbolsInv
<1>3. ~ isInternal(t, c)
  <2> SUFFICES ASSUME isInternal(t, c)
               PROVE  FALSE
    OBVIOUS
  <2>1. Shared(c)
    BY <1>2, <1>1, SharedByTwo
  <2>2. c \in NamesIn(t, c) /\ c \in NamesIn(u, c)
    BY DEF NamesIn
  <2>3. c \in info[t][c] /\ c \in info[u][c]
    BY <2>1, <2>2 DEF NamesKnown
  <2>4. symbol[t][c] = symbol[u][c] /\ c \in DOMAIN symbol[t] /\ c \in DOMAIN symbol[u]
    BY <1>2, <2>3 DEF SymbolOf
  <2>5. symbol[t][c] \in {c, Renamed(c, t)} /\ symbol[u][c] \in {c, Renamed(c, u)}
    BY <1>1, <2>4 DEF SymbolsInv
  <2>6. symbol[t][c] = c /\ symbol[u][c] = c
    BY <1>1, <1>2, <2>4, <2>5, NameOfOne
  <2>7. QED
    BY <1>1, <2>4, <2>6 DEF SymbolsInv
<1>4. IsSource(program)
  BY <1>1, SourcesAssumption
<1>5. /\ MD(t)[c].subVTables = MD(u)[c].subVTables
      /\ \A v \in OwnVTables(MD(t), c) : \A b \in Parents(MD(t), v) : ~ isInternal(t, b[1])
      /\ \A v \in OwnVTables(MD(u), c) : \A b \in Parents(MD(u), v) : ~ isInternal(u, b[1])
  <2>1. ~ isInternal(u, c)
    BY <1>2, <1>3, <1>4 DEF IsSource, isInternal, Units, MD
  <2>2. QED
    BY <1>2, <1>3, <1>4, <2>1 DEF IsSource, isInternal, Units, MD
<1>6. ParentNames(t, c) = ParentNames(u, c)
  <2>1. OwnVTables(MD(t), c) = OwnVTables(MD(u), c)
    BY <1>5 DEF OwnVTables
  <2>2. \A v \in OwnVTables(MD(t), c) : Parents(MD(t), v) = Parents(MD(u), v)
    BY <1>5 DEF OwnVTables, Parents, SubInfo
  <2>3. QED
    BY <2>1, <2>2 DEF ParentNames
<1>7. ASSUME NEW b \in ParentNames(t, c)
      PROVE  SymbolOf(t, b) = SymbolOf(u, b)
  <2>1. ~ isInternal(t, b)
    BY <1>5 DEF ParentNames
  <2>2. ~ isInternal(u, b)
    BY <1>5, <1>6 DEF ParentNames
  <2>3. QED
    BY <2>1, <2>2, ExternalSymbol
<1>8. QED
  BY <1>5, <1>7

\* The parents of a sub-vtable in the symbols of its unit.
InSymbols(t, P) == {<<SymbolOf(t, p[1]), p[2]>> : p \in P}

LEMMA LinkedAs ==
  ASSUME BuildInv, ToSet(linked) = Units, NamesKnown, NEW t \in Units,
         NEW c \in DOMAIN info[t]
  PROVE  LET s == SymbolOf(t, c)
             own == MD(t)[c].subVTables IN
         /\ s \in DOMAIN extractMetadata
         /\ extractMetadata[s].subVTables \in Seq(SubVTable) /\ own \in Seq(SubVTable)
         /\ Len(extractMetadata[s].subVTables) = Len(own)
         /\ extractMetadata[s].defined = (s \in Alive)
         /\ \A i \in 1 .. Len(own) :
              /\ extractMetadata[s].subVTables[i].root = own[i].root
              /\ extractMetadata[s].subVTables[i].parents = InSymbols(t, own[i].parents)
<1> DEFINE s == SymbolOf(t, c)
           own == MD(t)[c].subVTables
           md == extractMetadata
           u == UnitOf(s)
<1>1. CompileInv /\ SymbolsInv /\ program \in Programs
  BY DEF BuildInv, CompileInv
<1>2. s = NameOf(t, c, c)
  BY NamesBySymbol DEF NamesIn
<1>3. s \in DOMAIN md
  <2>1. t \in Copies(c) /\ c \in Nodes
    BY DEF Copies, Nodes
  <2>2. s \in CopyNames(c)
    BY <1>2, <2>1 DEF CopyNames
  <2>3. DOMAIN md = UNION {CopyNames(d) : d \in Nodes}
    BY DEF extractMetadata
  <2> HIDE DEF s, md
  <2>4. QED
    BY <2>1, <2>2, <2>3
<1>4. c \in DOMAIN MD(t)
  BY <1>1 DEF CompileInv, NodesOK
<1>5. s \in {c, Renamed(c, t)}
  BY <1>2, NameCases DEF NamesIn
<1> HIDE DEF s
<1>6. /\ u \in Units /\ ClassOf(s) \in DOMAIN info[u] /\ NameOf(u, ClassOf(s), ClassOf(s)) = s
      /\ ClassOf(s) \in DOMAIN MD(u) /\ s \in {ClassOf(s), Renamed(ClassOf(s), u)}
      /\ md[s] = [subVTables |-> SubVTables(u, ClassOf(s)), defined |-> s \in Alive]
  BY <1>3, EntryFacts
<1>7. ClassOf(s) = c
  <2> HIDE DEF u
  <2>1. QED
    BY <1>1, <1>4, <1>5, <1>6, NameOfOne
<1>8. md[s].subVTables = SubVTables(u, c) /\ md[s].defined = (s \in Alive)
  BY <1>6, <1>7
<1>9. SymbolOf(u, c) = s
  BY <1>6, <1>7, NamesBySymbol DEF NamesIn
<1>10. /\ MD(u)[c].subVTables = own
       /\ \A b \in ParentNames(t, c) : SymbolOf(t, b) = SymbolOf(u, b)
  <2>1. CASE u = t
    BY <2>1
  <2>2. CASE u # t
    <3>1. SymbolOf(t, c) = SymbolOf(u, c)
      BY <1>9 DEF s
    <3> HIDE DEF u
    <3>2. QED
      BY <1>6, <1>7, <2>2, <3>1, SameSymbolSameClass
  <2>3. QED
    BY <2>1, <2>2
<1> HIDE DEF u, md
<1>11. /\ own \in Seq(SubVTable)
       /\ \A i \in 1 .. Len(own) : \A p \in own[i].parents : p[1] \in ParentNames(t, c)
  BY SubVTablesFacts
<1>12. /\ md[s].subVTables \in Seq(SubVTable)
       /\ Len(md[s].subVTables) = Len(own)
       /\ \A i \in 1 .. Len(own) :
            /\ md[s].subVTables[i].root = own[i].root
            /\ md[s].subVTables[i].parents =
                 {<<NameOf(u, c, p[1]), p[2]>> : p \in own[i].parents}
            /\ \A p \in own[i].parents : p[1] \in ParentNames(u, c)
  BY <1>6, <1>7, <1>8, <1>10, SubVTablesFacts
<1>13. ASSUME NEW i \in 1 .. Len(own)
       PROVE  md[s].subVTables[i].parents = InSymbols(t, own[i].parents)
  <2>1. ASSUME NEW p \in own[i].parents
        PROVE  NameOf(u, c, p[1]) = SymbolOf(t, p[1])
    <3>1. p[1] \in ParentNames(t, c) /\ p[1] \in NamesIn(u, c)
      BY <1>11, <1>12 DEF NamesIn
    <3>2. NameOf(u, c, p[1]) = SymbolOf(u, p[1])
      BY <1>6, <1>7, <3>1, NamesBySymbol
    <3>3. QED
      BY <1>10, <3>1, <3>2
  <2> HIDE DEF own
  <2>2. QED
    BY <1>12, <2>1 DEF InSymbols
<1> HIDE DEF own
<1>14. QED
  BY <1>3, <1>8, <1>11, <1>12, <1>13 DEF s, own, md

\* A vtable whose parents are replaced.
LEMMA WithParents ==
  ASSUME NEW x \in SubVTable, NEW P
  PROVE  [x EXCEPT !.parents = P] = [parents |-> P, root |-> x.root]
<1>1. x = [parents |-> x.parents, root |-> x.root]
  BY DEF SubVTable
<1>2. QED
  BY <1>1

\* Every vtable that is left is described as its own unit declares it.
THEOREM UnitsDescribed == Spec => []DeclaredHierarchyLinked
<1>1. BuildInv => DeclaredHierarchyLinked
  <2> SUFFICES ASSUME BuildInv, cha.status = "built", NamesKnown, NEW t \in Units,
                      NEW c \in emitted[t], isVtableName(c), symbol[t][c] \in Alive
               PROVE  DescribedAs(cha.metadata, t, c)
    BY DEF DeclaredHierarchyLinked
  <2> DEFINE s == symbol[t][c]
             own == MD(t)[c].subVTables
             md == extractMetadata
             Renames(x) == [x EXCEPT !.parents = {<<SymbolOf(t, p[1]), p[2]>> : p \in @}]
  <2>1. CompileInv /\ SymbolsInv /\ StageInv
    BY DEF BuildInv
  <2>2. /\ c \in DOMAIN info[t] /\ c \in declared[t]
    BY <2>1 DEF CompileInv, NodesOK
  <2>3. cha.metadata = md /\ ToSet(linked) = Units
    <3> DEFINE o == program.options
               L == Names(todo)
    <3>1. ~ (o = {} \/ "SDBuildCHA" \in L) /\ cha.metadata = md
      <4>1. ResultsAt(L)
        BY <2>1 DEF StageInv
      <4> HIDE DEF L
      <4>2. QED
        BY <4>1 DEF ResultsAt
    <3>2. pc \notin {"compile", "link"}
      BY <2>1, <3>1, NothingDone DEF StageInv
    <3>3. QED
      BY <2>1, <3>1, <3>2 DEF SymbolsInv
  <2>4. SymbolOf(t, c) = s
    BY <2>2 DEF SymbolOf
  <2>5. /\ s \in DOMAIN md
        /\ md[s].subVTables \in Seq(SubVTable) /\ own \in Seq(SubVTable)
        /\ Len(md[s].subVTables) = Len(own)
        /\ md[s].defined = (s \in Alive)
        /\ \A i \in 1 .. Len(own) :
             /\ md[s].subVTables[i].root = own[i].root
             /\ md[s].subVTables[i].parents = InSymbols(t, own[i].parents)
    BY <2>2, <2>3, <2>4, LinkedAs
  <2> HIDE DEF s, own, md
  <2>6. ASSUME NEW i \in 1 .. Len(own)
        PROVE  md[s].subVTables[i] = Renames(own[i])
    <3>1. md[s].subVTables[i] \in SubVTable /\ own[i] \in SubVTable
      BY <2>5
    <3>2. \A x \in SubVTable : x = [parents |-> x.parents, root |-> x.root]
      BY DEF SubVTable
    <3>3. Renames(own[i]) = [parents |-> InSymbols(t, own[i].parents), root |-> own[i].root]
      BY <3>1, WithParents DEF InSymbols
    <3> HIDE DEF Renames
    <3>4. QED
      BY <2>5, <3>1, <3>2, <3>3
  <2>7. md[s].subVTables = [i \in DOMAIN own |-> Renames(own[i])]
    <3>1. DOMAIN own = 1 .. Len(own) /\ DOMAIN md[s].subVTables = 1 .. Len(own)
          /\ md[s].subVTables = [i \in 1 .. Len(own) |-> md[s].subVTables[i]]
      BY <2>5
    <3> HIDE DEF Renames
    <3>2. QED
      BY <2>6, <3>1
  <2>8. md[s].defined
    BY <2>5 DEF s
  <2>9. QED
    BY <2>3, <2>5, <2>7, <2>8 DEF DescribedAs, s, own, md
<1>2. QED
  BY <1>1, BuildInvariant, PTL


------------------------------------------------------------------------------
(* The hierarchies of forests are a forest                                   *)

\* Every vtable has the root of its parents; a root has itself.
NamesRoots(md, f) ==
  \A v \in Described(md) :
    /\ IsRoot(md, v) => f[v] = v[1]
    /\ \A p \in Parents(md, v) : f[p] = f[v]

Root(md, v) == CHOOSE r \in RootClasses(md) : v \in Derived(md, <<r, 0>>)
Roots(md)   == [v \in Described(md) |-> Root(md, v)]

\* ClassForest.tla speaks of the same vtables.
LEMMA SameForest ==
  ASSUME NEW md
  PROVE  Analysis!IsForest(md) <=>
           /\ \A v \in Described(md) : IsRoot(md, v) => v[2] = 0
           /\ NamedParents(md) \subseteq Described(md)
           /\ \A v \in Described(md) : \E r \in RootClasses(md) :
                {s \in RootClasses(md) : v \in Derived(md, <<s, 0>>)} = {r}
<1>1. \A c : Analysis!OwnVTables(md, c) = OwnVTables(md, c)
  BY DEF Analysis!OwnVTables, OwnVTables
<1>2. Analysis!Described(md) = Described(md)
  BY <1>1 DEF Analysis!Described, Described
<1>3. \A v : /\ Analysis!IsRoot(md, v) = IsRoot(md, v)
             /\ Analysis!Parents(md, v) = Parents(md, v)
  BY DEF Analysis!IsRoot, IsRoot, Analysis!Parents, Parents, Analysis!SubInfo, SubInfo
<1>4. /\ Analysis!NamedParents(md) = NamedParents(md)
      /\ Analysis!RootClasses(md) = RootClasses(md)
  BY <1>1, <1>2, <1>3
     DEF Analysis!NamedParents, NamedParents, Analysis!RootClasses, RootClasses
<1>5. \A v : Analysis!Children(md, v) = Children(md, v)
  BY <1>2, <1>3 DEF Analysis!Children, Children
<1>6. \A v : Analysis!Derived(md, v) = Derived(md, v)
  BY <1>2, <1>5 DEF Analysis!Derived, Derived, Analysis!ClosedUnderChildren,
     ClosedUnderChildren
<1>7. QED
  BY <1>2, <1>3, <1>4, <1>6 DEF Analysis!IsForest, Analysis!RootsOf

\* A class with a root among its vtables, which is its first one.
LEMMA RootIsFirst ==
  ASSUME NEW md, IsMetadata(md), \A v \in Described(md) : IsRoot(md, v) => v[2] = 0
  PROVE  /\ \A v \in Described(md) : IsRoot(md, v) =>
              v[1] \in RootClasses(md) /\ v = <<v[1], 0>>
         /\ \A r \in RootClasses(md) :
              <<r, 0>> \in Described(md) /\ IsRoot(md, <<r, 0>>)
<1>1. \A c \in DOMAIN md : \A v \in OwnVTables(md, c) :
        v \in Described(md) /\ v = <<c, v[2]>> /\ v[1] = c
  BY OwnVTableType DEF Described
<1>2. ASSUME NEW v \in Described(md), IsRoot(md, v)
      PROVE  v[1] \in RootClasses(md) /\ v = <<v[1], 0>>
  <2>1. PICK c \in DOMAIN md : v \in OwnVTables(md, c)
    BY DEF Described
  <2>2. QED
    BY <1>1, <1>2, <2>1 DEF RootClasses
<1>3. ASSUME NEW r \in RootClasses(md)
      PROVE  <<r, 0>> \in Described(md) /\ IsRoot(md, <<r, 0>>)
  <2>1. PICK v \in OwnVTables(md, r) : IsRoot(md, v)
    BY DEF RootClasses
  <2>2. r \in DOMAIN md
    BY DEF RootClasses
  <2>3. QED
    BY <1>1, <2>1, <2>2
<1>4. QED
  BY <1>2, <1>3

\* The roots of a forest are named.
LEMMA ForestHasRoots ==
  ASSUME NEW md, IsMetadata(md), Analysis!IsForest(md)
  PROVE  NamesRoots(md, Roots(md))
<1>1. /\ \A v \in Described(md) : IsRoot(md, v) => v[2] = 0
      /\ NamedParents(md) \subseteq Described(md)
      /\ \A v \in Described(md) : \E r \in RootClasses(md) :
           {s \in RootClasses(md) : v \in Derived(md, <<s, 0>>)} = {r}
  BY SameForest
<1>2. ASSUME NEW v \in Described(md)
      PROVE  /\ Roots(md)[v] \in RootClasses(md)
             /\ v \in Derived(md, <<Roots(md)[v], 0>>)
             /\ \A s \in RootClasses(md) : v \in Derived(md, <<s, 0>>) => s = Roots(md)[v]
  <2>1. PICK r \in RootClasses(md) :
          {s \in RootClasses(md) : v \in Derived(md, <<s, 0>>)} = {r}
    BY <1>1
  <2>2. Roots(md)[v] = r
    BY <2>1 DEF Roots, Root
  <2>3. QED
    BY <2>1, <2>2
<1>3. ASSUME NEW v \in Described(md), IsRoot(md, v)
      PROVE  Roots(md)[v] = v[1]
  <2>1. v[1] \in RootClasses(md) /\ v = <<v[1], 0>>
    BY <1>1, <1>3, RootIsFirst
  <2>2. v \in Derived(md, <<v[1], 0>>)
    BY <2>1, DerivedSelf
  <2>3. QED
    BY <1>2, <2>1, <2>2
<1>4. ASSUME NEW v \in Described(md), NEW p \in Parents(md, v)
      PROVE  Roots(md)[p] = Roots(md)[v]
  <2>1. p \in Described(md)
    BY <1>1 DEF NamedParents
  <2>2. v \in Children(md, p)
    BY DEF Children
  <2>3. v \in Derived(md, <<Roots(md)[p], 0>>)
    BY <1>2, <2>1, <2>2, DerivedClosed DEF ClosedUnderChildren
  <2>4. QED
    BY <1>2, <2>1, <2>3
<1>5. QED
  BY <1>3, <1>4 DEF NamesRoots

\* Metadata whose vtables have roots to be named by is a forest.
LEMMA RootsMakeForest ==
  ASSUME NEW md, IsMetadata(md), NEW f, NamesRoots(md, f),
         \A v \in Described(md) : IsRoot(md, v) => v[2] = 0,
         NamedParents(md) \subseteq Described(md)
  PROVE  Analysis!IsForest(md)
<1> DEFINE S == {v \in Described(md) : f[v] \in RootClasses(md)
                                       /\ v \in Derived(md, <<f[v], 0>>)}
<1>1. Described(md) \subseteq S
  <2>1. ASSUME NEW v \in Described(md), IsRoot(md, v)
        PROVE  v \in S
    <3>1. v[1] \in RootClasses(md) /\ v = <<v[1], 0>>
      BY <2>1, RootIsFirst
    <3>2. f[v] = v[1] /\ v \in Derived(md, <<v[1], 0>>)
      BY <2>1, <3>1, DerivedSelf DEF NamesRoots
    <3>3. QED
      BY <3>1, <3>2
  <2>2. ASSUME NEW v \in S, NEW w \in Children(md, v)
        PROVE  w \in S
    <3>1. w \in Described(md) /\ f[v] = f[w]
      BY DEF Children, NamesRoots
    <3>2. w \in Derived(md, <<f[v], 0>>)
      BY DerivedClosed DEF ClosedUnderChildren
    <3>3. QED
      BY <3>1, <3>2
  <2> HIDE DEF S
  <2>3. \A v \in Described(md) : IsRoot(md, v) => v \in S
    BY <2>1
  <2>4. \A v \in S : Children(md, v) \subseteq S
    BY <2>2
  <2>5. QED
    BY <2>3, <2>4, ForestReached
<1>2. ASSUME NEW r \in RootClasses(md), NEW v \in Derived(md, <<r, 0>>)
      PROVE  f[v] = r
  <2> DEFINE T == {w \in Derived(md, <<r, 0>>) : f[w] = r}
  <2>1. <<r, 0>> \in T
    <3>1. <<r, 0>> \in Described(md) /\ IsRoot(md, <<r, 0>>)
      BY RootIsFirst
    <3>2. f[<<r, 0>>] = r
      BY <3>1 DEF NamesRoots
    <3>3. QED
      BY <3>2, DerivedSelf
  <2>2. ASSUME NEW u \in T, NEW w \in Children(md, u)
        PROVE  w \in T
    <3>1. w \in Described(md) /\ f[u] = f[w]
      BY DEF Children, NamesRoots
    <3>2. w \in Derived(md, <<r, 0>>)
      BY DerivedClosed DEF ClosedUnderChildren
    <3>3. QED
      BY <3>1, <3>2
  <2> HIDE DEF T
  <2>3. \A u \in T \cap Derived(md, <<r, 0>>) : Children(md, u) \subseteq T
    BY <2>2
  <2>4. Derived(md, <<r, 0>>) \subseteq T
    BY <2>1, <2>3, DerivedLeast
  <2>5. QED
    BY <2>4 DEF T
<1>3. ASSUME NEW v \in Described(md)
      PROVE  \E r \in RootClasses(md) :
               {s \in RootClasses(md) : v \in Derived(md, <<s, 0>>)} = {r}
  <2>1. f[v] \in RootClasses(md) /\ v \in Derived(md, <<f[v], 0>>)
    BY <1>1
  <2>2. {s \in RootClasses(md) : v \in Derived(md, <<s, 0>>)} = {f[v]}
    BY <1>2, <2>1
  <2>3. QED
    BY <2>1, <2>2
<1>4. QED
  BY <1>3, SameForest


\* What a unit says of a vtable is what the linked metadata says.
LEMMA LinkedVTable ==
  ASSUME BuildInv, ToSet(linked) = Units, NamesKnown, NEW t \in Units,
         NEW c \in DOMAIN info[t], NEW v \in OwnVTables(MD(t), c)
  PROVE  LET s == <<SymbolOf(t, c), v[2]>> IN
         /\ s \in Described(extractMetadata)
         /\ IsRoot(extractMetadata, s) = IsRoot(MD(t), v)
         /\ Parents(extractMetadata, s) = InSymbols(t, Parents(MD(t), v))
<1> DEFINE n == SymbolOf(t, c)
           md == extractMetadata
           own == MD(t)[c].subVTables
<1>1. n \in DOMAIN md /\ Len(md[n].subVTables) = Len(own)
      /\ \A i \in 1 .. Len(own) :
           /\ md[n].subVTables[i].root = own[i].root
           /\ md[n].subVTables[i].parents = InSymbols(t, own[i].parents)
  BY LinkedAs
<1>2. IsMetadata(MD(t)) /\ c \in DOMAIN MD(t)
  BY SourceFacts DEF BuildInv, CompileInv, NodesOK
<1>3. v[1] = c /\ v[2] \in Nat /\ v[2] + 1 \in 1 .. Len(own) /\ Len(own) \in Nat
  <2>1. v[1] = c /\ v[2] \in Nat /\ v[2] + 1 \in 1 .. Len(own)
    BY <1>2, OwnVTableType
  <2>2. Len(own) \in Nat
    BY <1>2 DEF IsMetadata, ClassInfo
  <2>3. QED
    BY <2>1, <2>2
<1> HIDE DEF n, md, own
<1>4. v[2] \in 0 .. Len(md[n].subVTables) - 1
  BY <1>1, <1>3
<1>5. <<n, v[2]>> \in Described(md)
  BY <1>1, <1>4 DEF Described, OwnVTables
<1>6. /\ SubInfo(md, <<n, v[2]>>) = md[n].subVTables[v[2] + 1]
      /\ SubInfo(MD(t), v) = own[v[2] + 1]
  BY <1>3 DEF SubInfo, own
<1>7. QED
  BY <1>1, <1>3, <1>5, <1>6 DEF IsRoot, Parents, n, md

\* And every linked vtable is one of some unit's.
LEMMA VTableLinked ==
  ASSUME BuildInv, ToSet(linked) = Units, NamesKnown, NEW s \in Described(extractMetadata)
  PROVE  LET c == ClassOf(s[1])
             t == UnitOf(s[1]) IN
         /\ t \in Units /\ c \in DOMAIN info[t]
         /\ <<c, s[2]>> \in OwnVTables(MD(t), c)
         /\ s = <<SymbolOf(t, c), s[2]>>
<1> DEFINE md == extractMetadata
           c == ClassOf(s[1])
           t == UnitOf(s[1])
<1>1. IsMetadata(md)
  BY LinkedMetadata
<1>2. PICK n \in DOMAIN md : s \in OwnVTables(md, n)
  BY DEF Described
<1>3. s[1] = n /\ s = <<n, s[2]>> /\ s[2] \in Nat /\ s[2] + 1 \in 1 .. Len(md[n].subVTables)
  BY <1>1, <1>2, OwnVTableType
<1>4. t \in Units /\ c \in DOMAIN info[t] /\ NameOf(t, c, c) = n
  BY <1>2, <1>3, EntryFacts
<1> HIDE DEF c, t
<1>5. SymbolOf(t, c) = n
  BY <1>4, NamesBySymbol DEF NamesIn
<1>6. Len(md[n].subVTables) = Len(MD(t)[c].subVTables)
      /\ MD(t)[c].subVTables \in Seq(SubVTable)
  BY <1>4, <1>5, LinkedAs
<1>7. s[2] \in 0 .. Len(MD(t)[c].subVTables) - 1
  <2> DEFINE k == Len(MD(t)[c].subVTables)
  <2>1. k \in Nat /\ s[2] \in Nat /\ s[2] + 1 \in 1 .. k
    BY <1>3, <1>6
  <2> HIDE DEF k
  <2>2. s[2] \in 0 .. k - 1
    BY <2>1
  <2>3. QED
    BY <2>2 DEF k
<1>8. QED
  BY <1>3, <1>4, <1>5, <1>7 DEF OwnVTables, c, t

\* No entry names a class of std.
NoStd == \A t \in Units : \A c \in DOMAIN info[t] : NamesIn(t, c) \cap program.std = {}

LEMMA ParentsHaveEntries ==
  ASSUME BuildInv, NoStd, NEW t \in Units, NEW c \in DOMAIN info[t],
         NEW v \in OwnVTables(MD(t), c), NEW p \in Parents(MD(t), v)
  PROVE  /\ p[1] \in DOMAIN info[t] /\ p[1] \in ParentNames(t, c)
         /\ p \in OwnVTables(MD(t), p[1])
         /\ p[1] \in DOMAIN MD(t) /\ c \in DOMAIN MD(t)
<1>1. CompileInv /\ program \in Programs
  BY DEF BuildInv, CompileInv
<1>2. /\ IsMetadata(MD(t)) /\ NamedParents(MD(t)) \subseteq Described(MD(t))
      /\ c \in DOMAIN MD(t)
  BY <1>1, SourceFacts DEF CompileInv, NodesOK
<1>3. v \in Described(MD(t))
  BY <1>2 DEF Described
<1>4. p \in Described(MD(t))
  BY <1>2, <1>3 DEF NamedParents
<1>5. PICK b \in DOMAIN MD(t) : p \in OwnVTables(MD(t), b)
  BY <1>4 DEF Described
<1>6. p[1] = b
  BY <1>2, <1>5, OwnVTableType
<1>7. p[1] \in ParentNames(t, c)
  BY DEF ParentNames
<1>8. isVtableName(p[1])
  BY <1>7 DEF NoStd, NamesIn, isVtableName
<1>9. p[1] \in DOMAIN info[t]
  BY <1>1, <1>7, <1>8 DEF CompileInv, NodesOK
<1>10. QED
  BY <1>2, <1>5, <1>6, <1>7, <1>9

\* Two units that know a class by one symbol know its roots by one.
LEMMA RootsAgree ==
  ASSUME BuildInv, ToSet(linked) = Units, NamesKnown, NoStd,
         \A u \in Units : Analysis!IsForest(MD(u)),
         NEW t \in Units, NEW u \in Units, NEW c \in DOMAIN info[t], c \in DOMAIN info[u],
         SymbolOf(t, c) = SymbolOf(u, c), NEW v \in OwnVTables(MD(t), c)
  PROVE  SymbolOf(t, Roots(MD(t))[v]) = SymbolOf(u, Roots(MD(u))[v])
<1> DEFINE Both(b) == b \in DOMAIN info[t] /\ b \in DOMAIN info[u]
                      /\ SymbolOf(t, b) = SymbolOf(u, b)
           S == {w \in Described(MD(t)) : Both(w[1]) =>
                   SymbolOf(t, Roots(MD(t))[w]) = SymbolOf(u, Roots(MD(u))[w])}
<1>1. CompileInv /\ program \in Programs
  BY DEF BuildInv, CompileInv
<1>2. \A x \in Units : /\ IsMetadata(MD(x)) /\ NamedParents(MD(x)) \subseteq Described(MD(x))
                       /\ DOMAIN info[x] \subseteq DOMAIN MD(x)
                       /\ NamesRoots(MD(x), Roots(MD(x)))
  BY <1>1, SourceFacts, ForestHasRoots DEF CompileInv, NodesOK
<1>3. ASSUME t # u, NEW w \in Described(MD(t)), Both(w[1])
      PROVE  /\ w \in OwnVTables(MD(t), w[1])
             /\ w \in Described(MD(u))
             /\ IsRoot(MD(t), w) = IsRoot(MD(u), w)
             /\ Parents(MD(t), w) = Parents(MD(u), w)
             /\ \A p \in Parents(MD(t), w) : Both(p[1])
  <2>1. PICK b \in DOMAIN MD(t) : w \in OwnVTables(MD(t), b)
    BY DEF Described
  <2>2. w[1] = b
    BY <1>2, <2>1, OwnVTableType
  <2>3. /\ MD(t)[b].subVTables = MD(u)[b].subVTables
        /\ \A x \in ParentNames(t, b) : SymbolOf(t, x) = SymbolOf(u, x)
    BY <1>3, <2>2, SameSymbolSameClass
  <2>4. w \in OwnVTables(MD(u), b)
    BY <2>1, <2>3 DEF OwnVTables
  <2>5. IsRoot(MD(t), w) = IsRoot(MD(u), w) /\ Parents(MD(t), w) = Parents(MD(u), w)
    BY <2>2, <2>3 DEF IsRoot, Parents, SubInfo
  <2>6. w \in Described(MD(u))
    BY <1>2, <1>3, <2>2, <2>4 DEF Described
  <2>7. ASSUME NEW p \in Parents(MD(t), w)
        PROVE  Both(p[1])
    <3>1. p[1] \in DOMAIN info[t] /\ p[1] \in ParentNames(t, b)
      BY <1>3, <2>1, <2>2, ParentsHaveEntries
    <3>2. p[1] \in DOMAIN info[u]
      BY <1>3, <2>2, <2>4, <2>5, ParentsHaveEntries
    <3>3. QED
      BY <2>3, <3>1, <3>2
  <2>8. QED
    BY <2>1, <2>2, <2>5, <2>6, <2>7
<1>4. v \in Described(MD(t)) /\ v[1] = c
  BY <1>2, OwnVTableType DEF Described
<1> HIDE DEF Both
<1>5. ASSUME t # u
      PROVE  Described(MD(t)) \subseteq S
  <2>1. ASSUME NEW w \in Described(MD(t)), IsRoot(MD(t), w)
        PROVE  w \in S
    <3>1. ASSUME Both(w[1])
          PROVE  SymbolOf(t, Roots(MD(t))[w]) = SymbolOf(u, Roots(MD(u))[w])
      <4>1. w \in Described(MD(u)) /\ IsRoot(MD(u), w)
        BY <1>3, <1>5, <2>1, <3>1
      <4>2. Roots(MD(t))[w] = w[1] /\ Roots(MD(u))[w] = w[1]
        BY <1>2, <2>1, <4>1 DEF NamesRoots
      <4>3. QED
        BY <3>1, <4>2 DEF Both
    <3>2. QED
      BY <3>1
  <2>2. ASSUME NEW p \in S, NEW w \in Children(MD(t), p)
        PROVE  w \in S
    <3>1. w \in Described(MD(t)) /\ p \in Parents(MD(t), w)
      BY DEF Children
    <3>2. ASSUME Both(w[1])
          PROVE  SymbolOf(t, Roots(MD(t))[w]) = SymbolOf(u, Roots(MD(u))[w])
      <4>1. w \in Described(MD(u)) /\ p \in Parents(MD(u), w) /\ Both(p[1])
        BY <1>3, <1>5, <3>1, <3>2
      <4>2. Roots(MD(t))[w] = Roots(MD(t))[p] /\ Roots(MD(u))[w] = Roots(MD(u))[p]
        BY <1>2, <3>1, <4>1 DEF NamesRoots
      <4>3. QED
        BY <2>2, <4>1, <4>2
    <3>3. QED
      BY <3>1, <3>2
  <2> HIDE DEF S
  <2>3. \A w \in Described(MD(t)) : IsRoot(MD(t), w) => w \in S
    BY <2>1
  <2>4. \A p \in S : Children(MD(t), p) \subseteq S
    BY <2>2
  <2>5. QED
    BY <1>2, <2>3, <2>4, ForestReached
<1>6. Both(c)
  BY DEF Both
<1>7. CASE t = u
  BY <1>7
<1>8. CASE t # u
  BY <1>4, <1>5, <1>6, <1>8
<1>9. QED
  BY <1>7, <1>8

\* Units whose hierarchies are forests and whose names are known are linked to
\* a forest.
LEMMA LinkedForest ==
  ASSUME BuildInv, ToSet(linked) = Units, NamesKnown, NoStd,
         \A t \in Units : Analysis!IsForest(MD(t))
  PROVE  Analysis!IsForest(extractMetadata)
<1> DEFINE md == extractMetadata
           U(s) == UnitOf(s[1])
           C(s) == ClassOf(s[1])
           W(s) == <<C(s), s[2]>>
           f == [s \in Described(md) |-> SymbolOf(U(s), Roots(MD(U(s)))[W(s)])]
<1>1. CompileInv /\ program \in Programs
  BY DEF BuildInv, CompileInv
<1>2. ASSUME NEW t \in Units
      PROVE  /\ IsMetadata(MD(t))
             /\ \A v \in Described(MD(t)) : IsRoot(MD(t), v) => v[2] = 0
             /\ NamesRoots(MD(t), Roots(MD(t)))
             /\ \A c \in DOMAIN info[t] : c \in DOMAIN MD(t)
  BY <1>1, SourceFacts, SameForest, ForestHasRoots DEF CompileInv, NodesOK
<1>3. ASSUME NEW s \in Described(md)
      PROVE  /\ U(s) \in Units /\ C(s) \in DOMAIN info[U(s)]
             /\ W(s) \in OwnVTables(MD(U(s)), C(s))
             /\ s = <<SymbolOf(U(s), C(s)), s[2]>>
             /\ IsRoot(md, s) = IsRoot(MD(U(s)), W(s))
             /\ Parents(md, s) = InSymbols(U(s), Parents(MD(U(s)), W(s)))
             /\ W(s) \in Described(MD(U(s)))
  <2>1. /\ U(s) \in Units /\ C(s) \in DOMAIN info[U(s)]
        /\ W(s) \in OwnVTables(MD(U(s)), C(s))
        /\ s = <<SymbolOf(U(s), C(s)), s[2]>>
    BY <1>3, VTableLinked
  <2> DEFINE w == W(s)
  <2>2. w[2] = s[2]
    OBVIOUS
  <2> HIDE DEF U, C, W
  <2>3. /\ IsRoot(md, s) = IsRoot(MD(U(s)), W(s))
        /\ Parents(md, s) = InSymbols(U(s), Parents(MD(U(s)), W(s)))
    BY <2>1, <2>2, LinkedVTable
  <2>4. W(s) \in Described(MD(U(s)))
    BY <1>2, <2>1 DEF Described
  <2>5. QED
    BY <2>1, <2>3, <2>4
<1>4. ASSUME NEW s \in Described(md), NEW q \in Parents(md, s)
      PROVE  q \in Described(md) /\ f[q] = f[s]
  <2> DEFINE t == U(s)
             v == W(s)
  <2>1. /\ t \in Units /\ C(s) \in DOMAIN info[t] /\ v \in OwnVTables(MD(t), C(s))
        /\ Parents(md, s) = InSymbols(t, Parents(MD(t), v)) /\ v \in Described(MD(t))
    BY <1>3
  <2> HIDE DEF U, W, C
  <2> HIDE DEF t, v, md
  <2>2. PICK p \in Parents(MD(t), v) : q = <<SymbolOf(t, p[1]), p[2]>>
    BY <1>4, <2>1 DEF InSymbols
  <2> DEFINE b == p[1]
             u == U(q)
  <2>3. b \in DOMAIN info[t] /\ b \in ParentNames(t, C(s)) /\ p \in OwnVTables(MD(t), b)
        /\ b \in DOMAIN MD(t)
    BY <2>1, ParentsHaveEntries
  <2> HIDE DEF b
  <2>4. q \in Described(md)
    BY <2>1, <2>2, <2>3, LinkedVTable DEF md, b
  <2>5. u \in Units /\ C(q) \in DOMAIN info[u] /\ q = <<SymbolOf(u, C(q)), q[2]>>
    BY <1>3, <2>4 DEF md
  <2>6. q[1] = SymbolOf(t, b) /\ q[2] = p[2] /\ q[1] = SymbolOf(u, C(q))
    BY <2>2, <2>5 DEF b
  <2>7. C(q) = b
    <3>1. q[1] = NameOf(t, C(s), b)
      BY <2>1, <2>3, <2>6, NamesBySymbol DEF NamesIn
    <3>2. q[1] \in DOMAIN md
      <4>1. SymbolOf(t, b) \in DOMAIN md
        BY <2>1, <2>3, LinkedAs DEF md
      <4>2. QED
        BY <2>6, <4>1
    <3>3. ClassOf(q[1]) = b
      BY <2>1, <2>3, <3>1, <3>2, ParentHere DEF md
    <3>4. QED
      BY <3>3 DEF C
  <2>8. p = <<b, p[2]>>
    BY <1>2, <2>1, <2>3, OwnVTableType
  <2>9. W(q) = p
    BY <2>6, <2>7, <2>8 DEF W
  <2>10. SymbolOf(t, Roots(MD(t))[p]) = SymbolOf(u, Roots(MD(u))[p])
    BY <2>1, <2>3, <2>5, <2>6, <2>7, RootsAgree
  <2>11. Roots(MD(t))[p] = Roots(MD(t))[v]
    BY <1>2, <2>1 DEF NamesRoots
  <2>12. f[q] = SymbolOf(u, Roots(MD(u))[p]) /\ f[s] = SymbolOf(t, Roots(MD(t))[v])
    BY <1>4, <2>4, <2>9 DEF t, v, md
  <2>13. QED
    BY <2>4, <2>10, <2>11, <2>12 DEF md
<1>5. ASSUME NEW s \in Described(md), IsRoot(md, s)
      PROVE  s[2] = 0 /\ f[s] = s[1]
  <2> DEFINE w == W(s)
  <2>1. w[2] = s[2] /\ w[1] = C(s)
    OBVIOUS
  <2>2. f[s] = SymbolOf(U(s), Roots(MD(U(s)))[w])
    BY <1>5
  <2>3. /\ U(s) \in Units /\ s = <<SymbolOf(U(s), C(s)), s[2]>>
        /\ IsRoot(MD(U(s)), w) /\ w \in Described(MD(U(s)))
    BY <1>3, <1>5
  <2> HIDE DEF w, U, C, W, md, f
  <2>4. w[2] = 0 /\ Roots(MD(U(s)))[w] = w[1]
    BY <1>2, <2>3 DEF NamesRoots
  <2>5. s[1] = SymbolOf(U(s), C(s))
    BY <2>3
  <2>6. QED
    BY <2>1, <2>2, <2>4, <2>5
<1>6. NamesRoots(md, f)
  <2> HIDE DEF f, md, U, C, W
  <2>1. QED
    BY <1>4, <1>5 DEF NamesRoots
<1>7. NamedParents(md) \subseteq Described(md)
  <2> HIDE DEF f, md, U, C, W
  <2>1. QED
    BY <1>4 DEF NamedParents
<1>8. \A s \in Described(md) : IsRoot(md, s) => s[2] = 0
  BY <1>5
<1>9. IsMetadata(md)
  BY LinkedMetadata
<1> HIDE DEF f, md
<1>10. Analysis!IsForest(md)
  BY <1>6, <1>7, <1>8, <1>9, RootsMakeForest
<1>11. QED
  BY <1>10 DEF md


------------------------------------------------------------------------------
(* Builds that stop                                                          *)

\* Why a build may stop.
Reason ==
  \/ ~ NoStd
  \/ ~ Inspectable
  \/ \E d \in Missing : ~ Replaceable(d)
  \/ \E t \in Units : ~ Analysis!IsForest(MD(t))
  \/ ~ NamesKnown
  \/ lays(program.options) /\ (Misfit \/ emits("clonedResultOffset"))

LEMMA ReasonStable ==
  ASSUME UNCHANGED <<program, compiled, link>>, removed' = removed, moved' = moved, Reason
  PROVE  Reason'
<1>1. Definitions' = Definitions
  BY ModuleStable
<1>2. Alive' = Alive
  BY <1>1 DEF Alive
<1>3. /\ Missing' = Missing /\ Inspectable' = Inspectable
      /\ \A d : Replaceable(d)' = Replaceable(d)
  BY <1>2, MissingStable
<1>4. NoStd' = NoStd
  BY DEF NoStd, NamesIn, ParentNames, Units, MD, compiled
<1>5. (\E t \in Units : ~ Analysis!IsForest(MD(t)))' = (\E t \in Units : ~ Analysis!IsForest(MD(t)))
  BY DEF Analysis!IsForest, Analysis!RootsOf, Analysis!Described, Analysis!OwnVTables,
         Analysis!NamedParents, Analysis!IsRoot, Analysis!Parents, Analysis!SubInfo,
         Analysis!RootClasses, Analysis!Derived, Analysis!ClosedUnderChildren,
         Analysis!Children, Units, MD
<1>6. NamesKnown' = NamesKnown
  BY <1>2 DEF NamesKnown, Shared, isInternal, NamesIn, ParentNames, Units, MD, compiled, link
<1>7. Misfit' = Misfit /\ emits("clonedResultOffset")' = emits("clonedResultOffset")
  BY DEF Misfit, emits, Units, compiled
<1>8. program' = program
  OBVIOUS
<1>9. QED
  BY <1>3, <1>4, <1>5, <1>6, <1>7, <1>8 DEF Reason

\* The vtables that are to be erased are there, laid out and unused.
LEMMA AlwaysRemovable ==
  ASSUME BuildInv, Runs("SDUpdateIndices")
  PROVE  Removable
<1> DEFINE o == program.options
           L == Names(todo)
<1>1. /\ o \in SUBSET Options /\ "SDUpdateIndices" \in Scheduled(o)
      /\ L = {x \in Scheduled(o) : Rank("SDUpdateIndices") <= Rank(x)}
      /\ ResultsAt(L)
  BY AtHead DEF BuildInv
<1>2. lays(o) /\ o # {}
  BY <1>1 DEF Scheduled, lays
<1>3. "SDUpdateIndices" \in L /\ "SDLayoutBuilder" \notin L /\ "SDBuildCHA" \notin L
  BY <1>1, <1>2 DEF Scheduled, Rank
<1> HIDE DEF L
<1>4. /\ cha = [status |-> "built", metadata |-> extractMetadata]
      /\ layout = [status |-> "built", interleave |-> "interleave" \in o, laid |-> Found]
  BY <1>1, <1>2, <1>3 DEF ResultsAt
<1>5. oldVTables = Found /\ layout.laid = Found
  BY <1>4 DEF oldVTables, Found
<1>6. \A n \in DOMAIN extractMetadata : extractMetadata[n].defined => n \in Alive
  BY DEF extractMetadata
<1>7. QED
  BY <1>5, <1>6 DEF Removable, Found

\* A step that stops the build has a reason, and leaves the module as it is.
LEMMA StopHasReason ==
  ASSUME BuildInv, PassStep, pc' = "aborted"
  PROVE  removed' = removed /\ moved' = moved /\ Reason
<1>1. pc = "passes" /\ ToSet(linked) = Units
  BY PassFrame DEF BuildInv, SymbolsInv
<1>2. ~ (GlobalDCE \/ SDSubstModule \/ SDCleanup \/ Done)
  BY <1>1 DEF GlobalDCE, SDSubstModule, SDCleanup, Done
<1>3. CASE SDFix
  BY <1>1, <1>3 DEF SDFix, Reason
<1>4. CASE SDBuildCHA
  <2>1. removed' = removed /\ moved' = moved /\ ~ Analysis!IsForest(extractMetadata)
    BY <1>1, <1>4 DEF SDBuildCHA
  <2>2. QED
    BY <1>1, <2>1, LinkedForest DEF Reason
<1>5. CASE SDAnalysis
  BY <1>1, <1>5 DEF SDAnalysis, Reason
<1>6. CASE SDLayoutBuilder
  <2>1. /\ Runs("SDLayoutBuilder") /\ removed' = removed /\ moved' = moved
        /\ ~NamesKnown \/ Misfit \/ emits("clonedResultOffset")
    BY <1>1, <1>6 DEF SDLayoutBuilder
  <2>2. "SDLayoutBuilder" \in Scheduled(program.options)
    BY <2>1, AtHead DEF BuildInv
  <2>3. lays(program.options)
    BY <2>2 DEF Scheduled
  <2>4. QED
    BY <2>1, <2>3 DEF Reason
<1>7. CASE SDUpdateIndices
  <2>1. Runs("SDUpdateIndices")
    BY <1>7 DEF SDUpdateIndices
  <2>2. Removable
    BY <2>1, AlwaysRemovable
  <2>3. /\ removed' = removed /\ moved' = moved
        /\ ~NamesKnown \/ Misfit
    BY <1>1, <1>7, <2>2 DEF SDUpdateIndices, Untranslatable
  <2>4. "SDUpdateIndices" \in Scheduled(program.options)
    BY <2>1, AtHead DEF BuildInv
  <2>5. lays(program.options)
    BY <2>4 DEF Scheduled
  <2>6. QED
    BY <2>3, <2>5 DEF Reason
<1>8. QED
  BY <1>2, <1>3, <1>4, <1>5, <1>6, <1>7 DEF PassStep

\* A build stops only for what is in its inputs: a base of std, destructors that
\* cannot be repaired, a unit that describes no forest, confused names, or, with
\* a new layout, a vtable that lacks entries of a parent or the clone of a thunk
\* with a covariant result.
THEOREM AbortsAreExplained == Spec => []AbortsExplained
<1>1. Init => AbortsExplained
  BY DEF Init, LinkInit, AbortsExplained
<1>2. ASSUME BuildInv, AbortsExplained, [Next]_vars
      PROVE  AbortsExplained'
  <2>1. pc = "aborted" => Reason
    BY <1>2 DEF AbortsExplained, Reason, NoStd
  <2>2. ASSUME pc' = "aborted"
        PROVE  Reason'
    <3>1. CASE UNCHANGED vars
      <4>1. UNCHANGED <<program, compiled, link>> /\ removed' = removed /\ moved' = moved
            /\ pc = "aborted"
        BY <2>2, <3>1 DEF vars, passes
      <4>2. QED
        BY <2>1, <4>1, ReasonStable
    <3>2. CASE PassStep
      BY <1>2, <2>2, <3>2, StopHasReason, PassFrame, ReasonStable
    <3>3. ASSUME ~ PassStep, ~ UNCHANGED vars
          PROVE  FALSE
      <4>1. pc \in {"compile", "link"} /\ pc' \in {pc, "link", "passes"}
        BY <1>2, <3>3, StepCases DEF ReferenceVTable, DefineVTable, EndUnit, LinkUnit
      <4>2. QED
        BY <2>2, <4>1
    <3>4. QED
      BY <3>1, <3>2, <3>3
  <2>3. QED
    BY <2>2 DEF AbortsExplained, Reason, NoStd
<1>3. BuildInv /\ AbortsExplained /\ [Next]_vars => AbortsExplained'
  BY <1>2
<1>4. QED
  BY <1>1, <1>3, BuildInvariant, PTL DEF Spec

==============================================================================
