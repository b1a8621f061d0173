----------------------------- MODULE ToolProofs -----------------------------
(***************************************************************************)
(* Proofs about the algorithms a request and its answer pass through: the  *)
(* load and resolution of profiles, the preparation of a request and the   *)
(* repair of a call.                                                       *)
(***************************************************************************)
EXTENDS Preparation, Profiles, Repair, Extraction, FiniteSetTheorems, SequenceTheorems, TLAPS

-----------------------------------------------------------------------------
(* Smallest things: a smallest counterexample stands for an induction. *)

\* A set of subsets of a finite set has a smallest member.
LEMMA SmallestSet ==
  ASSUME NEW S, IsFiniteSet(S), NEW C \in SUBSET (SUBSET S), C # {}
  PROVE  \E A \in C : \A B \in C : B \subseteq A => B = A
<1>1. IsWellFoundedOn(StrictSubsetOrdering(S), SUBSET S)
  BY FS_StrictSubsetOrderingWellFounded, FS_FiniteSubsetsOfFinite
<1>2. PICK A \in C : \A B \in C : ~ (<<B, A>> \in StrictSubsetOrdering(S))
  BY <1>1, WFMin, Zenon
<1> QED
  BY <1>2 DEF StrictSubsetOrdering

\* A set of numbers has a smallest one.
LEMMA SomeMin ==
  ASSUME NEW S \in SUBSET Nat, S # {}
  PROVE  Min(S) \in S /\ \A k \in S : Min(S) <= k
<1>1. PICK n \in S : TRUE
  OBVIOUS
<1>2. PICK T : T = 0 .. n
  OBVIOUS
<1> DEFINE C == {D \in SUBSET T : \E m \in S : D = 0 .. m}
<1>3. C \in SUBSET (SUBSET T) /\ T \in C
  BY <1>1, <1>2
<1>4. PICK A \in C : \A B \in C : B \subseteq A => B = A
  <2>1. 0 \in Int /\ n \in Int
    BY <1>1
  <2>2. IsFiniteSet(T)
    BY <1>2, <2>1, FS_Interval
  <2> HIDE DEF C
  <2> QED
    BY <1>3, <2>2, SmallestSet
<1>5. PICK m \in S : A = 0 .. m /\ m <= n
  <2>1. PICK m \in S : A = 0 .. m
    BY <1>4
  <2>2. m \in 0 .. m
    BY <2>1
  <2> QED
    BY <1>2, <1>4, <2>1, <2>2
<1>6. ASSUME NEW k \in S, k < m PROVE FALSE
  <2>1. 0 .. k \in C /\ 0 .. k \subseteq A /\ m \in A /\ m \notin 0 .. k
    BY <1>1, <1>2, <1>5, <1>6
  <2> QED
    BY <2>1, <1>4
<1>7. \A k \in S : m <= k
  BY <1>6
<1> QED
  BY <1>5, <1>7 DEF Min

\* A set of numbers up to n has a largest one.
LEMMA SomeMax ==
  ASSUME NEW n \in Nat, NEW S \in SUBSET (1 .. n), S # {}
  PROVE  Max(S) \in S /\ \A k \in S : k <= Max(S)
<1> DEFINE R == {n - k : k \in S}
<1>1. R \in SUBSET Nat /\ R # {}
  <2>1. \A k \in S : n - k \in Nat
    OBVIOUS
  <2> QED
    BY <2>1
<1>2. PICK r : r = Min(R)
  OBVIOUS
<1>3. r \in R /\ \A k \in R : r <= k
  <2> HIDE DEF R
  <2> QED
    BY <1>1, <1>2, SomeMin
<1>4. PICK m \in S : r = n - m
  BY <1>3
<1>5. ASSUME NEW k \in S PROVE k <= m
  <2>1. n - k \in R
    OBVIOUS
  <2>2. r <= n - k
    BY <2>1, <1>3
  <2> QED
    BY <2>2, <1>4
<1> QED
  BY <1>4, <1>5 DEF Max

\* It is n, when n is in it.
LEMMA LastIsMax ==
  ASSUME NEW n \in Nat, NEW S \in SUBSET (1 .. n), n \in S
  PROVE  Max(S) = n
<1>1. Max(S) \in S /\ n <= Max(S)
  BY SomeMax
<1>2. PICK m : m = Max(S)
  OBVIOUS
<1>3. m \in 1 .. n /\ n <= m
  BY <1>1, <1>2
<1> QED
  BY <1>2, <1>3

\* A fold of a step over the first n members of s: f says what it has come to
\* for each set of places, as long as it is of A.
Steps(f, step, A, base, s, n) ==
  \A d \in SUBSET (1 .. n) :
    IF d = {} THEN f[d] = base
    ELSE f[d \ {Max(d)}] \in A => f[d] = step[<<f[d \ {Max(d)}], s[Max(d)]>>]

\* Such a fold stays in A.
LEMMA StepsTyped ==
  ASSUME NEW n \in Nat, NEW A, NEW S, NEW step \in [A \X S -> A], NEW base \in A,
         NEW s, \A i \in 1 .. n : s[i] \in S, NEW f, Steps(f, step, A, base, s, n),
         NEW d \in SUBSET (1 .. n)
  PROVE  f[d] \in A
<1> DEFINE C == {e \in SUBSET (1 .. n) : f[e] \notin A}
<1>1. CASE C = {}
  BY <1>1
<1>2. CASE C # {}
  <2>1. PICK T : T = 1 .. n
    OBVIOUS
  <2>2. IsFiniteSet(T)
    BY <2>1, FS_Interval
  <2>3. PICK e \in C : \A b \in C : b \subseteq e => b = e
    <3>1. C \in SUBSET (SUBSET T)
      BY <2>1
    <3> HIDE DEF C
    <3> QED
      BY <1>2, <2>2, <3>1, SmallestSet
  <2>4. e \in SUBSET (1 .. n) /\ f[e] \notin A
    BY <2>3
  <2>5. e # {}
    BY <2>4 DEF Steps
  <2>6. Max(e) \in e
    BY <2>4, <2>5, SomeMax
  <2>7. PICK b : b = e \ {Max(e)}
    OBVIOUS
  <2>8. b \in SUBSET (1 .. n) /\ b \subseteq e /\ b # e
    BY <2>4, <2>6, <2>7
  <2>9. f[b] \in A
    BY <2>3, <2>8
  <2>10. PICK m : m = Max(e)
    OBVIOUS
  <2>11. f[e] = step[<<f[b], s[m]>>]
    BY <2>4, <2>5, <2>7, <2>9, <2>10 DEF Steps
  <2>12. <<f[b], s[m]>> \in A \X S
    BY <2>4, <2>6, <2>9, <2>10
  <2> QED
    BY <2>4, <2>11, <2>12
<1> QED
  BY <1>1, <1>2

\* There is such a fold, of A.
Folds(step, A, base, s, n) == \E f \in [SUBSET (1 .. n) -> A] : Steps(f, step, A, base, s, n)

\* And there is one for every step.
LEMMA StepsExist ==
  ASSUME NEW n \in Nat, NEW A, NEW S, NEW step \in [A \X S -> A], NEW base \in A,
         NEW s, \A i \in 1 .. n : s[i] \in S
  PROVE  Folds(step, A, base, s, n)
<1> DEFINE C == {k \in 0 .. n : ~ Folds(step, A, base, s, k)}
<1>1. CASE C = {}
  <2>1. n \notin C
    BY <1>1
  <2> QED
    BY <2>1
<1>2. CASE C # {}
  <2>1. C \in SUBSET Nat
    OBVIOUS
  <2>2. PICK k : k = Min(C)
    OBVIOUS
  <2>3. k \in C /\ \A j \in C : k <= j
    <3> HIDE DEF C
    <3> QED
      BY <1>2, <2>1, <2>2, SomeMin
  <2>4. k # 0
    <3> SUFFICES ASSUME k = 0 PROVE FALSE
      OBVIOUS
    <3>1. SUBSET (1 .. k) = {{}}
      OBVIOUS
    <3>2. PICK f \in [SUBSET (1 .. k) -> A] : f = [d \in SUBSET (1 .. k) |-> base]
      OBVIOUS
    <3>3. f[{}] = base
      BY <3>1, <3>2
    <3>4. Steps(f, step, A, base, s, k)
      BY <3>1, <3>3 DEF Steps
    <3> QED
      BY <3>2, <3>4, <2>3 DEF Folds
  <2>5. PICK j \in Nat : k = j + 1 /\ j < n
    <3>1. k \in 1 .. n
      BY <2>3, <2>4
    <3>2. k - 1 \in Nat
      BY <3>1
    <3> QED
      BY <3>1, <3>2
  <2>6. j \in 0 .. n /\ j \notin C
    BY <2>3, <2>5
  <2>7. PICK f \in [SUBSET (1 .. j) -> A] : Steps(f, step, A, base, s, j)
    BY <2>6 DEF Folds
  <2> DEFINE g == [d \in SUBSET (1 .. k) |->
                       IF d \in SUBSET (1 .. j) THEN f[d] ELSE step[<<f[d \ {k}], s[k]>>]]
  <2>8. /\ g = [d \in SUBSET (1 .. k) |-> g[d]]
        /\ \A d \in SUBSET (1 .. k) : g[d] = IF d \in SUBSET (1 .. j) THEN f[d] ELSE step[<<f[d \ {k}], s[k]>>]
    OBVIOUS
  <2> HIDE DEF g
  <2>9. ASSUME NEW d \in SUBSET (1 .. k), d \notin SUBSET (1 .. j)
        PROVE  /\ Max(d) = k /\ d # {} /\ d \ {k} \in SUBSET (1 .. j)
               /\ g[d] = step[<<f[d \ {k}], s[k]>>] /\ g[d] \in A
    <3>1. k \in d
      BY <2>5, <2>9
    <3>2. k \in Nat /\ d # {}
      BY <2>5, <3>1
    <3>3. Max(d) = k
      BY <3>1, <3>2, LastIsMax
    <3>4. PICK e : e = d \ {k}
      OBVIOUS
    <3>5. e \in SUBSET (1 .. j)
      BY <2>5, <3>4
    <3>6. g[d] = step[<<f[e], s[k]>>]
      BY <2>8, <2>9, <3>4
    <3>7. s[k] \in S /\ f[e] \in A
      BY <2>3, <2>5, <2>7, <3>5
    <3>8. <<f[e], s[k]>> \in A \X S
      BY <3>7
    <3> QED
      BY <3>1, <3>3, <3>4, <3>5, <3>6, <3>8
  <2>10. ASSUME NEW d \in SUBSET (1 .. j)
         PROVE  d \in SUBSET (1 .. k) /\ g[d] = f[d] /\ g[d] \in A
    <3>1. d \in SUBSET (1 .. k)
      BY <2>5
    <3>2. f[d] \in A
      BY <2>7
    <3> QED
      BY <2>8, <3>1, <3>2
  <2>11. g \in [SUBSET (1 .. k) -> A]
    <3>1. \A d \in SUBSET (1 .. k) : g[d] \in A
      BY <2>9, <2>10
    <3> QED
      BY <2>8, <3>1
  <2>12. Steps(g, step, A, base, s, k)
    <3> SUFFICES ASSUME NEW d \in SUBSET (1 .. k)
                 PROVE  IF d = {} THEN g[d] = base
                        ELSE g[d \ {Max(d)}] \in A => g[d] = step[<<g[d \ {Max(d)}], s[Max(d)]>>]
      BY DEF Steps
    <3>1. CASE d \in SUBSET (1 .. j)
      <4>1. d \ {Max(d)} \in SUBSET (1 .. j)
        BY <3>1
      <4>2. g[d] = f[d] /\ g[d \ {Max(d)}] = f[d \ {Max(d)}]
        BY <3>1, <4>1, <2>10
      <4> QED
        BY <3>1, <4>2, <2>7 DEF Steps
    <3>2. CASE d \notin SUBSET (1 .. j)
      <4>1. PICK e : e = d \ {k}
        OBVIOUS
      <4>2. /\ Max(d) = k /\ d # {} /\ e \in SUBSET (1 .. j) /\ g[d] = step[<<f[e], s[k]>>]
        BY <3>2, <4>1, <2>9
      <4>3. g[e] = f[e]
        BY <4>2, <2>10
      <4> QED
        BY <4>1, <4>2, <4>3
    <3> QED
      BY <3>1, <3>2
  <2> QED
    BY <2>3, <2>11, <2>12 DEF Folds
<1> QED
  BY <1>1, <1>2

-----------------------------------------------------------------------------
(* Names. *)

\* What is left when one alone fits.
LEMMA AloneFits ==
  ASSUME NEW S, IsFiniteSet(S), Alone(S) # {}
  PROVE  \E t \in S : Alone(S) = {t} /\ S = {t}
BY FS_Singleton DEF Alone

\* Names are changed one part at a time, in any order.
LEMMA PartsApart ==
  ASSUME NEW n
  PROVE  /\ Even(Short(n)) = [Even(n) EXCEPT !.space = FALSE]
         /\ Even(Short(Short(n))) = Even(Short(n))
<1>1. Even(Short(n)) = [Even(n) EXCEPT !.space = FALSE]
  BY DEF Even, Lower, Short
<1>2. Short(Short(n)) = Short(n)
  BY DEF Short
<1> QED
  BY <1>1, <1>2

\* Names that differ in their letters alone are even and short alike.
LEMMA AlikeNames ==
  ASSUME NEW t, NEW u, Even(t) = Even(u)
  PROVE  Even(Short(t)) = Even(Short(u))
BY PartsApart

\* Names that are the same but for their letters are the same but for more.
LEMMA AlikeLetters ==
  ASSUME NEW t, NEW u, Lower(t) = Lower(u)
  PROVE  Even(t) = Even(u)
BY DEF Even

\* What a name becomes is what one tool that fits it is called.
NameFits(t, name, tools, strict) ==
  /\ \/ t = name
     \/ ~strict /\ \/ Even(Short(t)) = Even(Short(name))
                   \/ <<Lower(name), t>> \in PackNames
  /\ t # name => \/ \A u \in tools \ {t} : Lower(u) # Lower(t)
                 \/ <<Lower(name), t>> \in PackNames

\* canonicalize_tool_name gives one tool, that fits, or none.
LEMMA CanonicalIsOne ==
  ASSUME NEW name, NEW tools \in SUBSET ToolNames, NEW strict, Canonical(name, tools, strict) # {}
  PROVE  \E t \in tools : Canonical(name, tools, strict) = {t} /\ NameFits(t, name, tools, strict)
<1> DEFINE cased == {t \in tools : Lower(t) = Lower(name)}
           dashed == {t \in tools : Even(t) = Even(name)}
           short == {t \in tools : Lower(t) = Lower(Short(name))}
           packed == {t \in tools : <<Lower(name), t>> \in PackNames}
           to == Canonical(name, tools, strict)
<1>1. IsFiniteSet(cased) /\ IsFiniteSet(dashed) /\ IsFiniteSet(short)
  BY RepairAssumption, FS_Subset
<1>2. CASE name \in tools
  BY <1>2 DEF Canonical, NameFits
<1>3. CASE name \notin tools
  <2>1. ~strict
    BY <1>3 DEF Canonical
  <2>2. \/ to = Alone(cased) \/ to = Alone(dashed) \/ to = Alone(short) \/ to = packed
    BY <1>3, <2>1 DEF Canonical, Else
  <2>3. CASE to = Alone(cased)
    <3>1. PICK t \in cased : Alone(cased) = {t} /\ cased = {t}
      BY <1>1, <2>3, AloneFits
    <3>2. Even(Short(t)) = Even(Short(name))
      BY AlikeLetters, AlikeNames
    <3>3. \A u \in tools \ {t} : Lower(u) # Lower(t)
      BY <3>1
    <3> QED
      BY <2>1, <2>3, <3>1, <3>2, <3>3 DEF NameFits
  <2>4. CASE to = Alone(dashed)
    <3>1. PICK t \in dashed : Alone(dashed) = {t} /\ dashed = {t}
      BY <1>1, <2>4, AloneFits
    <3>2. Even(Short(t)) = Even(Short(name))
      BY AlikeNames
    <3>3. \A u \in tools \ {t} : Lower(u) # Lower(t)
      BY <3>1, AlikeLetters
    <3> QED
      BY <2>1, <2>4, <3>1, <3>2, <3>3 DEF NameFits
  <2>5. CASE to = Alone(short)
    <3>1. PICK t \in short : Alone(short) = {t} /\ short = {t}
      BY <1>1, <2>5, AloneFits
    <3>2. Even(Short(t)) = Even(Short(name))
      BY AlikeLetters, AlikeNames, PartsApart
    <3>3. \A u \in tools \ {t} : Lower(u) # Lower(t)
      BY <3>1
    <3> QED
      BY <2>1, <2>5, <3>1, <3>2, <3>3 DEF NameFits
  <2>6. CASE to = packed
    <3>1. PICK t \in packed : TRUE
      BY <2>6
    <3>2. packed = {t}
      BY <3>1, RepairAssumption
    <3> QED
      BY <2>1, <2>6, <3>1, <3>2 DEF NameFits
  <2> QED
    BY <2>2, <2>3, <2>4, <2>5, <2>6
<1> QED
  BY <1>2, <1>3

NameInv == naming.tools \subseteq ToolNames /\ NamesOneTool

\* The invariant of the name, and how each step keeps it.
LEMMA NameInvInit == RepairInit => NameInv
BY DEF RepairInit, NameInv, NamesOneTool

\* Each step of a repair keeps what it says of names.
LEMMA NameInvStep == NameInv /\ [RepairNext]_repairVars => NameInv'
<1> SUFFICES ASSUME NameInv, [RepairNext]_repairVars PROVE NameInv'
  OBVIOUS
<1>1. CASE Name /\ naming' # naming
  <2>1. PICK to : /\ to = Canonical(naming.name, naming.tools, naming.strict) /\ to # {}
                  /\ naming' = [naming EXCEPT !.to = to]
    BY <1>1 DEF Name
  <2>2. PICK t \in naming.tools : to = {t} /\ NameFits(t, naming.name, naming.tools, naming.strict)
    BY <2>1, CanonicalIsOne DEF NameInv
  <2>3. /\ naming'.tools = naming.tools /\ naming'.name = naming.name /\ naming'.strict = naming.strict
        /\ naming'.to \in {to, naming.to}
    BY <2>1
  <2>4. naming'.to # {} => naming'.to = to \/ naming'.to = naming.to
    BY <2>3
  <2> QED
    BY <2>2, <2>3, <2>4 DEF NameFits, NameInv, NamesOneTool
<1>2. CASE ReadArguments
  BY <1>2 DEF ReadArguments, Nameless, NameInv, NamesOneTool
<1>3. CASE UNCHANGED naming
  BY <1>3 DEF NameInv, NamesOneTool
<1> QED
  BY <1>1, <1>2, <1>3 DEF RepairNext, Name, Bring, Validate, Mend, Conclude, repairVars

-----------------------------------------------------------------------------
(* Arguments. *)

\* The value called g is one that no rule of types touches any more.
Fitting(args, g) ==
  IF g \in DOMAIN schema.types THEN OfType(args[g], schema.types[g]) ELSE g \in schema.required

\* What the model called f is now called g.
Became(args, f, g) ==
  f \in NamesOf(g) /\ Reads(call[f], args[g]) /\ (args[g] = call[f] \/ Fitting(args, g))

SaysTheSame(args) ==
  /\ DOMAIN args \subseteq GivenNames /\ args \in [DOMAIN args -> Values]
  /\ \A g \in DOMAIN args : \E f \in DOMAIN call : Became(args, f, g)
  /\ \A f \in DOMAIN call : call[f] \notin {"null", "empty"} => \E g \in DOMAIN args : Became(args, f, g)
  /\ ~repairs.coercive => \A g \in DOMAIN args :
       args[g] \in {"array", "object"} \/ \E f \in DOMAIN call : call[f] = args[g]

ArgumentInv ==
  /\ RepairTypeOK
  /\ SaysTheSame(arguments)
  /\ progress \in {"unchanged", "repaired"} => Issues(arguments) = {}

\* The issues of one kind apart.
Lacking(args) == schema.required \ DOMAIN args
Unfit(args) == {f \in DOMAIN args \intersect DOMAIN schema.types : ~OfType(args[f], schema.types[f])}
Extra(args) == schema.closed /\ ~(DOMAIN args \subseteq DOMAIN schema.types)

\* The issues of a call's arguments: of each rule its fields.
LEMMA IssuesApart ==
  ASSUME NEW args
  PROVE  /\ Issues(args) = [keyword : {"required"}, field : Lacking(args)]
                             \union [keyword : {"type"}, field : Unfit(args)]
                             \union (IF Extra(args) THEN {[keyword |-> "additionalProperties", field |-> "none"]} ELSE {})
         /\ Of("required", Issues(args)) = [keyword : {"required"}, field : Lacking(args)]
         /\ Of("type", Issues(args)) = [keyword : {"type"}, field : Unfit(args)]
<1>1. Issues(args) = [keyword : {"required"}, field : Lacking(args)]
                       \union [keyword : {"type"}, field : Unfit(args)]
                       \union (IF Extra(args) THEN {[keyword |-> "additionalProperties", field |-> "none"]} ELSE {})
  BY DEF Issues, Lacking, Unfit, Extra
<1>2. \A i \in [keyword : {"required"}, field : Lacking(args)] : i.keyword = "required"
  OBVIOUS
<1>3. \A i \in [keyword : {"type"}, field : Unfit(args)] : i.keyword = "type"
  OBVIOUS
<1>4. [keyword |-> "additionalProperties", field |-> "none"].keyword = "additionalProperties"
  OBVIOUS
<1> QED
  BY <1>1, <1>2, <1>3, <1>4 DEF Of

\* There are finitely many.
LEMMA FiniteKind ==
  ASSUME NEW k, NEW S, IsFiniteSet(S)
  PROVE  IsFiniteSet([keyword : {k}, field : S])
<1> DEFINE R == [keyword : {k}, field : S]
           g == [i \in R |-> i.field]
<1>1. \A i, j \in R : i.field = j.field => i = j
  OBVIOUS
<1>2. g \in [R -> S] /\ \A i, j \in R : g[i] = g[j] => i = j
  BY <1>1
<1>3. g \in Injection(R, S)
  <2> HIDE DEF g, R
  <2> QED
    BY <1>2 DEF Injection, IsInjective
<1> HIDE DEF g, R
<1>4. IsFiniteSet(R)
  BY <1>3, FS_Injection
<1> QED
  BY <1>4 DEF R

\* A call has finitely many issues.
LEMMA FiniteIssues ==
  ASSUME NEW args, schema \in Schemas
  PROVE  IsFiniteSet(Issues(args))
<1>1. DOMAIN schema.types \subseteq GivenNames /\ schema.required \subseteq GivenNames
  BY DEF GivenNames, Fields
<1>2. IsFiniteSet(Lacking(args)) /\ IsFiniteSet(Unfit(args))
  BY <1>1, RepairAssumption, FS_Subset DEF Lacking, Unfit
<1>4. /\ IsFiniteSet([keyword : {"required"}, field : Lacking(args)])
      /\ IsFiniteSet([keyword : {"type"}, field : Unfit(args)])
  BY <1>2, FiniteKind
<1>5. IsFiniteSet(IF Extra(args) THEN {[keyword |-> "additionalProperties", field |-> "none"]} ELSE {})
  BY FS_Singleton, FS_EmptySet
<1>6. PICK A, B, C : /\ A = [keyword : {"required"}, field : Lacking(args)]
                     /\ B = [keyword : {"type"}, field : Unfit(args)]
                     /\ C = IF Extra(args) THEN {[keyword |-> "additionalProperties", field |-> "none"]} ELSE {}
  OBVIOUS
<1>7. IsFiniteSet(A \union B \union C)
  BY <1>4, <1>5, <1>6, FS_Union
<1> QED
  BY <1>6, <1>7, IssuesApart

\* An issue that is taken up is one of a field, and of a type only when no
\* required field is missing.
LEMMA ForemostIssue ==
  ASSUME schema \in Schemas, NEW args, NEW issue \in Foremost(Issues(args))
  PROVE  /\ issue \in Issues(args)
         /\ issue.keyword = "required" => issue.field \in Lacking(args)
         /\ issue.keyword = "type" => issue.field \in Unfit(args) /\ Lacking(args) = {}
         /\ issue.keyword \in {"required", "type"} => issue.field \in Fields
<1> DEFINE open == {i \in Issues(args) : i.field \notin mended \/ i.keyword # "type"}
<1>1. issue \in open
  BY DEF Foremost, Else, Of
<1>2. issue.keyword = "type" => Of("required", open) = {}
  BY DEF Foremost, Else, Of
<1>3. Of("required", open) = Of("required", Issues(args))
  BY DEF Of
<1>4. issue \in Issues(args)
  BY <1>1
<1>5. issue.keyword = "required" => issue \in Of("required", Issues(args))
  BY <1>4 DEF Of
<1>6. issue.keyword = "type" => issue \in Of("type", Issues(args))
  BY <1>4 DEF Of
<1>7. issue.keyword = "type" => [keyword : {"required"}, field : Lacking(args)] = {}
  BY <1>2, <1>3, IssuesApart
<1>8. ASSUME issue.keyword = "required" PROVE issue.field \in Lacking(args)
  <2>1. issue \in [keyword : {"required"}, field : Lacking(args)]
    BY <1>5, <1>8, IssuesApart
  <2> QED
    BY <2>1
<1>9. ASSUME issue.keyword = "type" PROVE issue.field \in Unfit(args)
  <2>1. issue \in [keyword : {"type"}, field : Unfit(args)]
    BY <1>6, <1>9, IssuesApart
  <2> QED
    BY <2>1
<1>10. issue.keyword = "type" => Lacking(args) = {}
  <2> SUFFICES ASSUME issue.keyword = "type", NEW f \in Lacking(args) PROVE FALSE
    OBVIOUS
  <2>1. [keyword |-> "required", field |-> f] \in [keyword : {"required"}, field : Lacking(args)]
    BY Zenon
  <2> QED
    BY <2>1, <1>7
<1> QED
  BY <1>4, <1>8, <1>9, <1>10 DEF Lacking, Unfit, Fields

-----------------------------------------------------------------------------
(* What a change of the arguments keeps. *)

\* The names of an alias are names of what it is an alias of.
LEMMA NamesInTurn ==
  ASSUME NEW f, NEW a \in AliasesOf(f)
  PROVE  NamesOf(a) \subseteq NamesOf(f)
<1> SUFFICES ASSUME NEW n \in NamesOf(a), NEW names \in SUBSET GivenNames, f \in names,
                    \A m \in names : AliasesOf(m) \subseteq names
             PROVE  n \in names
  BY DEF NamesOf
<1>1. a \in names
  OBVIOUS
<1> QED
  BY <1>1 DEF NamesOf

\* A name is a name of itself.
LEMMA OwnName == ASSUME NEW f \in GivenNames PROVE f \in NamesOf(f)
BY DEF NamesOf

\* Nothing but null reads as null, and nothing but an empty object as one.
LEMMA NothingElse ==
  ASSUME NEW v, NEW w \in {"null", "empty"}, Reads(v, w)
  PROVE  v = w
<1>1. \A c \in Coerced : c[3] \notin {"null", "empty"}
  BY DEF Coerced
<1>2. <<v, w>> = <<"list text", "array">> => w = "array"
  OBVIOUS
<1>3. <<v, w>> = <<"object text", "object">> => w = "object"
  OBVIOUS
<1> QED
  BY <1>1, <1>2, <1>3 DEF Reads

\* Aliases are names that may be given.
LEMMA AliasesGiven == ASSUME NEW f PROVE AliasesOf(f) \subseteq GivenNames
BY DEF AliasesOf, GivenNames

\* A value that moves to the field it is an alias of, where there was none.
LEMMA MoveKeeps ==
  ASSUME NEW args, SaysTheSame(args), NEW f \in GivenNames, NEW a \in AliasesOf(f) \intersect DOMAIN args,
         f \in DOMAIN args => args[f] = "null", args[a] # "null",
         NEW new, new = Moved(args, a, f, args[a]), Fitting(args, a) => Fitting(new, f)
  PROVE  SaysTheSame(new)
<1>1. /\ DOMAIN new = (DOMAIN args \ {a}) \union {f} /\ a # f
      /\ new[f] = args[a]
      /\ \A g \in DOMAIN new : g # f => g \in DOMAIN args /\ new[g] = args[g]
      /\ new \in [DOMAIN new -> Values] /\ DOMAIN new \subseteq GivenNames
  BY DEF Moved, SaysTheSame
<1>2. ASSUME NEW g \in DOMAIN new, g # f, NEW x, Became(args, x, g) PROVE Became(new, x, g)
  BY <1>1, <1>2 DEF Became, Fitting
<1>3. ASSUME NEW x, Became(args, x, a) PROVE Became(new, x, f)
  BY <1>1, <1>3, NamesInTurn DEF Became
<1>4. ASSUME NEW g \in DOMAIN new PROVE \E x \in DOMAIN call : Became(new, x, g)
  BY <1>1, <1>2, <1>3 DEF SaysTheSame
<1>5. ASSUME NEW x \in DOMAIN call, call[x] \notin {"null", "empty"}
      PROVE  \E g \in DOMAIN new : Became(new, x, g)
  <2>1. PICK g \in DOMAIN args : Became(args, x, g)
    BY <1>5 DEF SaysTheSame
  <2>2. CASE g = a
    BY <1>1, <1>3, <2>1, <2>2
  <2>3. CASE g # a
    <3>1. g # f
      <4>1. SUFFICES ASSUME g = f PROVE FALSE
        OBVIOUS
      <4>2. Reads(call[x], "null")
        BY <2>1, <4>1 DEF Became
      <4> QED
        BY <1>5, <4>2, NothingElse
    <3> QED
      BY <1>1, <1>2, <2>1, <2>3, <3>1
  <2> QED
    BY <2>2, <2>3
<1>6. ASSUME ~repairs.coercive, NEW g \in DOMAIN new
      PROVE  new[g] \in {"array", "object"} \/ \E x \in DOMAIN call : call[x] = new[g]
  BY <1>1, <1>6 DEF SaysTheSame
<1> QED
  BY <1>1, <1>4, <1>5, <1>6 DEF SaysTheSame

\* A value that no longer counts is gone.
LEMMA GoneKeeps ==
  ASSUME NEW args, SaysTheSame(args), NEW f \in DOMAIN args, args[f] \in {"null", "empty"},
         NEW new, new = [g \in DOMAIN args \ {f} |-> args[g]]
  PROVE  SaysTheSame(new)
<1>1. /\ DOMAIN new = DOMAIN args \ {f}
      /\ \A g \in DOMAIN new : g \in DOMAIN args /\ new[g] = args[g]
      /\ new \in [DOMAIN new -> Values] /\ DOMAIN new \subseteq GivenNames
  BY DEF SaysTheSame
<1>2. ASSUME NEW g \in DOMAIN new, NEW x, Became(args, x, g) PROVE Became(new, x, g)
  BY <1>1, <1>2 DEF Became, Fitting
<1>4. ASSUME NEW g \in DOMAIN new PROVE \E x \in DOMAIN call : Became(new, x, g)
  BY <1>1, <1>2 DEF SaysTheSame
<1>5. ASSUME NEW x \in DOMAIN call, call[x] \notin {"null", "empty"}
      PROVE  \E g \in DOMAIN new : Became(new, x, g)
  <2>1. PICK g \in DOMAIN args : Became(args, x, g)
    BY <1>5 DEF SaysTheSame
  <2>2. g # f
    <3>1. SUFFICES ASSUME g = f PROVE FALSE
      OBVIOUS
    <3>2. Reads(call[x], args[f])
      BY <2>1, <3>1 DEF Became
    <3> QED
      BY <1>5, <3>2, NothingElse
  <2> QED
    BY <1>1, <1>2, <2>1, <2>2
<1>6. ASSUME ~repairs.coercive, NEW g \in DOMAIN new
      PROVE  new[g] \in {"array", "object"} \/ \E x \in DOMAIN call : call[x] = new[g]
  BY <1>1, <1>6 DEF SaysTheSame
<1> QED
  BY <1>1, <1>4, <1>5, <1>6 DEF SaysTheSame

\* A value that is read as its field wants it, for the first time.
LEMMA ReadingKeeps ==
  ASSUME NEW args, SaysTheSame(args), NEW f \in DOMAIN args, NEW value \in Values,
         Reads(args[f], value), ~Fitting(args, f), ~repairs.coercive => value \in {"array", "object"},
         NEW new, new = Moved(args, "none", f, value), Fitting(new, f)
  PROVE  SaysTheSame(new)
<1>1. /\ DOMAIN new = DOMAIN args
      /\ new[f] = value
      /\ \A g \in DOMAIN new : g # f => new[g] = args[g]
      /\ new \in [DOMAIN new -> Values] /\ DOMAIN new \subseteq GivenNames
  BY RepairAssumption DEF Moved, SaysTheSame
<1>2. ASSUME NEW g \in DOMAIN new, NEW x, Became(args, x, g) PROVE Became(new, x, g)
  <2>1. CASE g = f
    <3>1. args[f] = call[x]
      BY <1>2, <2>1 DEF Became
    <3> QED
      BY <1>1, <1>2, <2>1, <3>1 DEF Became
  <2>2. CASE g # f
    BY <1>1, <1>2, <2>2 DEF Became, Fitting
  <2> QED
    BY <2>1, <2>2
<1>4. ASSUME NEW g \in DOMAIN new PROVE \E x \in DOMAIN call : Became(new, x, g)
  BY <1>1, <1>2 DEF SaysTheSame
<1>5. ASSUME NEW x \in DOMAIN call, call[x] \notin {"null", "empty"}
      PROVE  \E g \in DOMAIN new : Became(new, x, g)
  BY <1>1, <1>2, <1>5 DEF SaysTheSame
<1>6. ASSUME ~repairs.coercive, NEW g \in DOMAIN new
      PROVE  new[g] \in {"array", "object"} \/ \E x \in DOMAIN call : call[x] = new[g]
  BY <1>1, <1>6 DEF SaysTheSame
<1> QED
  BY <1>1, <1>4, <1>5, <1>6 DEF SaysTheSame

-----------------------------------------------------------------------------
(* What each rule proposes, if anything. *)

\* What each rule may propose for a call that says the same.
LEMMA RenameProposes ==
  ASSUME NEW args, NEW f, NEW p, p = Rename(args, f), p # NoProposal
  PROVE  \E a \in AliasesOf(f) \intersect DOMAIN args :
           /\ p = [source |-> a, value |-> args[a]] /\ args[a] # "null"
           /\ f \in DOMAIN args => args[f] = "null"
<1> DEFINE present == {a \in AliasesOf(f) \intersect DOMAIN args : args[a] # "null"}
           b == CHOOSE x \in present : TRUE
<1>1. /\ f \in DOMAIN args => args[f] = "null"
      /\ Cardinality(present) = 1
      /\ p = [source |-> b, value |-> args[b]]
  BY DEF Rename
<1>2. IsFiniteSet(present)
  BY AliasesGiven, RepairAssumption, FS_Subset
<1>3. b \in present
  BY <1>1, <1>2, FS_Singleton
<1> QED
  BY <1>1, <1>3

\* A new value is one the field wants, and one its text was read as.
Reading(args, f, p) ==
  \E value \in Values :
    /\ p = [source |-> "none", value |-> value] /\ Reads(args[f], value)
    /\ ~repairs.coercive => value \in {"array", "object"}
    /\ OfType(value, schema.types[f])

\* Each rule's proposal reads the value that it replaces.
LEMMA DropProposes ==
  ASSUME NEW args, NEW f, NEW p, p = Drop(args, f), p # NoProposal
  PROVE  p = [source |-> "none", value |-> "gone"] /\ args[f] \in {"null", "empty"}
BY DEF Drop, Set

\* Text is read as what it spells.
LEMMA TextProposes ==
  ASSUME NEW args, NEW f, NEW p, p = ParseText(args, f), p # NoProposal
  PROVE  Reading(args, f, p)
<1>1. \/ args[f] = "list text" /\ schema.types[f] = "array" /\ p = Set("array")
      \/ args[f] = "object text" /\ schema.types[f] = "object" /\ p = Set("object")
  BY DEF ParseText
<1>2. "array" \in Values /\ "object" \in Values
  BY DEF Values
<1>3. OfType("array", "array") /\ OfType("object", "object")
  BY DEF OfType
<1> QED
  BY <1>1, <1>2, <1>3 DEF Reading, Set, Reads

\* A single value becomes the list of it.
LEMMA WrapProposes ==
  ASSUME NEW args, NEW f, NEW p, p = Wrap(args, f), p # NoProposal, repairs.coercive
  PROVE  Reading(args, f, p)
<1>1. args[f] \in Texts /\ schema.types[f] = "array" /\ p = Set("single")
  BY DEF Wrap
<1>2. "single" \in Values /\ OfType("single", "array")
  BY DEF Values, OfType
<1> QED
  BY <1>1, <1>2 DEF Reading, Set, Reads

\* A coerced value is one of the pairs.
LEMMA CoerceProposes ==
  ASSUME NEW args, NEW f, NEW p, p = Coerce(args, f), p # NoProposal, repairs.coercive
  PROVE  Reading(args, f, p)
<1>1. PICK c \in Coerced : c[1] = args[f] /\ c[2] = schema.types[f] /\ p = Set(c[3])
  BY DEF Coerce
<1>2. \/ c[2] = "string" /\ c[3] \in {"yes", "digits", "decimal"}
      \/ c[2] = "integer" /\ c[3] = "integer"
      \/ c[2] = "number" /\ c[3] \in {"whole", "real"}
      \/ c[2] = "boolean" /\ c[3] = "boolean"
  BY DEF Coerced
<1>3. c[3] \in Values /\ OfType(c[3], c[2])
  BY <1>2 DEF OfType, Values, Texts
<1> QED
  BY <1>1, <1>3 DEF Reading, Set, Reads

\* Issues of one kind are as many as the fields that have them.
LEMMA KindsOfFields ==
  ASSUME NEW k, NEW S, NEW T
  PROVE  /\ [keyword : {k}, field : S] \subseteq [keyword : {k}, field : T] => S \subseteq T
         /\ S \subseteq T => [keyword : {k}, field : S] \subseteq [keyword : {k}, field : T]
<1>1. ASSUME [keyword : {k}, field : S] \subseteq [keyword : {k}, field : T], NEW f \in S PROVE f \in T
  <2>1. PICK i : i = [keyword |-> k, field |-> f]
    OBVIOUS
  <2>2. i \in [keyword : {k}, field : S]
    BY <2>1, Zenon
  <2>3. i \in [keyword : {k}, field : T]
    BY <1>1, <2>2
  <2> QED
    BY <2>1, <2>3
<1> QED
  BY <1>1

\* A value that was read as its field wanted it moves only where it fits, too:
\* elsewhere it would leave as many issues as there were.
LEMMA MoveSettles ==
  ASSUME schema \in Schemas, NEW args, NEW f, NEW a \in DOMAIN args, a # f, Fitting(args, a),
         NEW new, new = Moved(args, a, f, args[a]),
         \/ f \in Lacking(args)
         \/ f \in Unfit(args) /\ Lacking(args) = {},
         Cardinality(Issues(new)) < Cardinality(Issues(args)),
         Of("required", Issues(args)) = {} => Of("required", Issues(new)) = {},
         Of("type", Issues(new)) \subseteq Of("type", Issues(args))
  PROVE  Fitting(new, f)
<1>1. /\ DOMAIN new = (DOMAIN args \ {a}) \union {f} /\ new[f] = args[a]
      /\ \A g \in DOMAIN new : g # f => new[g] = args[g]
  BY DEF Moved
<1>2. Unfit(new) \subseteq Unfit(args)
  <2>1. [keyword : {"type"}, field : Unfit(new)] \subseteq [keyword : {"type"}, field : Unfit(args)]
    <3>1. /\ Of("type", Issues(new)) = [keyword : {"type"}, field : Unfit(new)]
          /\ Of("type", Issues(args)) = [keyword : {"type"}, field : Unfit(args)]
      BY IssuesApart
    <3> QED
      BY <3>1
  <2>2. PICK S, T : S = Unfit(new) /\ T = Unfit(args)
    OBVIOUS
  <2>3. [keyword : {"type"}, field : S] \subseteq [keyword : {"type"}, field : T]
    BY <2>1, <2>2
  <2>4. S \subseteq T
    BY ONLY <2>3, KindsOfFields
  <2> QED
    BY <2>2, <2>4
<1>3. CASE f \in Lacking(args)
  <2>1. f \in schema.required /\ f \notin Unfit(args)
    BY <1>3 DEF Lacking, Unfit
  <2> QED
    BY <1>1, <1>2, <2>1 DEF Fitting, Unfit
<1>4. CASE f \in Unfit(args) /\ Lacking(args) = {}
  <2>1. Lacking(new) = {}
    <3>1. [keyword : {"required"}, field : Lacking(args)] = {}
      BY <1>4
    <3>2. [keyword : {"required"}, field : Lacking(new)] \subseteq [keyword : {"required"}, field : {}]
      BY <3>1, IssuesApart
    <3> QED
      BY <3>2, KindsOfFields
  <2>2. a \in DOMAIN schema.types /\ OfType(args[a], schema.types[a])
    BY <1>1, <2>1 DEF Fitting, Lacking
  <2>3. SUFFICES ASSUME ~Fitting(new, f) PROVE FALSE
    OBVIOUS
  <2>4. Unfit(args) \subseteq Unfit(new)
    BY <1>1, <1>4, <2>2, <2>3 DEF Unfit, Fitting
  <2>5. Extra(args) => Extra(new)
    BY <1>1, <2>2 DEF Extra
  <2>6. [keyword : {"type"}, field : Unfit(args)] \subseteq [keyword : {"type"}, field : Unfit(new)]
    BY <2>4, KindsOfFields
  <2>7. [keyword : {"required"}, field : Lacking(args)] \subseteq [keyword : {"required"}, field : Lacking(new)]
    BY <1>4, KindsOfFields
  <2>8. Issues(args) \subseteq Issues(new)
    BY <2>5, <2>6, <2>7, IssuesApart
  <2>9. IsFiniteSet(Issues(new))
    BY FiniteIssues
  <2>10. Cardinality(Issues(args)) <= Cardinality(Issues(new))
    BY <2>8, <2>9, FS_Subset
  <2>11. Cardinality(Issues(args)) \in Nat /\ Cardinality(Issues(new)) \in Nat
    BY FiniteIssues, FS_CardinalityType
  <2> QED
    BY <2>10, <2>11
<1> QED
  BY <1>3, <1>4

\* The rules there are.
LEMMA RulesThereAre ==
  ASSUME NEW args, NEW issue, NEW i \in DOMAIN Proposals(args, issue),
         NEW p, p = Proposals(args, issue)[i], p # NoProposal
  PROVE  /\ issue.keyword \in {"required", "type"}
         /\ \/ p = Rename(args, issue.field)
            \/ /\ issue.keyword = "type"
               /\ \/ p = Drop(args, issue.field)
                  \/ p = ParseText(args, issue.field)
                  \/ repairs.coercive /\ p = Wrap(args, issue.field)
                  \/ repairs.coercive /\ p = Coerce(args, issue.field)
<1>1. CASE issue.keyword = "required"
  BY <1>1 DEF Proposals
<1>2. CASE issue.keyword = "type"
  BY <1>2 DEF Proposals
<1>3. CASE issue.keyword \notin {"required", "type"}
  BY <1>3 DEF Proposals
<1> QED
  BY <1>1, <1>2, <1>3

\* A change that is made keeps what the model said.
LEMMA ImprovementKeeps ==
  ASSUME schema \in Schemas, NEW args, SaysTheSame(args), NEW issue \in Foremost(Issues(args)),
         NEW i \in DOMAIN Proposals(args, issue), NEW p, p = Proposals(args, issue)[i],
         Improves(args, issue.field, p)
  PROVE  SaysTheSame(Apply(args, issue.field, p)) /\ issue.field \in Fields
<1>1. PICK f : f = issue.field
  OBVIOUS
<1>2. PICK new : new = Apply(args, f, p)
  OBVIOUS
<1>3. /\ p # NoProposal
      /\ Cardinality(Issues(new)) < Cardinality(Issues(args))
      /\ Of("required", Issues(args)) = {} => Of("required", Issues(new)) = {}
      /\ Of("type", Issues(new)) \subseteq Of("type", Issues(args))
  BY <1>1, <1>2 DEF Improves
<1>4. issue.keyword \in {"required", "type"}
  BY <1>3, RulesThereAre
<1>5. /\ f \in Fields
      /\ issue.keyword = "required" => f \in Lacking(args)
      /\ issue.keyword = "type" => f \in Unfit(args) /\ Lacking(args) = {}
  BY <1>1, <1>4, ForemostIssue
<1>6. f \in GivenNames
  BY <1>5 DEF GivenNames
<1>7. CASE p = Rename(args, f)
  <2>1. PICK a \in AliasesOf(f) \intersect DOMAIN args :
          /\ p = [source |-> a, value |-> args[a]] /\ args[a] # "null"
          /\ f \in DOMAIN args => args[f] = "null"
    BY <1>3, <1>7, RenameProposes
  <2>2. args[a] # "gone" /\ a # f
    BY <2>1 DEF SaysTheSame, Values, Texts
  <2>3. new = Moved(args, a, f, args[a])
    BY <1>2, <2>1, <2>2 DEF Apply
  <2>4. Fitting(args, a) => Fitting(new, f)
    <3>1. \/ f \in Lacking(args)
          \/ f \in Unfit(args) /\ Lacking(args) = {}
      BY <1>4, <1>5
    <3> QED
      BY <1>3, <2>2, <2>3, <3>1, MoveSettles
  <2>5. SaysTheSame(new)
    BY <1>6, <2>1, <2>3, <2>4, MoveKeeps
  <2> QED
    BY <1>1, <1>2, <1>5, <2>5
<1>8. CASE issue.keyword = "type"
  <2>1. f \in DOMAIN args /\ f \in DOMAIN schema.types /\ ~OfType(args[f], schema.types[f])
    BY <1>5, <1>8 DEF Unfit
  <2>2. CASE p = Drop(args, f)
    <3>1. p = [source |-> "none", value |-> "gone"] /\ args[f] \in {"null", "empty"}
      BY <1>3, <2>2, DropProposes
    <3>2. new = [g \in DOMAIN args \ {f} |-> args[g]]
      BY <1>2, <3>1 DEF Apply
    <3>3. SaysTheSame(new)
      BY <2>1, <3>1, <3>2, GoneKeeps
    <3> QED
      BY <1>1, <1>2, <1>5, <3>3
  <2>3. CASE Reading(args, f, p)
    <3>1. PICK value \in Values :
            /\ p = [source |-> "none", value |-> value] /\ Reads(args[f], value)
            /\ ~repairs.coercive => value \in {"array", "object"}
            /\ OfType(value, schema.types[f])
      BY <2>3 DEF Reading
    <3>2. value # "gone"
      BY DEF Values, Texts
    <3>3. new = Moved(args, "none", f, value)
      BY <1>2, <3>1, <3>2 DEF Apply
    <3>4. new[f] = value
      BY <3>3 DEF Moved
    <3>5. ~Fitting(args, f) /\ Fitting(new, f)
      BY <2>1, <3>1, <3>4 DEF Fitting
    <3>6. SaysTheSame(new)
      BY <2>1, <3>1, <3>3, <3>5, ReadingKeeps
    <3> QED
      BY <1>1, <1>2, <1>5, <3>6
  <2>4. \/ p = Rename(args, f) \/ p = Drop(args, f) \/ p = ParseText(args, f)
        \/ repairs.coercive /\ p = Wrap(args, f)
        \/ repairs.coercive /\ p = Coerce(args, f)
    BY <1>1, <1>3, RulesThereAre
  <2> QED
    BY <1>3, <1>7, <2>2, <2>3, <2>4, TextProposes, WrapProposes, CoerceProposes
<1>9. issue.keyword = "type" \/ p = Rename(args, f)
  BY <1>1, <1>3, RulesThereAre
<1> QED
  BY <1>7, <1>8, <1>9

-----------------------------------------------------------------------------
(* The call as a whole. *)

\* What a step says of the arguments as they are.
LEMMA CallKept ==
  ASSUME DOMAIN call \subseteq GivenNames, call \in [DOMAIN call -> Values], arguments = call
  PROVE  SaysTheSame(arguments)
<1>1. ASSUME NEW f \in DOMAIN call PROVE Became(call, f, f)
  BY OwnName DEF Became, Reads
<1> QED
  BY <1>1 DEF SaysTheSame

\* What was kept is kept while the call and its route are the same.
LEMMA KeptSame ==
  ASSUME UNCHANGED <<repairs, schema, call>>, SaysTheSame(arguments')
  PROVE  SaysTheSame(arguments)'
<1>1. ASSUME NEW g PROVE NamesOf(g)' = NamesOf(g)
  BY DEF NamesOf, AliasesOf
<1>2. ASSUME NEW g PROVE Fitting(arguments, g)' <=> Fitting(arguments', g)
  BY DEF Fitting
<1>3. ASSUME NEW f, NEW g PROVE Became(arguments, f, g)' <=> Became(arguments', f, g)
  <2>1. call'[f] = call[f]
    OBVIOUS
  <2> QED
    BY <1>1, <1>2, <2>1 DEF Became, Reads
<1> QED
  BY <1>3 DEF SaysTheSame

\* The invariant of the arguments, and how each step keeps it.
LEMMA ArgumentInvInit == RepairInit => ArgumentInv
<1> SUFFICES ASSUME RepairInit PROVE ArgumentInv
  OBVIOUS
<1>1. RepairTypeOK
  <2>1. Strictest \in RepairPolicies
    BY DEF Strictest, RepairPolicies
  <2>2. DOMAIN Uncalled = {}
    BY DEF Uncalled
  <2>3. (CHOOSE s \in Schemas : TRUE) \in Schemas /\ 0 \in 0..MaxIterations
    BY RepairAssumption
  <2> QED
    BY <2>1, <2>2, <2>3 DEF RepairInit, RepairTypeOK
<1>2. SaysTheSame(arguments)
  BY CallKept DEF RepairInit, Uncalled
<1> QED
  BY <1>1, <1>2 DEF RepairInit, ArgumentInv

\* Each step of a repair keeps what it says of arguments.
LEMMA ArgumentInvStep == ArgumentInv /\ [RepairNext]_repairVars => ArgumentInv'
<1> SUFFICES ASSUME ArgumentInv, [RepairNext]_repairVars PROVE ArgumentInv'
  OBVIOUS
<1>1. ASSUME UNCHANGED <<repairs, schema, call, arguments>> PROVE SaysTheSame(arguments)' /\ Issues(arguments)' = Issues(arguments)
  <2>1. Issues(arguments)' = Issues(arguments)
    BY <1>1 DEF Issues
  <2>2. SaysTheSame(arguments)'
    BY <1>1, KeptSame DEF ArgumentInv
  <2> QED
    BY <2>1, <2>2
<1>2. CASE Name
  BY <1>1, <1>2 DEF Name, ArgumentInv, RepairTypeOK, Verdicts
<1>3. CASE ReadArguments
  BY <1>1, <1>3 DEF ReadArguments, ArgumentInv, RepairTypeOK, Verdicts
<1>4. CASE Bring
  <2>1. DOMAIN call' \subseteq GivenNames /\ call' \in [DOMAIN call' -> Values]
    <3>1. PICK fields \in SUBSET GivenNames : call' \in [fields -> Emitted]
      BY <1>4 DEF Bring, EmittedCalls
    <3> QED
      BY <3>1, RepairAssumption
  <2>2. SaysTheSame(arguments)'
    <3>1. \A f \in DOMAIN call' : f \in NamesOf(f)'
      BY <2>1 DEF NamesOf
    <3>2. arguments' = call'
      BY <1>4 DEF Bring
    <3>3. \A f \in DOMAIN call' : Became(arguments, f, f)'
      BY <3>1, <3>2 DEF Became, Reads
    <3> QED
      BY <2>1, <3>2, <3>3 DEF SaysTheSame
  <2> QED
    BY <1>4, <2>1, <2>2 DEF Bring, ArgumentInv, RepairTypeOK
<1>5. CASE Validate
  BY <1>1, <1>5 DEF Validate, ArgumentInv, RepairTypeOK, Verdicts
<1>6. CASE Mend
  <2>1. PICK issue \in Foremost(Issues(arguments)) :
          LET f == issue.field
              proposals == Proposals(arguments, issue)
              good == {i \in DOMAIN proposals : Improves(arguments, f, proposals[i])}
          IN  /\ good # {}
              /\ arguments' = Apply(arguments, f, proposals[Min(good)])
              /\ mended' = mended \union {f}
    BY <1>6 DEF Mend
  <2> DEFINE proposals == Proposals(arguments, issue)
             good == {i \in DOMAIN proposals : Improves(arguments, issue.field, proposals[i])}
  <2>2. DOMAIN proposals \subseteq Nat
    <3>1. issue.keyword = "required" => DOMAIN proposals = 1..1
      BY DEF Proposals
    <3>2. issue.keyword = "type" => DOMAIN proposals = 1..5
      BY DEF Proposals
    <3>3. issue.keyword \notin {"required", "type"} => DOMAIN proposals = {}
      BY DEF Proposals
    <3> QED
      BY <3>1, <3>2, <3>3
  <2>3. Min(good) \in good
    BY <2>1, <2>2, SomeMin
  <2>4. PICK p : p = proposals[Min(good)]
    OBVIOUS
  <2>5. Improves(arguments, issue.field, p) /\ Min(good) \in DOMAIN proposals
    BY <2>3, <2>4
  <2>6. schema \in Schemas /\ SaysTheSame(arguments)
    BY DEF ArgumentInv, RepairTypeOK
  <2>7. SaysTheSame(Apply(arguments, issue.field, p)) /\ issue.field \in Fields
    BY <2>4, <2>5, <2>6, ImprovementKeeps
  <2>8. arguments' = Apply(arguments, issue.field, p) /\ mended' = mended \union {issue.field}
    BY <2>1, <2>4
  <2>9. SaysTheSame(arguments')
    BY <2>7, <2>8
  <2>10. SaysTheSame(arguments)'
    <3>1. UNCHANGED <<repairs, schema, call>>
      BY <1>6 DEF Mend
    <3> QED
      BY <2>9, <3>1, KeptSame
  <2>11. RepairTypeOK'
    <3>1. DOMAIN arguments' \subseteq GivenNames /\ mended' \subseteq Fields
      BY <2>7, <2>8, <2>9 DEF SaysTheSame, ArgumentInv, RepairTypeOK
    <3>2. turns' \in 0..MaxIterations
      BY <1>6, RepairAssumption DEF Mend, ArgumentInv, RepairTypeOK
    <3> QED
      BY <1>6, <3>1, <3>2 DEF Mend, ArgumentInv, RepairTypeOK
  <2> QED
    BY <1>6, <2>10, <2>11 DEF Mend, ArgumentInv
<1>7. CASE Conclude
  BY <1>1, <1>7 DEF Conclude, ArgumentInv, RepairTypeOK, Verdicts
<1>8. CASE UNCHANGED repairVars
  BY <1>1, <1>8 DEF repairVars, ArgumentInv, RepairTypeOK
<1> QED
  BY <1>2, <1>3, <1>4, <1>5, <1>6, <1>7, <1>8 DEF RepairNext

\* The two invariants imply what is promised of a repair.
LEMMA RepairInvSound == NameInv /\ ArgumentInv => RepairSound
BY DEF NameInv, ArgumentInv, SaysTheSame, Became, RepairSound, ValuesKept

-----------------------------------------------------------------------------
(* The surface shows declared tools only. *)

Taken(S, s, t) == IF t \in S THEN Append(s, t) ELSE s
InOrderBy(g, S) ==
  g = [d \in SUBSET DOMAIN ToolOrder |->
         IF d = {} THEN <<>> ELSE Taken(S, g[d \ {Max(d)}], ToolOrder[Max(d)])]

\* The fold, by its definition.
LEMMA InOrderTakenFolds ==
  ASSUME NEW S
  PROVE  InOrder(S) = (CHOOSE g : InOrderBy(g, S))[DOMAIN ToolOrder]
BY DEF InOrder, FoldLeft, MapThenFoldSet, InOrderBy, Taken

\* The tools of a set, in order, are of the set.
LEMMA InOrderTaken ==
  ASSUME NEW S
  PROVE  InOrder(S) \in Seq(S)
<1> DEFINE A == Seq(S)
           X == ToSet(ToolOrder)
           step == [p \in A \X X |-> Taken(S, p[1], p[2])]
<1>1. PICK n \in Nat : n = Len(ToolOrder) /\ DOMAIN ToolOrder = 1 .. n /\ \A i \in 1 .. n : ToolOrder[i] \in X
  BY PreparationAssumption
<1>2. \A a \in A, t \in X : Taken(S, a, t) \in A
  BY DEF Taken
<1>3. <<>> \in A /\ step \in [A \X X -> A]
  BY <1>2
<1>4. \A a \in A, t \in X : step[<<a, t>>] = Taken(S, a, t)
  OBVIOUS
<1> HIDE DEF A, X, step
<1>5. ASSUME NEW g PROVE InOrderBy(g, S) => Steps(g, step, A, <<>>, ToolOrder, n)
  <2> SUFFICES ASSUME InOrderBy(g, S), NEW d \in SUBSET (1 .. n), d # {}, g[d \ {Max(d)}] \in A
               PROVE  g[d] = step[<<g[d \ {Max(d)}], ToolOrder[Max(d)]>>]
    BY <1>1 DEF InOrderBy, Steps
  <2>1. g[d] = Taken(S, g[d \ {Max(d)}], ToolOrder[Max(d)])
    BY <1>1 DEF InOrderBy
  <2>2. Max(d) \in 1 .. n
    BY SomeMax
  <2> QED
    BY <2>1, <2>2, <1>1, <1>4
<1>6. PICK h \in [SUBSET (1 .. n) -> A] : Steps(h, step, A, <<>>, ToolOrder, n)
  <2>1. Folds(step, A, <<>>, ToolOrder, n)
    BY <1>1, <1>3, StepsExist
  <2> QED
    BY <2>1 DEF Folds
<1>7. InOrderBy(h, S)
  <2>1. ASSUME NEW d \in SUBSET (1 .. n)
        PROVE  h[d] = IF d = {} THEN <<>> ELSE Taken(S, h[d \ {Max(d)}], ToolOrder[Max(d)])
    <3>1. CASE d = {}
      BY <3>1, <1>6 DEF Steps
    <3>2. CASE d # {}
      <4>1. Max(d) \in 1 .. n
        BY <3>2, SomeMax
      <4>2. h[d \ {Max(d)}] \in A
        BY <1>6
      <4>3. h[d] = step[<<h[d \ {Max(d)}], ToolOrder[Max(d)]>>]
        BY <3>2, <4>2, <1>6 DEF Steps
      <4> QED
        BY <3>2, <4>1, <4>2, <4>3, <1>1, <1>4
    <3> QED
      BY <3>1, <3>2
  <2>2. h = [d \in SUBSET (1 .. n) |-> h[d]]
    BY <1>6
  <2> QED
    BY <2>1, <2>2, <1>1 DEF InOrderBy
<1>8. PICK g : g = CHOOSE f : InOrderBy(f, S)
  OBVIOUS
<1>9. Steps(g, step, A, <<>>, ToolOrder, n)
  BY <1>5, <1>7, <1>8
<1>10. g[1 .. n] \in A
  BY <1>1, <1>3, <1>9, StepsTyped
<1> QED
  BY <1>1, <1>8, <1>10, InOrderTakenFolds DEF A

\* Putting one more member anywhere in a sequence.
LEMMA InsertKeeps ==
  ASSUME NEW S, NEW s \in Seq(S), NEW t \in S, NEW k \in 1 .. Len(s) + 1
  PROVE  InsertAt(s, k, t) \in Seq(S)
<1>1. SubSeq(s, 1, k - 1) \in Seq(S)
  OBVIOUS
<1>2. SubSeq(s, k, Len(s)) \in Seq(S)
  OBVIOUS
<1>3. PICK a \in Seq(S), b \in Seq(S) : a = SubSeq(s, 1, k - 1) /\ b = SubSeq(s, k, Len(s))
  BY <1>1, <1>2
<1>4. a \o <<t>> \in Seq(S)
  OBVIOUS
<1>5. a \o <<t>> \o b \in Seq(S)
  BY <1>4
<1> QED
  BY <1>3, <1>5 DEF InsertAt

Ranking(score, s, t) == InsertAt(s, Cardinality({i \in DOMAIN s : score[s[i]] >= score[t]}) + 1, t)
RankedBy(g, S, score) ==
  g = [d \in SUBSET DOMAIN InOrder(S) |->
         IF d = {} THEN <<>> ELSE Ranking(score, g[d \ {Max(d)}], InOrder(S)[Max(d)])]

\* The fold, by its definition.
LEMMA RankedTakenFolds ==
  ASSUME NEW S, NEW score
  PROVE  Ranked(S, score) = (CHOOSE g : RankedBy(g, S, score))[DOMAIN InOrder(S)]
BY DEF Ranked, FoldLeft, MapThenFoldSet, RankedBy, Ranking

\* Ranked, they still are.
LEMMA RankedTaken ==
  ASSUME NEW S, NEW score
  PROVE  Ranked(S, score) \in Seq(S)
<1> DEFINE A == Seq(S)
           X == S
           step == [p \in A \X X |-> Ranking(score, p[1], p[2])]
<1>1. PICK n \in Nat : n = Len(InOrder(S)) /\ DOMAIN InOrder(S) = 1 .. n /\ \A i \in 1 .. n : InOrder(S)[i] \in X
  BY InOrderTaken
<1>2. ASSUME NEW a \in A, NEW t \in X PROVE Ranking(score, a, t) \in A
  <2> DEFINE D == {i \in DOMAIN a : score[a[i]] >= score[t]}
  <2>1. IsFiniteSet(DOMAIN a) /\ Cardinality(DOMAIN a) = Len(a)
    <3>1. PICK len : len = Len(a)
      OBVIOUS
    <3>2. DOMAIN a = 1 .. len /\ len \in Nat
      BY <3>1
    <3>3. 1 \in Int /\ len \in Int
      BY <3>2
    <3>4. IsFiniteSet(1 .. len) /\ Cardinality(1 .. len) = IF 1 > len THEN 0 ELSE len - 1 + 1
      BY <3>3, FS_Interval
    <3>5. Cardinality(1 .. len) = len
      BY <3>2, <3>4
    <3> QED
      BY <3>1, <3>2, <3>4, <3>5
  <2>2. Cardinality(D) \in Nat /\ Cardinality(D) <= Len(a)
    <3>1. D \subseteq DOMAIN a
      OBVIOUS
    <3> HIDE DEF D
    <3> QED
      BY <2>1, <3>1, FS_Subset, FS_CardinalityType
  <2>3. Cardinality(D) + 1 \in 1 .. Len(a) + 1
    BY <2>2
  <2>4. PICK k \in 1 .. Len(a) + 1 : k = Cardinality(D) + 1
    BY <2>3
  <2>5. InsertAt(a, k, t) \in Seq(S)
    BY InsertKeeps
  <2> QED
    BY <2>4, <2>5 DEF Ranking
<1>3. <<>> \in A /\ step \in [A \X X -> A]
  BY <1>2
<1>4. \A a \in A, t \in X : step[<<a, t>>] = Ranking(score, a, t)
  OBVIOUS
<1> HIDE DEF A, X, step
<1>5. ASSUME NEW g PROVE RankedBy(g, S, score) => Steps(g, step, A, <<>>, InOrder(S), n)
  <2> SUFFICES ASSUME RankedBy(g, S, score), NEW d \in SUBSET (1 .. n), d # {}, g[d \ {Max(d)}] \in A
               PROVE  g[d] = step[<<g[d \ {Max(d)}], InOrder(S)[Max(d)]>>]
    BY <1>1 DEF RankedBy, Steps
  <2>1. g[d] = Ranking(score, g[d \ {Max(d)}], InOrder(S)[Max(d)])
    BY <1>1 DEF RankedBy
  <2>2. Max(d) \in 1 .. n
    BY SomeMax
  <2> QED
    BY <2>1, <2>2, <1>1, <1>4
<1>6. PICK h \in [SUBSET (1 .. n) -> A] : Steps(h, step, A, <<>>, InOrder(S), n)
  <2>1. Folds(step, A, <<>>, InOrder(S), n)
    BY <1>1, <1>3, StepsExist
  <2> QED
    BY <2>1 DEF Folds
<1>7. RankedBy(h, S, score)
  <2>1. ASSUME NEW d \in SUBSET (1 .. n)
        PROVE  h[d] = IF d = {} THEN <<>> ELSE Ranking(score, h[d \ {Max(d)}], InOrder(S)[Max(d)])
    <3>1. CASE d = {}
      BY <3>1, <1>6 DEF Steps
    <3>2. CASE d # {}
      <4>1. Max(d) \in 1 .. n
        BY <3>2, SomeMax
      <4>2. h[d \ {Max(d)}] \in A
        BY <1>6
      <4>3. h[d] = step[<<h[d \ {Max(d)}], InOrder(S)[Max(d)]>>]
        BY <3>2, <4>2, <1>6 DEF Steps
      <4> QED
        BY <3>2, <4>1, <4>2, <4>3, <1>1, <1>4
    <3> QED
      BY <3>1, <3>2
  <2>2. h = [d \in SUBSET (1 .. n) |-> h[d]]
    BY <1>6
  <2> QED
    BY <2>1, <2>2, <1>1 DEF RankedBy
<1>8. PICK g : g = CHOOSE f : RankedBy(f, S, score)
  OBVIOUS
<1>9. Steps(g, step, A, <<>>, InOrder(S), n)
  BY <1>5, <1>7, <1>8
<1>10. g[1 .. n] \in A
  BY <1>1, <1>3, <1>9, StepsTyped
<1> QED
  BY <1>1, <1>8, <1>10, RankedTakenFolds DEF A
Holding(budget, kept, t) == IF CostOf(Append(kept, t)) > budget THEN kept ELSE Append(kept, t)
BudgetedBy(g, s, budget) ==
  g = [d \in SUBSET DOMAIN s |->
         IF d = {} THEN <<>> ELSE Holding(budget, g[d \ {Max(d)}], s[Max(d)])]

\* The fold, by its definition.
LEMMA BudgetedTakenFolds ==
  ASSUME NEW s, NEW budget
  PROVE  Budgeted(s, budget) = (CHOOSE g : BudgetedBy(g, s, budget))[DOMAIN s]
BY DEF Budgeted, FoldLeft, MapThenFoldSet, BudgetedBy, Holding

\* The budget adds none.
LEMMA BudgetedTaken ==
  ASSUME NEW S, NEW s \in Seq(S), NEW budget
  PROVE  Budgeted(s, budget) \in Seq(S)
<1> DEFINE A == Seq(S)
           X == S
           step == [p \in A \X X |-> Holding(budget, p[1], p[2])]
<1>1. PICK n \in Nat : n = Len(s) /\ DOMAIN s = 1 .. n /\ \A i \in 1 .. n : s[i] \in X
  OBVIOUS
<1>2. \A a \in A, t \in X : Holding(budget, a, t) \in A
  BY DEF Holding
<1>3. <<>> \in A /\ step \in [A \X X -> A]
  BY <1>2
<1>4. \A a \in A, t \in X : step[<<a, t>>] = Holding(budget, a, t)
  OBVIOUS
<1> HIDE DEF A, X, step
<1>5. ASSUME NEW g PROVE BudgetedBy(g, s, budget) => Steps(g, step, A, <<>>, s, n)
  <2> SUFFICES ASSUME BudgetedBy(g, s, budget), NEW d \in SUBSET (1 .. n), d # {}, g[d \ {Max(d)}] \in A
               PROVE  g[d] = step[<<g[d \ {Max(d)}], s[Max(d)]>>]
    BY <1>1 DEF BudgetedBy, Steps
  <2>1. g[d] = Holding(budget, g[d \ {Max(d)}], s[Max(d)])
    BY <1>1 DEF BudgetedBy
  <2>2. Max(d) \in 1 .. n
    BY SomeMax
  <2> QED
    BY <2>1, <2>2, <1>1, <1>4
<1>6. PICK h \in [SUBSET (1 .. n) -> A] : Steps(h, step, A, <<>>, s, n)
  <2>1. Folds(step, A, <<>>, s, n)
    BY <1>1, <1>3, StepsExist
  <2> QED
    BY <2>1 DEF Folds
<1>7. BudgetedBy(h, s, budget)
  <2>1. ASSUME NEW d \in SUBSET (1 .. n)
        PROVE  h[d] = IF d = {} THEN <<>> ELSE Holding(budget, h[d \ {Max(d)}], s[Max(d)])
    <3>1. CASE d = {}
      BY <3>1, <1>6 DEF Steps
    <3>2. CASE d # {}
      <4>1. Max(d) \in 1 .. n
        BY <3>2, SomeMax
      <4>2. h[d \ {Max(d)}] \in A
        BY <1>6
      <4>3. h[d] = step[<<h[d \ {Max(d)}], s[Max(d)]>>]
        BY <3>2, <4>2, <1>6 DEF Steps
      <4> QED
        BY <3>2, <4>1, <4>2, <4>3, <1>1, <1>4
    <3> QED
      BY <3>1, <3>2
  <2>2. h = [d \in SUBSET (1 .. n) |-> h[d]]
    BY <1>6
  <2> QED
    BY <2>1, <2>2, <1>1 DEF BudgetedBy
<1>8. PICK g : g = CHOOSE f : BudgetedBy(f, s, budget)
  OBVIOUS
<1>9. Steps(g, step, A, <<>>, s, n)
  BY <1>5, <1>7, <1>8
<1>10. g[1 .. n] \in A
  BY <1>1, <1>3, <1>9, StepsTyped
<1> QED
  BY <1>1, <1>8, <1>10, BudgetedTakenFolds DEF A

\* Whatever is visible is declared.
LEMMA VisibleDeclared ==
  ASSUME NEW a, NEW p, p.most \in Nat
  PROVE  Visible(a, p) \in Seq(a.tools)
<1>1. Chosen(a, p) \in Seq(a.tools)
  <2> DEFINE C == a.tools \ p.deny
             r == Ranked(C, a.score)
             m == Min({p.most, Len(r)})
  <2>1. InOrder(C) \in Seq(C) /\ r \in Seq(C)
    BY InOrderTaken, RankedTaken
  <2>2. \A s \in Seq(C) : s \in Seq(a.tools)
    OBVIOUS
  <2>3. Len(r) \in Nat
    BY <2>1
  <2>4. m \in 0 .. Len(r)
    <3>1. {p.most, Len(r)} \in SUBSET Nat
      BY <2>3
    <3>2. m \in {p.most, Len(r)} /\ m <= Len(r)
      BY <3>1, SomeMin
    <3> HIDE DEF r
    <3> QED
      BY <2>3, <3>1, <3>2
  <2> HIDE DEF m
  <2>5. SubSeq(r, 1, m) \in Seq(a.tools)
    <3>1. PICK w \in Seq(a.tools) : w = r
      BY <2>1, <2>2
    <3>2. PICK k \in 0 .. Len(w) : k = m
      BY <2>4, <3>1
    <3>3. SubSeq(w, 1, k) \in Seq(a.tools)
      <4>1. k \in Int /\ 1 \in Int /\ \A i \in 1 .. k : w[i] \in a.tools
        OBVIOUS
      <4> QED
        BY <4>1, SubSeqProperties
    <3> QED
      BY <3>1, <3>2, <3>3
  <2>6. InOrder(C) \in Seq(a.tools)
    BY <2>1, <2>2
  <2> QED
    BY <2>5, <2>6 DEF Chosen, m
<1>2. Budgeted(Chosen(a, p), p.budget) \in Seq(a.tools)
  BY <1>1, BudgetedTaken
<1>3. <<>> \in Seq(a.tools) /\ (a.named \in a.tools => <<a.named>> \in Seq(a.tools))
  <2>1. ASSUME NEW T, NEW x \in T PROVE <<x>> \in Seq(T)
    OBVIOUS
  <2>2. ASSUME NEW T PROVE <<>> \in Seq(T)
    OBVIOUS
  <2> QED
    BY <2>1, <2>2, Zenon
<1> QED
  BY <1>1, <1>2, <1>3 DEF Visible

-----------------------------------------------------------------------------
(* The invariant. *)

Stages == {"new", "virtualizing", "paging", "summarizing", "projecting", "ready", "sent",
           "streaming", "answered", "ended", "refused"}
Going == {"projecting", "ready", "sent", "streaming", "answered"}
Rungs ==
  [kind : {"native_tools", "chat_only", "prompted_tools", "constrained_json", "forced_selection",
           "controller_mediated"},
   mode : ToolModes \cup {"auto"}]
Forcing == {r \in Rungs : r.mode \in {"native", "prompted"}}
ByName == ask.choice = "named"

\* What the request holds: each kind of content is somewhere, or summarized by
\* a controller.
ContentKept ==
  /\ left \subseteq {"results", "turns"} /\ stored \cap left = {}
  /\ "results" \in left \cup stored
  /\ ~policy.controlled => "turns" \in left \cup stored

\* A request that goes on declared nothing reserved, shows what it declared,
\* the tool it names among it, fits, and is forced by all of its rungs or by
\* none.
GoingSound ==
  stage \in Going =>
    /\ ask.tools \cap Reserved = {}
    /\ surface.visible \in Seq(ask.tools) /\ surface.withheld \subseteq ask.tools
    /\ ByName => ask.named \in ToSet(surface.visible) /\ ladder \in Seq(Forcing)
    /\ surface.visible = Visible(ask, policy)
    /\ Fits(serving, left, stored, surface.visible)

\* The plan of the preparation.
PlanKept ==
  stage \in {"projecting", "ready"} =>
    /\ plan.listed \cup plan.upstream \subseteq ask.tools /\ plan.private = {}
    /\ plan.listed # {} => plan.mode = "prompted"
    /\ ByName => /\ plan.mode \in {"native", "prompted"}
                 /\ plan.mode = "prompted" => ask.named \in plan.listed
                 /\ plan.mode = "native" => policy.codecNative
                 /\ policy.codecNative => ask.named \in plan.upstream

\* What the projection offers natively.
OfferKept ==
  stage \in Going \ {"projecting"} =>
    /\ offered \subseteq ask.tools \cup enabled
    /\ ByName /\ policy.codecNative => ask.named \in offered

PrepInv ==
  /\ PrepTypeOK /\ policy \in Policies
  /\ {"observed", "configured", "ceiling"} \subseteq DOMAIN serving
  /\ enabled \subseteq {"read_result", "get_tool_schema"} /\ ladder \in Seq(Rungs)
  /\ ContentKept /\ GoingSound /\ PlanKept /\ OfferKept
  /\ NoNativeLeak /\ OfferedAuthorised /\ NamedOffered

\* A plan has a mode the codec supports, and lists what is shown in one form.
LEMMA PlanOf ==
  ASSUME NEW m \in ToolModes \cup {"auto"}, NEW shown, NEW caps \in SUBSET {"read_result", "get_tool_schema"},
         NEW p, p = InvocationPlan(m, shown, caps)
  PROVE  /\ p.mode \in ToolModes
         /\ p.mode = "native" => policy.codecNative
         /\ m \in {"native", "prompted"} => p.mode \in {"native", "prompted"}
         /\ m = "native" /\ policy.codecNative => p.mode = "native"
         /\ p.upstream = IF p.mode = "native" THEN ToSet(shown) ELSE {}
         /\ p.listed = IF p.mode = "prompted" /\ shown # <<>> THEN ToSet(shown) ELSE {}
         /\ p.private \subseteq caps
<1>1. Mode(m) \in ToolModes /\ (Mode(m) = "native" => policy.codecNative)
  BY DEF Mode, ToolModes
<1>2. m \in {"native", "prompted"} => Mode(m) \in {"native", "prompted"}
  BY DEF Mode
<1>3. m = "native" /\ policy.codecNative => Mode(m) = "native"
  BY DEF Mode
<1>4. PrivateTools(caps) = caps
  BY DEF PrivateTools
<1>5. /\ p.mode = Mode(m)
      /\ p.upstream = IF Mode(m) = "native" THEN ToSet(shown) ELSE {}
      /\ p.listed = IF Mode(m) = "prompted" /\ shown # <<>> THEN ToSet(shown) ELSE {}
      /\ p.private = IF Mode(m) = "prompted" /\ shown # <<>> THEN PrivateTools(caps) ELSE {}
  BY DEF InvocationPlan
<1> QED
  BY <1>1, <1>2, <1>3, <1>4, <1>5

\* The ladder is of rungs; a forced choice of a tool climbs native or prompted
\* ones, the native one first.
LEMMA LadderOf ==
  ASSUME policy \in Policies, NEW s, NEW fits
  PROVE  /\ Ladder(s, fits) \in Seq(Rungs)
         /\ Explicit /\ ask.tools # {} =>
              /\ Ladder(s, fits) \in Seq(Forcing)
              /\ Ladder(s, fits) # <<>> => Ladder(s, fits)[1].mode = "native"
<1>1. /\ Rung("native_tools", "native") \in Forcing /\ Rung("prompted_tools", "prompted") \in Forcing
      /\ Rung("constrained_json", "prompted") \in Forcing /\ Rung("forced_selection", "prompted") \in Forcing
      /\ Rung("chat_only", "disabled") \in Rungs /\ Rung("controller_mediated", policy.mode) \in Rungs
  BY PreparationAssumption DEF Rung, Rungs, Forcing, ToolModes
<1>2. Forcing \subseteq Rungs /\ Rung("native_tools", "native").mode = "native"
  BY DEF Forcing, Rung
<1> DEFINE native == Rung("native_tools", "native")
           chat == Rung("chat_only", "disabled")
           p1 == Rung("prompted_tools", "prompted")
           p2 == Rung("constrained_json", "prompted")
           p3 == Rung("forced_selection", "prompted")
           c == Rung("controller_mediated", policy.mode)
<1>3. Direct(s) \in {<<>>, <<native>>, <<chat>>} /\ (Explicit /\ ask.tools # {} => Direct(s) = <<native>>)
  BY DEF Direct
<1>4. Adapted(s) \in Seq(Forcing)
  <2> HIDE DEF p1, p2, p3
  <2>1. \A x \in Forcing : <<x>> \in Seq(Forcing)
    OBVIOUS
  <2>2. \A x, y \in Seq(Forcing) : x \o y \in Seq(Forcing)
    OBVIOUS
  <2>3. <<>> \in Seq(Forcing)
    OBVIOUS
  <2>4. p1 \in Forcing /\ p2 \in Forcing /\ p3 \in Forcing
    BY <1>1 DEF p1, p2, p3
  <2>5. PICK x, y : /\ x = IF s.constrained THEN <<p2>> ELSE <<>>
                    /\ y = IF ask.choice = "auto" /\ s.forced THEN <<p3>> ELSE <<>>
    OBVIOUS
  <2>6. x \in Seq(Forcing) /\ y \in Seq(Forcing)
    BY <2>1, <2>3, <2>4, <2>5
  <2>7. <<p1>> \o x \o y \in Seq(Forcing)
    BY <2>1, <2>2, <2>4, <2>6
  <2>8. Adapted(s) = <<>> \/ Adapted(s) = <<p1>> \o x \o y
    BY <2>5 DEF Adapted, p1, p2, p3
  <2> QED
    BY <2>3, <2>7, <2>8
<1>5. Controlled \in {<<>>, <<c>>} /\ (Explicit => Controlled = <<>>)
  BY DEF Controlled
<1> HIDE DEF native, chat, p1, p2, p3, c
<1>6. PICK d, a, k : d = Direct(s) /\ a = Adapted(s) /\ k = Controlled
  OBVIOUS
<1>7. native \in Forcing /\ chat \in Rungs /\ c \in Rungs /\ native.mode = "native"
  BY <1>1, <1>2 DEF native, chat, c
<1>8. d \in Seq(Rungs) /\ a \in Seq(Rungs) /\ k \in Seq(Rungs)
  <2>1. \A x \in Rungs : <<x>> \in Seq(Rungs)
    OBVIOUS
  <2>2. <<>> \in Seq(Rungs)
    OBVIOUS
  <2>3. d \in Seq(Rungs) /\ k \in Seq(Rungs)
    BY <2>1, <2>2, <1>2, <1>3, <1>5, <1>6, <1>7
  <2>4. \A x \in Seq(Forcing) : x \in Seq(Rungs)
    BY <1>2
  <2> QED
    BY <2>3, <2>4, <1>4, <1>6
<1>9. \/ Ladder(s, fits) = d \o a \o k
      \/ Ladder(s, fits) = (IF Explicit /\ d # <<>> THEN d ELSE a) \o k
      \/ Ladder(s, fits) = k
  BY <1>6 DEF Ladder
<1>10. Ladder(s, fits) \in Seq(Rungs)
  <2>1. \A x, y \in Seq(Rungs) : x \o y \in Seq(Rungs)
    OBVIOUS
  <2>2. d \o a \o k \in Seq(Rungs) /\ d \o k \in Seq(Rungs) /\ a \o k \in Seq(Rungs)
    BY <2>1, <1>8
  <2> QED
    BY <2>2, <1>8, <1>9
<1>11. ASSUME Explicit, ask.tools # {}
       PROVE  /\ Ladder(s, fits) \in Seq(Forcing)
              /\ Ladder(s, fits) # <<>> => Ladder(s, fits)[1].mode = "native"
  <2>1. d = <<native>> /\ k = <<>> /\ a \in Seq(Forcing)
    BY <1>3, <1>4, <1>5, <1>6, <1>11 DEF native
  <2>2. d # <<>>
    BY <2>1
  <2>3. \/ Ladder(s, fits) = <<native>> \o a \o <<>>
        \/ Ladder(s, fits) = <<native>> \o <<>>
        \/ Ladder(s, fits) = <<>>
    BY <2>1, <2>2, <1>9, <1>11
  <2>4. <<native>> \o a \o <<>> \in Seq(Forcing) /\ (<<native>> \o a \o <<>>)[1] = native
    BY <2>1, <1>7
  <2>5. <<native>> \o <<>> \in Seq(Forcing) /\ (<<native>> \o <<>>)[1] = native
    BY <1>7
  <2>6. <<>> \in Seq(Forcing)
    OBVIOUS
  <2> QED
    BY <2>3, <2>4, <2>5, <2>6, <1>7
<1> QED
  BY <1>10, <1>11

\* The rung that is taken and those that are left, whichever is moved first.
LEMMA PromotedKeeps ==
  ASSUME NEW R, NEW l \in Seq(R), NEW i \in DOMAIN l
  PROVE  /\ l[i] \in R
         /\ Promoted(l, i)[1] = l[i]
         /\ Tail(Promoted(l, i)) \in Seq(R)
<1>1. i \in 1 .. Len(l) /\ Len(l) \in Nat
  OBVIOUS
<1>2. SubSeq(l, 1, i - 1) \in Seq(R) /\ SubSeq(l, i + 1, Len(l)) \in Seq(R)
  <2>1. 1 \in Int /\ i - 1 \in Int /\ i + 1 \in Int /\ Len(l) \in Int
    BY <1>1
  <2>2. (\A j \in 1 .. i - 1 : l[j] \in R) /\ (\A j \in i + 1 .. Len(l) : l[j] \in R)
    BY <1>1
  <2>3. SubSeq(l, 1, i - 1) \in Seq(R)
    BY <2>1, <2>2, SubSeqProperties
  <2>4. SubSeq(l, i + 1, Len(l)) \in Seq(R)
    BY <2>1, <2>2, SubSeqProperties
  <2> QED
    BY <2>3, <2>4
<1>3. RemoveAt(l, i) \in Seq(R)
  <2>1. \A x, y \in Seq(R) : x \o y \in Seq(R)
    OBVIOUS
  <2> QED
    BY <2>1, <1>2 DEF RemoveAt
<1>4. PICK r \in Seq(R), h \in R : r = RemoveAt(l, i) /\ h = l[i]
  BY <1>1, <1>3
<1>5. (<<h>> \o r)[1] = h /\ Tail(<<h>> \o r) = r
  OBVIOUS
<1> QED
  BY <1>1, <1>4, <1>5 DEF Promoted

\* A plan that is accepted: what PlannedWith leaves behind.
LEMMA PlannedSound ==
  ASSUME policy \in Policies, NEW s, NEW kinds, NEW refs, NEW upcoming, PlannedWith(s, kinds, refs, upcoming)
  PROVE  /\ surface' = Surface /\ ladder' \in Seq(Rungs)
         /\ Surface.visible = Visible(ask, policy) /\ Surface.visible \in Seq(ask.tools)
         /\ Surface.withheld \subseteq ask.tools
         /\ plan'.mode \in ToolModes \cup {"none"}
         /\ stage' \in {"refused", "projecting", upcoming}
         /\ stage' = "projecting" /\ (upcoming # "projecting" \/ ladder' # <<>>) =>
              /\ upcoming # "projecting" => Fits(s, kinds, refs, Visible(ask, policy))
              /\ ask.tools \cap Reserved = {}
              /\ ByName => ask.named \in ToSet(Surface.visible) /\ ladder' \in Seq(Forcing)
              /\ plan'.listed \cup plan'.upstream \subseteq ask.tools /\ plan'.private = {}
              /\ plan'.listed # {} => plan'.mode = "prompted"
              /\ ByName => /\ plan'.mode \in {"native", "prompted"}
                           /\ plan'.mode = "prompted" => ask.named \in plan'.listed
                           /\ plan'.mode = "native" => policy.codecNative
                           /\ policy.codecNative => ask.named \in plan'.upstream
<1> DEFINE shown == Surface.visible
           fits == Fits(s, kinds, refs, shown)
           attempts == Ladder(s, fits)
           refused == \/ ask.stream /\ ~contract.streams
                      \/ ContractIssues(attempts[1].mode, shown)
                      \/ NameCollision
           p == InvocationPlan(attempts[1].mode, shown, {})
<1>1. /\ shown = Visible(ask, policy) /\ shown \in Seq(ask.tools)
      /\ Surface.withheld \subseteq ask.tools
  BY VisibleDeclared, PreparationAssumption DEF Surface
<1>2. ToSet(shown) \subseteq ask.tools
  BY <1>1 DEF ToSet
<1>3. /\ attempts \in Seq(Rungs)
      /\ Explicit /\ ask.tools # {} =>
           attempts \in Seq(Forcing) /\ (attempts # <<>> => attempts[1].mode = "native")
  BY LadderOf
<1>4. /\ surface' = Surface /\ ladder' = attempts
      /\ \/ attempts = <<>> /\ plan' = NoPlan /\ stage' = IF fits THEN "refused" ELSE upcoming
         \/ attempts # <<>> /\ refused /\ plan' = NoPlan /\ stage' = "refused"
         \/ attempts # <<>> /\ ~refused /\ plan' = p /\ stage' = IF fits THEN "projecting" ELSE upcoming
  BY DEF PlannedWith
<1> HIDE DEF shown, fits, attempts, refused, p
<1>5. ASSUME attempts # <<>>
      PROVE  /\ p.mode \in ToolModes
             /\ p.mode = "native" => policy.codecNative
             /\ attempts[1].mode \in {"native", "prompted"} => p.mode \in {"native", "prompted"}
             /\ attempts[1].mode = "native" /\ policy.codecNative => p.mode = "native"
             /\ p.upstream = IF p.mode = "native" THEN ToSet(shown) ELSE {}
             /\ p.listed = IF p.mode = "prompted" /\ shown # <<>> THEN ToSet(shown) ELSE {}
             /\ p.private \subseteq {}
  <2>1. PICK m : m = attempts[1].mode
    OBVIOUS
  <2>2. m \in ToolModes \cup {"auto"}
    <3>1. attempts[1] \in Rungs
      BY <1>3, <1>5
    <3> QED
      BY <3>1, <2>1 DEF Rungs
  <2>3. p = InvocationPlan(m, shown, {}) /\ {} \in SUBSET {"read_result", "get_tool_schema"}
    BY <2>1 DEF p
  <2> QED
    BY <2>1, <2>2, <2>3, PlanOf
<1>6. plan'.mode \in ToolModes \cup {"none"}
  BY <1>4, <1>5 DEF NoPlan
<1>7. stage' \in {"refused", "projecting", upcoming}
  BY <1>4
<1>8. ASSUME stage' = "projecting", upcoming # "projecting" \/ ladder' # <<>>
      PROVE  /\ attempts # <<>> /\ ~refused /\ plan' = p /\ (upcoming # "projecting" => fits)
  BY <1>4, <1>8
<1>9. ASSUME attempts # <<>>, ~refused, ByName
      PROVE  /\ ask.named \in ToSet(shown) /\ attempts \in Seq(Forcing) /\ attempts[1].mode = "native"
             /\ shown # <<>>
  <2>1. ask.named \in ask.tools
    BY <1>2, <1>9 DEF refused, ContractIssues, ByName
  <2>2. Visible(ask, policy) = <<ask.named>>
    BY <2>1, <1>9 DEF Visible, ByName
  <2>3. ask.named \in ToSet(shown) /\ shown # <<>>
    BY <2>2, <1>1 DEF ToSet
  <2>4. Explicit
    BY <1>9 DEF Explicit, ByName
  <2> QED
    BY <2>1, <2>3, <2>4, <1>3, <1>9
<1>10. ~refused => ask.tools \cap Reserved = {}
  BY DEF refused, NameCollision
<1>11. ASSUME stage' = "projecting", upcoming # "projecting" \/ ladder' # <<>>
       PROVE  /\ plan'.listed \cup plan'.upstream \subseteq ask.tools /\ plan'.private = {}
              /\ plan'.listed # {} => plan'.mode = "prompted"
  BY <1>2, <1>5, <1>8, <1>11
<1>12. ASSUME stage' = "projecting", upcoming # "projecting" \/ ladder' # <<>>, ByName
       PROVE  /\ ask.named \in ToSet(shown) /\ ladder' \in Seq(Forcing)
              /\ plan'.mode \in {"native", "prompted"}
              /\ plan'.mode = "prompted" => ask.named \in plan'.listed
              /\ plan'.mode = "native" => policy.codecNative
              /\ policy.codecNative => ask.named \in plan'.upstream
  BY <1>4, <1>5, <1>8, <1>9, <1>12
<1>13. upcoming # "projecting" /\ stage' = "projecting" => Fits(s, kinds, refs, Visible(ask, policy))
  BY <1>1, <1>8 DEF fits
<1> QED
  BY <1>1, <1>3, <1>4, <1>6, <1>7, <1>8, <1>10, <1>11, <1>12, <1>13 DEF shown

\* A request fits by its own sizes and what is known of the model's.
LEMMA FitsNow ==
  ASSUME given' = given
  PROVE  Fits(serving, left, stored, surface.visible)' <=> Fits(serving', left', stored', surface'.visible)
BY DEF Fits, SizeOf, SafeLimit, Limit, ask, policy

\* To know that it was qualified says nothing of its size.
LEMMA FitsQualified ==
  ASSUME NEW s, {"observed", "configured", "ceiling"} \subseteq DOMAIN s, NEW v,
         NEW k, NEW r, NEW t, t = [s EXCEPT !.qualified = TRUE]
  PROVE  Fits(t, k, r, v) <=> Fits(s, k, r, v)
<1>1. t.observed = s.observed /\ t.configured = s.configured /\ t.ceiling = s.ceiling
  OBVIOUS
<1>2. Limit(t) = Limit(s)
  BY <1>1 DEF Limit
<1> QED
  BY <1>2 DEF Fits, SafeLimit

\* What a generation is sent is sound when its plan is.
LEMMA WireSound ==
  ASSUME enabled \subseteq {"read_result", "get_tool_schema"},
         offered \subseteq ask.tools \cup enabled, ask.tools \cap Reserved = {},
         NEW rung, NEW p, NEW exposed, p.listed \subseteq ask.tools, p.private \subseteq enabled,
         p.listed # {} => p.mode = "prompted",
         ByName => /\ p.mode \in {"native", "prompted"}
                   /\ p.mode = "prompted" => ask.named \in p.listed
                   /\ p.mode = "native" => ask.named \in offered,
         given' = given, enabled' = enabled, wire' = WireOf(rung, p, exposed)
  PROVE  NoNativeLeak' /\ OfferedAuthorised' /\ NamedOffered'
<1>1. /\ wire'.mode = p.mode /\ wire'.tools = (IF p.mode = "native" THEN offered ELSE {})
      /\ wire'.listed = p.listed /\ wire'.private = (wire'.tools \cap Private) \cup p.private
  BY DEF WireOf, Presented
<1>2. offered \cap Private \subseteq enabled /\ offered \ Private \subseteq ask.tools
  BY PreparationAssumption DEF Private
<1>3. ask' = ask /\ ask'.choice = ask.choice
  BY DEF ask
<1>4. NoNativeLeak'
  BY <1>1 DEF NoNativeLeak
<1>5. OfferedAuthorised'
  BY <1>1, <1>2, <1>3 DEF OfferedAuthorised
<1>6. NamedOffered'
  BY <1>1, <1>3 DEF NamedOffered, ByName
<1> QED
  BY <1>4, <1>5, <1>6

\* Nothing is said of what is not sent.
LEMMA NotSent ==
  ASSUME stage' \notin {"sent", "streaming"}
  PROVE  NoNativeLeak' /\ OfferedAuthorised' /\ NamedOffered'
BY DEF NoNativeLeak, OfferedAuthorised, NamedOffered, Sent

\* A new request satisfies the invariant.
LEMMA PrepInvInit == PreparationInit => PrepInv
<1> SUFFICES ASSUME PreparationInit PROVE PrepInv
  OBVIOUS
<1>1. stage = "new" /\ left = {"results", "turns"} /\ stored = {} /\ ladder = <<>> /\ plan = NoPlan
      /\ enabled = {} /\ replans = 0
  BY DEF PreparationInit
<1>2. policy \in Policies /\ serving \in Servings
  BY DEF PreparationInit, policy
<1>3. PrepTypeOK
  <2>1. policy.rounds \in Nat
    BY <1>2, PreparationAssumption
  <2> QED
    BY <2>1, <1>1 DEF PrepTypeOK, NoPlan
<1>4. {"observed", "configured", "ceiling"} \subseteq DOMAIN serving
  BY <1>2, PreparationAssumption
<1>5. ContentKept /\ GoingSound /\ PlanKept /\ OfferKept
  BY <1>1 DEF ContentKept, GoingSound, PlanKept, OfferKept, Going
<1>6. NoNativeLeak /\ OfferedAuthorised /\ NamedOffered
  BY <1>1 DEF NoNativeLeak, OfferedAuthorised, NamedOffered, Sent
<1>7. ladder \in Seq(Rungs)
  BY <1>1
<1> QED
  BY <1>1, <1>2, <1>3, <1>4, <1>5, <1>6, <1>7 DEF PrepInv

\* A preparation that plans again, with what the request then holds: it keeps
\* the invariant, whatever the next stage is called.
LEMMA PlannedKeeps ==
  ASSUME PrepInv, NEW upcoming \in Stages \ Going, PlannedWith(serving, left', stored', upcoming),
         ContentKept', given' = given, serving' = serving, enabled' = enabled, replans' = replans
  PROVE  PrepInv'
<1>1. /\ PrepTypeOK /\ policy \in Policies /\ ladder \in Seq(Rungs)
      /\ {"observed", "configured", "ceiling"} \subseteq DOMAIN serving
      /\ enabled \subseteq {"read_result", "get_tool_schema"}
  BY DEF PrepInv
<1>2. upcoming # "projecting"
  BY DEF Going
<1>3. PICK k, r : k = left' /\ r = stored'
  OBVIOUS
<1>4. PlannedWith(serving, k, r, upcoming)
  BY <1>3
<1>5. /\ surface' = Surface /\ ladder' \in Seq(Rungs)
      /\ Surface.visible = Visible(ask, policy) /\ Surface.visible \in Seq(ask.tools)
      /\ Surface.withheld \subseteq ask.tools
      /\ plan'.mode \in ToolModes \cup {"none"}
      /\ stage' \in {"refused", "projecting", upcoming}
      /\ stage' = "projecting" =>
           /\ Fits(serving, k, r, Visible(ask, policy))
           /\ ask.tools \cap Reserved = {}
           /\ ByName => ask.named \in ToSet(Surface.visible) /\ ladder' \in Seq(Forcing)
           /\ plan'.listed \cup plan'.upstream \subseteq ask.tools /\ plan'.private = {}
           /\ plan'.listed # {} => plan'.mode = "prompted"
           /\ ByName => /\ plan'.mode \in {"native", "prompted"}
                        /\ plan'.mode = "prompted" => ask.named \in plan'.listed
                        /\ plan'.mode = "native" => policy.codecNative
                        /\ policy.codecNative => ask.named \in plan'.upstream
  BY <1>1, <1>2, <1>4, PlannedSound
<1>6. ask' = ask /\ policy' = policy /\ ByName' = ByName
  BY DEF ask, policy, ByName
<1>7. stage' \in Stages /\ (stage' \in Going => stage' = "projecting")
  BY <1>5 DEF Stages, Going
<1>8. PrepTypeOK'
  BY <1>1, <1>5, <1>7, <1>6 DEF PrepTypeOK, ContentKept, Stages
<1>9. GoingSound'
  <2>1. Visible(ask, policy)' = Visible(ask', policy')
    BY DEF Visible, Chosen
  <2>2. stage' = "projecting" => Fits(serving, left, stored, surface.visible)'
    BY <1>3, <1>5, FitsNow
  <2> QED
    BY <1>5, <1>6, <1>7, <2>1, <2>2 DEF GoingSound
<1>10. PlanKept'
  BY <1>5, <1>6, <1>7 DEF PlanKept, Going
<1>11. OfferKept'
  BY <1>7 DEF OfferKept
<1>12. NoNativeLeak' /\ OfferedAuthorised' /\ NamedOffered'
  <2>1. stage' \notin {"sent", "streaming"}
    BY <1>7 DEF Going
  <2> QED
    BY <2>1, NotSent
<1> QED
  BY <1>1, <1>5, <1>6, <1>8, <1>9, <1>10, <1>11, <1>12 DEF PrepInv

\* Each step of a preparation keeps the invariant.
LEMMA PrepInvStep == PrepInv /\ [PreparationNext]_prepVars => PrepInv'
<1> SUFFICES ASSUME PrepInv, [PreparationNext]_prepVars PROVE PrepInv'
  OBVIOUS
<1>1. /\ PrepTypeOK /\ policy \in Policies /\ ladder \in Seq(Rungs)
      /\ {"observed", "configured", "ceiling"} \subseteq DOMAIN serving
      /\ enabled \subseteq {"read_result", "get_tool_schema"}
      /\ ContentKept /\ GoingSound /\ PlanKept /\ OfferKept
  BY DEF PrepInv
<1>2. ASSUME given' = given
      PROVE  ask' = ask /\ policy' = policy /\ ByName' = ByName /\ Visible(ask, policy)' = Visible(ask, policy)
  <2>1. ask' = ask /\ policy' = policy
    BY <1>2 DEF ask, policy
  <2>2. Visible(ask, policy)' = Visible(ask', policy')
    BY DEF Visible, Chosen
  <2> QED
    BY <2>1, <2>2 DEF ByName
<1>3. ASSUME given' = given, left' = left, stored' = stored
      PROVE  ContentKept'
  BY <1>1, <1>2, <1>3 DEF ContentKept
<1>4. ASSUME given' = given, serving' = serving, left' = left, stored' = stored, surface' = surface
      PROVE  Fits(serving, left, stored, surface.visible)' <=> Fits(serving, left, stored, surface.visible)
  <2>1. Fits(serving, left, stored, surface.visible)' <=> Fits(serving', left', stored', surface'.visible)
    BY <1>4, FitsNow
  <2> QED
    BY <2>1, <1>4
<1>5. CASE Prepare
  <2>1. CASE ChoiceConflict /\ stage' = "refused" /\ UNCHANGED <<surface, ladder, plan>>
    <3>1. /\ given' = given /\ serving' = serving /\ left' = left /\ stored' = stored
          /\ enabled' = enabled /\ replans' = replans /\ ladder' = ladder /\ plan' = plan
          /\ stage' = "refused"
      BY <1>5, <2>1 DEF Prepare
    <3>2. PrepTypeOK' /\ GoingSound' /\ PlanKept' /\ OfferKept'
      BY <3>1, <1>1, <1>2 DEF PrepTypeOK, GoingSound, PlanKept, OfferKept, Going
    <3> QED
      BY <3>1, <3>2, <1>1, <1>2, <1>3, NotSent DEF PrepInv
  <2>2. CASE PlannedWith(serving, left, stored, "virtualizing")
    <3>1. /\ given' = given /\ serving' = serving /\ left' = left /\ stored' = stored
          /\ enabled' = enabled /\ replans' = replans
      BY <1>5 DEF Prepare
    <3>2. PlannedWith(serving, left', stored', "virtualizing")
      BY <2>2, <3>1
    <3>3. "virtualizing" \in Stages \ Going
      BY DEF Stages, Going
    <3> QED
      BY <3>1, <3>2, <3>3, <1>3, PlannedKeeps
  <2> QED
    BY <2>1, <2>2, <1>5 DEF Prepare
<1>6. CASE Virtualize
  <2>1. /\ given' = given /\ serving' = serving /\ enabled' = enabled /\ replans' = replans
    BY <1>6 DEF Virtualize
  <2>2. CASE /\ left' = left \ {"results"} /\ stored' = stored \cup {"results"}
             /\ PlannedWith(serving, left', stored', "paging")
    <3>1. ContentKept'
      BY <2>1, <2>2, <1>1, <1>2 DEF ContentKept
    <3>2. "paging" \in Stages \ Going
      BY DEF Stages, Going
    <3> QED
      BY <2>1, <2>2, <3>1, <3>2, PlannedKeeps
  <2>3. CASE stage' = "paging" /\ UNCHANGED <<left, stored, adapted, surface, ladder, plan>>
    <3>1. left' = left /\ stored' = stored /\ ladder' = ladder /\ plan' = plan /\ stage' = "paging"
      BY <2>3
    <3>2. PrepTypeOK' /\ GoingSound' /\ PlanKept' /\ OfferKept'
      BY <2>1, <3>1, <1>1, <1>2 DEF PrepTypeOK, GoingSound, PlanKept, OfferKept, Going
    <3> QED
      BY <2>1, <3>1, <3>2, <1>1, <1>2, <1>3, NotSent DEF PrepInv
  <2> QED
    BY <2>2, <2>3, <1>6 DEF Virtualize
<1>7. CASE PageHistory
  <2>1. /\ given' = given /\ serving' = serving /\ enabled' = enabled /\ replans' = replans
    BY <1>7 DEF PageHistory
  <2>2. CASE /\ left' = left \ {"turns"} /\ stored' = stored \cup {"turns"}
             /\ PlannedWith(serving, left', stored', "summarizing")
    <3>1. ContentKept'
      BY <2>1, <2>2, <1>1, <1>2 DEF ContentKept
    <3>2. "summarizing" \in Stages \ Going
      BY DEF Stages, Going
    <3> QED
      BY <2>1, <2>2, <3>1, <3>2, PlannedKeeps
  <2>3. CASE stage' = "summarizing" /\ UNCHANGED <<left, stored, surface, ladder, plan>>
    <3>1. left' = left /\ stored' = stored /\ ladder' = ladder /\ plan' = plan /\ stage' = "summarizing"
      BY <2>3
    <3>2. PrepTypeOK' /\ GoingSound' /\ PlanKept' /\ OfferKept'
      BY <2>1, <3>1, <1>1, <1>2 DEF PrepTypeOK, GoingSound, PlanKept, OfferKept, Going
    <3> QED
      BY <2>1, <3>1, <3>2, <1>1, <1>2, <1>3, NotSent DEF PrepInv
  <2> QED
    BY <2>2, <2>3, <1>7 DEF PageHistory
<1>8. CASE Summarize
  <2>1. /\ given' = given /\ serving' = serving /\ enabled' = enabled /\ replans' = replans
        /\ stored' = stored
    BY <1>8 DEF Summarize
  <2>2. CASE /\ policy.controlled /\ left' = left \ {"turns"}
             /\ PlannedWith(serving, left', stored, "refused")
    <3>1. ContentKept'
      BY <2>1, <2>2, <1>1, <1>2 DEF ContentKept
    <3>2. "refused" \in Stages \ Going
      BY DEF Stages, Going
    <3>3. PlannedWith(serving, left', stored', "refused")
      BY <2>1, <2>2
    <3> QED
      BY <2>1, <3>1, <3>2, <3>3, PlannedKeeps
  <2>3. CASE stage' = "refused" /\ UNCHANGED <<left, surface, ladder, plan>>
    <3>1. left' = left /\ ladder' = ladder /\ plan' = plan /\ stage' = "refused"
      BY <2>3
    <3>2. PrepTypeOK' /\ GoingSound' /\ PlanKept' /\ OfferKept'
      BY <2>1, <3>1, <1>1, <1>2 DEF PrepTypeOK, GoingSound, PlanKept, OfferKept, Going
    <3> QED
      BY <2>1, <3>1, <3>2, <1>1, <1>2, <1>3, NotSent DEF PrepInv
  <2> QED
    BY <2>2, <2>3, <1>8 DEF Summarize
<1>9. CASE Project
  <2>1. /\ stage = "projecting" /\ stage' = "ready" /\ enabled' = Capabilities(adapted, surface)
        /\ offered' = plan.upstream \cup PrivateTools(enabled')
        /\ given' = given /\ serving' = serving /\ left' = left /\ stored' = stored
        /\ surface' = surface /\ ladder' = ladder /\ plan' = plan /\ replans' = replans
    BY <1>9 DEF Project, Offered
  <2>2. enabled' \subseteq {"read_result", "get_tool_schema"}
    BY <2>1 DEF Capabilities
  <2>3. PrivateTools(enabled') = enabled'
    BY <2>2 DEF PrivateTools
  <2>4. PrepTypeOK'
    BY <2>1, <2>2, <1>1, <1>2 DEF PrepTypeOK, Private
  <2>5. GoingSound'
    BY <2>1, <1>1, <1>2, <1>4 DEF GoingSound, Going
  <2>6. PlanKept' /\ OfferKept'
    BY <2>1, <2>3, <1>1, <1>2 DEF PlanKept, OfferKept, Going
  <2> QED
    BY <2>1, <2>2, <2>4, <2>5, <2>6, <1>1, <1>2, <1>3, NotSent DEF PrepInv
<1>10. CASE Qualified
  <2> DEFINE upcoming == IF ladder' = <<>> THEN "refused" ELSE "projecting"
  <2>1. /\ stage = "ready" /\ PlannedWith(StaticFacts, left, stored, upcoming)
        /\ serving' = [serving EXCEPT !.qualified = TRUE]
        /\ given' = given /\ left' = left /\ stored' = stored /\ enabled' = enabled /\ replans' = replans
    BY <1>10 DEF Qualified
  <2>2. /\ surface' = Surface /\ ladder' \in Seq(Rungs)
        /\ Surface.visible = Visible(ask, policy) /\ Surface.visible \in Seq(ask.tools)
        /\ Surface.withheld \subseteq ask.tools
        /\ plan'.mode \in ToolModes \cup {"none"}
        /\ stage' \in {"refused", "projecting", upcoming}
        /\ stage' = "projecting" /\ (upcoming # "projecting" \/ ladder' # <<>>) =>
             /\ ask.tools \cap Reserved = {}
             /\ ByName => ask.named \in ToSet(Surface.visible) /\ ladder' \in Seq(Forcing)
             /\ plan'.listed \cup plan'.upstream \subseteq ask.tools /\ plan'.private = {}
             /\ plan'.listed # {} => plan'.mode = "prompted"
             /\ ByName => /\ plan'.mode \in {"native", "prompted"}
                          /\ plan'.mode = "prompted" => ask.named \in plan'.listed
                          /\ plan'.mode = "native" => policy.codecNative
                          /\ policy.codecNative => ask.named \in plan'.upstream
    <3> HIDE DEF upcoming
    <3> QED
      BY <2>1, <1>1, PlannedSound
  <2>3. upcoming # "projecting" \/ ladder' # <<>>
    OBVIOUS
  <2>4. stage' \in {"refused", "projecting"}
    BY <2>2
  <2> HIDE DEF upcoming
  <2>5. {"observed", "configured", "ceiling"} \subseteq DOMAIN serving'
    BY <2>1, <1>1
  <2>6. PrepTypeOK'
    BY <2>1, <2>2, <2>4, <1>1, <1>2 DEF PrepTypeOK
  <2>7. GoingSound'
    <3>1. Fits(serving, left, stored, surface.visible)'
      <4>1. surface.visible = Visible(ask, policy) /\ Fits(serving, left, stored, surface.visible)
        BY <2>1, <1>1 DEF GoingSound, Going
      <4>2. Fits(serving', left, stored, surface.visible)
        BY <4>1, <2>1, <1>1, FitsQualified
      <4>3. Fits(serving', left', stored', surface'.visible)
        BY <4>1, <4>2, <2>1, <2>2
      <4> QED
        BY <4>3, <2>1, FitsNow
    <3> QED
      BY <3>1, <2>1, <2>2, <2>3, <2>4, <1>2 DEF GoingSound, Going
  <2>8. PlanKept' /\ OfferKept'
    BY <2>1, <2>2, <2>3, <2>4, <1>2 DEF PlanKept, OfferKept, Going
  <2> QED
    BY <2>1, <2>2, <2>4, <2>5, <2>6, <2>7, <2>8, <1>1, <1>2, <1>3, NotSent DEF PrepInv
<1>11. CASE Attempt
  <2>1. PICK i \in DOMAIN ladder :
          LET rung == Promoted(ladder, i)[1]
              p == InvocationPlan(rung.mode, surface.visible, enabled)
          IN /\ ladder' = Tail(Promoted(ladder, i))
             /\ plan' = p
             /\ \/ stage' = "ended" /\ UNCHANGED wire
                \/ stage' = "sent" /\ wire' = WireOf(rung, p, {})
    <3>1. ladder # <<>> => 1 \in DOMAIN ladder
      BY <1>1
    <3> QED
      BY <3>1, <1>11 DEF Attempt
  <2>2. /\ stage \in {"ready", "answered"} /\ given' = given /\ serving' = serving /\ left' = left
        /\ stored' = stored /\ surface' = surface /\ enabled' = enabled /\ offered' = offered
        /\ replans' = replans
    BY <1>11 DEF Attempt
  <2>3. PICK rung, p : /\ rung = Promoted(ladder, i)[1]
                       /\ p = InvocationPlan(rung.mode, surface.visible, enabled)
    OBVIOUS
  <2>4. /\ ladder' = Tail(Promoted(ladder, i)) /\ plan' = p
        /\ \/ stage' = "ended"
           \/ stage' = "sent" /\ wire' = WireOf(rung, p, {})
    BY <2>1, <2>3
  <2>5. rung \in Rungs /\ ladder' \in Seq(Rungs)
    BY <2>3, <2>4, <1>1, PromotedKeeps
  <2>6. ByName => rung \in Forcing /\ ladder' \in Seq(Forcing)
    <3>1. ByName => ladder \in Seq(Forcing)
      BY <2>2, <1>1 DEF GoingSound, Going
    <3> QED
      BY <3>1, <2>3, <2>4, PromotedKeeps
  <2>7. /\ p.mode \in ToolModes /\ (p.mode = "native" => policy.codecNative)
        /\ rung.mode \in {"native", "prompted"} => p.mode \in {"native", "prompted"}
        /\ p.listed = IF p.mode = "prompted" /\ surface.visible # <<>> THEN ToSet(surface.visible) ELSE {}
        /\ p.private \subseteq enabled
    <3>1. PICK m, shown, caps : m = rung.mode /\ shown = surface.visible /\ caps = enabled
      OBVIOUS
    <3>2. m \in ToolModes \cup {"auto"}
      BY <3>1, <2>5 DEF Rungs
    <3>3. caps \in SUBSET {"read_result", "get_tool_schema"} /\ p = InvocationPlan(m, shown, caps)
      BY <3>1, <2>3, <1>1
    <3> QED
      BY <3>1, <3>2, <3>3, PlanOf
  <2>8. /\ ask.tools \cap Reserved = {} /\ surface.visible \in Seq(ask.tools)
        /\ ByName => ask.named \in ToSet(surface.visible)
        /\ offered \subseteq ask.tools \cup enabled
        /\ ByName /\ policy.codecNative => ask.named \in offered
    BY <2>2, <1>1 DEF GoingSound, OfferKept, Going
  <2>9. ToSet(surface.visible) \subseteq ask.tools
    BY <2>8 DEF ToSet
  <2>10. ByName => /\ p.mode \in {"native", "prompted"}
                   /\ p.mode = "prompted" => ask.named \in p.listed
                   /\ p.mode = "native" => ask.named \in offered
    <3>1. ByName => surface.visible # <<>>
      BY <2>8 DEF ToSet
    <3>2. ByName => rung.mode \in {"native", "prompted"}
      BY <2>6 DEF Forcing
    <3> QED
      BY <3>1, <3>2, <2>7, <2>8
  <2>11. p.listed \subseteq ask.tools /\ (p.listed # {} => p.mode = "prompted")
    BY <2>7, <2>9
  <2>12. NoNativeLeak' /\ OfferedAuthorised' /\ NamedOffered'
    <3>1. CASE stage' = "ended"
      BY <3>1, NotSent
    <3>2. CASE stage' = "sent" /\ wire' = WireOf(rung, p, {})
      BY <3>2, <2>2, <2>7, <2>8, <2>10, <2>11, <1>1, WireSound
    <3> QED
      BY <3>1, <3>2, <2>4
  <2>13. stage' \in {"ended", "sent"}
    BY <2>4
  <2>14. PrepTypeOK'
    BY <2>2, <2>4, <2>7, <2>13, <1>1, <1>2 DEF PrepTypeOK
  <2>15. GoingSound'
    BY <2>2, <2>6, <2>13, <1>1, <1>2, <1>4 DEF GoingSound, Going
  <2>16. PlanKept' /\ OfferKept'
    BY <2>2, <2>8, <2>13, <1>2 DEF PlanKept, OfferKept
  <2> QED
    BY <2>2, <2>5, <2>12, <2>14, <2>15, <2>16, <1>1, <1>2, <1>3 DEF PrepInv
<1>12. CASE StreamDirectly
  <2>1. /\ stage = "ready" /\ given' = given /\ serving' = serving /\ left' = left
        /\ stored' = stored /\ surface' = surface /\ ladder' = ladder /\ plan' = plan
        /\ enabled' = enabled /\ offered' = offered /\ replans' = replans
        /\ \/ stage' = "ended"
           \/ stage' = "streaming" /\ wire' = WireOf(ladder[1], plan, {})
    BY <1>12 DEF StreamDirectly
  <2>2. /\ ask.tools \cap Reserved = {} /\ offered \subseteq ask.tools \cup enabled
        /\ ByName /\ policy.codecNative => ask.named \in offered
    BY <2>1, <1>1 DEF GoingSound, OfferKept, Going
  <2>3. /\ plan.listed \subseteq ask.tools /\ plan.private \subseteq enabled
        /\ plan.listed # {} => plan.mode = "prompted"
        /\ ByName => /\ plan.mode \in {"native", "prompted"}
                     /\ plan.mode = "prompted" => ask.named \in plan.listed
                     /\ plan.mode = "native" => ask.named \in offered
    BY <2>1, <2>2, <1>1 DEF PlanKept
  <2>4. NoNativeLeak' /\ OfferedAuthorised' /\ NamedOffered'
    <3>1. CASE stage' = "ended"
      BY <3>1, NotSent
    <3>2. CASE stage' = "streaming" /\ wire' = WireOf(ladder[1], plan, {})
      BY <3>2, <2>1, <2>2, <2>3, <1>1, WireSound
    <3> QED
      BY <3>1, <3>2, <2>1
  <2>5. stage' \in {"ended", "streaming"}
    BY <2>1
  <2>6. PrepTypeOK'
    BY <2>1, <2>5, <1>1, <1>2 DEF PrepTypeOK
  <2>7. GoingSound'
    BY <2>1, <2>5, <1>1, <1>2, <1>4 DEF GoingSound, Going
  <2>8. PlanKept' /\ OfferKept'
    BY <2>1, <2>2, <2>5, <1>2 DEF PlanKept, OfferKept
  <2> QED
    BY <2>1, <2>4, <2>6, <2>7, <2>8, <1>1, <1>2, <1>3 DEF PrepInv
<1>13. CASE Withheld
  <2>1. PICK t \in surface.withheld :
          LET s == Exposed(surface, t)
              mode == IF wire.rung = "native_tools" THEN "native" ELSE "prompted"
              p == InvocationPlan(mode, s.visible, enabled)
          IN plan' = p /\ wire' = WireOf(Rung(wire.rung, mode), p, {t})
    BY <1>13 DEF Withheld
  <2>2. /\ stage = "sent" /\ stage' = "sent" /\ given' = given /\ serving' = serving /\ left' = left
        /\ stored' = stored /\ ladder' = ladder /\ enabled' = enabled /\ offered' = offered
        /\ surface' = surface /\ replans < policy.rounds /\ replans' = replans + 1
    BY <1>13 DEF Withheld
  <2>3. PICK s, mode, p, rung :
          /\ s = Exposed(surface, t) /\ mode = (IF wire.rung = "native_tools" THEN "native" ELSE "prompted")
          /\ p = InvocationPlan(mode, s.visible, enabled) /\ rung = Rung(wire.rung, mode)
    OBVIOUS
  <2>4. plan' = p /\ wire' = WireOf(rung, p, {t})
    BY <2>1, <2>3
  <2>5. /\ ask.tools \cap Reserved = {} /\ surface.visible \in Seq(ask.tools)
        /\ surface.withheld \subseteq ask.tools
        /\ ByName => ask.named \in ToSet(surface.visible) /\ ladder \in Seq(Forcing)
        /\ offered \subseteq ask.tools \cup enabled
        /\ ByName /\ policy.codecNative => ask.named \in offered
    BY <2>2, <1>1 DEF GoingSound, OfferKept, Going
  <2>6. /\ s.visible \in Seq(ask.tools)
        /\ ByName => ask.named \in ToSet(s.visible)
    <3>1. PICK v, T : v = surface.visible /\ T = ask.tools
      OBVIOUS
    <3>2. v \in Seq(T) /\ t \in T
      BY <3>1, <2>5
    <3>3. Append(v, t) \in Seq(T) /\ \A i \in DOMAIN v : i \in DOMAIN Append(v, t) /\ Append(v, t)[i] = v[i]
      BY <3>2
    <3>4. ToSet(v) \subseteq ToSet(Append(v, t))
      BY <3>3 DEF ToSet
    <3>5. s.visible = Append(v, t)
      BY <3>1, <2>3 DEF Exposed
    <3> QED
      BY <3>1, <3>3, <3>4, <3>5, <2>5
  <2>7. /\ p.mode \in ToolModes /\ (p.mode = "native" => policy.codecNative)
        /\ p.mode \in {"native", "prompted"}
        /\ p.listed = IF p.mode = "prompted" /\ s.visible # <<>> THEN ToSet(s.visible) ELSE {}
        /\ p.private \subseteq enabled
    <3>1. PICK shown, caps : shown = s.visible /\ caps = enabled
      OBVIOUS
    <3>2. mode \in ToolModes \cup {"auto"} /\ mode \in {"native", "prompted"}
      BY <2>3 DEF ToolModes
    <3>3. caps \in SUBSET {"read_result", "get_tool_schema"} /\ p = InvocationPlan(mode, shown, caps)
      BY <3>1, <2>3, <1>1
    <3> QED
      BY <3>1, <3>2, <3>3, PlanOf
  <2>8. ByName => s.visible # <<>>
    BY <2>6 DEF ToSet
  <2>9. ToSet(s.visible) \subseteq ask.tools
    BY <2>6 DEF ToSet
  <2>10. /\ p.listed \subseteq ask.tools /\ (p.listed # {} => p.mode = "prompted")
         /\ ByName => /\ p.mode = "prompted" => ask.named \in p.listed
                      /\ p.mode = "native" => ask.named \in offered
    BY <2>5, <2>6, <2>7, <2>8, <2>9
  <2>11. NoNativeLeak' /\ OfferedAuthorised' /\ NamedOffered'
    BY <2>2, <2>4, <2>5, <2>7, <2>10, <1>1, WireSound
  <2>12. PrepTypeOK'
    <3>1. policy.rounds \in Nat /\ policy' = policy
      BY <2>2, <1>1, <1>2, PreparationAssumption
    <3>2. replans' \in 0 .. policy'.rounds
      BY <3>1, <2>2, <1>1, <1>2 DEF PrepTypeOK
    <3> QED
      BY <3>2, <2>2, <2>4, <2>7, <1>1, <1>2 DEF PrepTypeOK
  <2>13. GoingSound'
    BY <2>2, <1>1, <1>2, <1>4 DEF GoingSound, Going
  <2>14. PlanKept' /\ OfferKept'
    BY <2>2, <2>5, <1>2 DEF PlanKept, OfferKept
  <2> QED
    BY <2>2, <2>11, <2>12, <2>13, <2>14, <1>1, <1>2, <1>3 DEF PrepInv
<1>14. CASE Answer
  <2>1. /\ stage = "sent" /\ stage' \in {"ended", "answered"} /\ given' = given /\ serving' = serving
        /\ left' = left /\ stored' = stored /\ surface' = surface /\ ladder' = ladder
        /\ plan' = plan /\ enabled' = enabled /\ offered' = offered /\ replans' = replans
    BY <1>14 DEF Answer
  <2>2. PrepTypeOK'
    BY <2>1, <1>1, <1>2 DEF PrepTypeOK
  <2>3. GoingSound'
    BY <2>1, <1>1, <1>2, <1>4 DEF GoingSound, Going
  <2>4. PlanKept' /\ OfferKept'
    BY <2>1, <1>1, <1>2 DEF PlanKept, OfferKept, Going
  <2> QED
    BY <2>1, <2>2, <2>3, <2>4, <1>1, <1>2, <1>3, NotSent DEF PrepInv
<1>15. CASE UNCHANGED prepVars
  <2>1. /\ stage' = stage /\ given' = given /\ serving' = serving
        /\ left' = left /\ stored' = stored /\ surface' = surface /\ ladder' = ladder
        /\ plan' = plan /\ enabled' = enabled /\ offered' = offered /\ replans' = replans
        /\ wire' = wire
    BY <1>15 DEF prepVars
  <2>2. PrepTypeOK' /\ ContentKept' /\ GoingSound' /\ PlanKept' /\ OfferKept'
    BY <2>1, <1>1, <1>2, <1>3, <1>4 DEF PrepTypeOK, GoingSound, PlanKept, OfferKept
  <2>3. NoNativeLeak' /\ OfferedAuthorised' /\ NamedOffered'
    BY <2>1, <1>2 DEF PrepInv, NoNativeLeak, OfferedAuthorised, NamedOffered, Sent
  <2> QED
    BY <2>1, <2>2, <2>3, <1>1, <1>2 DEF PrepInv
<1> QED
  BY <1>5, <1>6, <1>7, <1>8, <1>9, <1>10, <1>11, <1>12, <1>13, <1>14, <1>15 DEF PreparationNext

\* What the invariant says of a generation.
LEMMA PrepInvSound == PrepInv => PreparationSound
<1> SUFFICES ASSUME PrepInv PROVE FitsWhenSent
  BY DEF PrepInv, PreparationSound
<1>1. ContentKept /\ GoingSound
  BY DEF PrepInv
<1> SUFFICES ASSUME Sent
    PROVE  /\ Rendered.left = left => Fits(serving, left, stored, surface.visible)
           /\ "results" \in Rendered.left \cup Rendered.stored
           /\ ~policy.controlled => "turns" \in Rendered.left \cup Rendered.stored
  BY DEF FitsWhenSent
<1>2. Fits(serving, left, stored, surface.visible)
  BY <1>1 DEF GoingSound, Going, Sent
<1>3. \/ Rendered.left = {"turns"} /\ Rendered.stored = {"results"}
      \/ Rendered.left = left /\ Rendered.stored = stored
  BY DEF Rendered
<1> QED
  BY <1>1, <1>2, <1>3 DEF ContentKept

-----------------------------------------------------------------------------
(* The order of the index. *)

Scored(n, p) == n + PatternScore(p)
ScoreBy(g, e) ==
  g = [d \in SUBSET DOMAIN e.patterns |->
         IF d = {} THEN 0 ELSE Scored(g[d \ {Max(d)}], e.patterns[Max(d)])]

\* The fold, by its definition.
LEMMA ScoreIsIntFolds ==
  ASSUME NEW e
  PROVE  Score(e) = (CHOOSE g : ScoreBy(g, e))[DOMAIN e.patterns]
BY DEF Score, FoldLeft, MapThenFoldSet, ScoreBy, Scored

\* A specificity is a number.
LEMMA ScoreIsInt ==
  ASSUME NEW e, e.patterns \in Seq(ToSet(e.patterns)),
         \A p \in ToSet(e.patterns) : PatternScore(p) \in Int
  PROVE  Score(e) \in Int
<1> DEFINE A == Int
           X == ToSet(e.patterns)
           step == [p \in A \X X |-> Scored(p[1], p[2])]
<1>1. PICK n \in Nat : n = Len(e.patterns) /\ DOMAIN e.patterns = 1 .. n /\ \A i \in 1 .. n : e.patterns[i] \in X
  OBVIOUS
<1>2. \A a \in A, t \in X : Scored(a, t) \in A
  BY DEF Scored
<1>3. 0 \in A /\ step \in [A \X X -> A]
  BY <1>2
<1>4. \A a \in A, t \in X : step[<<a, t>>] = Scored(a, t)
  OBVIOUS
<1> HIDE DEF A, X, step
<1>5. ASSUME NEW g PROVE ScoreBy(g, e) => Steps(g, step, A, 0, e.patterns, n)
  <2> SUFFICES ASSUME ScoreBy(g, e), NEW d \in SUBSET (1 .. n), d # {}, g[d \ {Max(d)}] \in A
               PROVE  g[d] = step[<<g[d \ {Max(d)}], e.patterns[Max(d)]>>]
    BY <1>1 DEF ScoreBy, Steps
  <2>1. g[d] = Scored(g[d \ {Max(d)}], e.patterns[Max(d)])
    BY <1>1 DEF ScoreBy
  <2>2. Max(d) \in 1 .. n
    BY SomeMax
  <2> QED
    BY <2>1, <2>2, <1>1, <1>4
<1>6. PICK h \in [SUBSET (1 .. n) -> A] : Steps(h, step, A, 0, e.patterns, n)
  <2>1. Folds(step, A, 0, e.patterns, n)
    BY <1>1, <1>3, StepsExist
  <2> QED
    BY <2>1 DEF Folds
<1>7. ScoreBy(h, e)
  <2>1. ASSUME NEW d \in SUBSET (1 .. n)
        PROVE  h[d] = IF d = {} THEN 0 ELSE Scored(h[d \ {Max(d)}], e.patterns[Max(d)])
    <3>1. CASE d = {}
      BY <3>1, <1>6 DEF Steps
    <3>2. CASE d # {}
      <4>1. Max(d) \in 1 .. n
        BY <3>2, SomeMax
      <4>2. h[d \ {Max(d)}] \in A
        BY <1>6
      <4>3. h[d] = step[<<h[d \ {Max(d)}], e.patterns[Max(d)]>>]
        BY <3>2, <4>2, <1>6 DEF Steps
      <4> QED
        BY <3>2, <4>1, <4>2, <4>3, <1>1, <1>4
    <3> QED
      BY <3>1, <3>2
  <2>2. h = [d \in SUBSET (1 .. n) |-> h[d]]
    BY <1>6
  <2> QED
    BY <2>1, <2>2, <1>1 DEF ScoreBy
<1>8. PICK g : g = CHOOSE f : ScoreBy(f, e)
  OBVIOUS
<1>9. Steps(g, step, A, 0, e.patterns, n)
  BY <1>5, <1>7, <1>8
<1>10. g[1 .. n] \in A
  BY <1>1, <1>3, <1>9, StepsTyped
<1> QED
  BY <1>1, <1>8, <1>10, ScoreIsIntFolds DEF A

\* A downward closed set of the first numbers is the first so many of them.
LEMMA FirstOnes ==
  ASSUME NEW n \in Nat, NEW D \in SUBSET (1 .. n), \A i \in D : \A j \in 1 .. i : j \in D
  PROVE  Cardinality(D) \in 0 .. n /\ D = 1 .. Cardinality(D)
<1>1. CASE D = {}
  <2>1. Cardinality(D) = 0 /\ 1 .. 0 = {}
    BY <1>1, FS_EmptySet
  <2> QED
    BY <1>1, <2>1
<1>2. CASE D # {}
  <2>1. PICK m : m = Max(D)
    OBVIOUS
  <2>2. m \in D /\ \A k \in D : k <= m
    BY <1>2, <2>1, SomeMax
  <2>3. D = 1 .. m /\ m \in 1 .. n
    <3>1. m \in 1 .. n
      BY <2>2
    <3>2. \A j \in 1 .. m : j \in D
      BY <2>2
    <3>3. \A j \in D : j \in 1 .. m
      BY <2>2, <3>1
    <3> QED
      BY <3>1, <3>2, <3>3
  <2>4. PICK T : T = 1 .. m
    OBVIOUS
  <2>5. Cardinality(T) = m
    <3>1. 1 \in Int /\ m \in Int /\ 1 <= m
      BY <2>3
    <3> QED
      BY <3>1, <2>4, FS_Interval
  <2> QED
    BY <2>3, <2>4, <2>5
<1> QED
  BY <1>1, <1>2

\* What is where in two sequences put together.
LEMMA CatAt ==
  ASSUME NEW S, NEW a \in Seq(S), NEW b \in Seq(S), NEW r, r = a \o b
  PROVE  /\ r \in Seq(S) /\ Len(r) = Len(a) + Len(b)
         /\ \A i \in 1 .. Len(a) : r[i] = a[i]
         /\ \A i \in 1 .. Len(b) : r[Len(a) + i] = b[i]
<1>1. r \in Seq(S) /\ Len(r) = Len(a) + Len(b)
  BY ConcatProperties
<1>2. \A i \in 1 .. Len(r) : r[i] = IF i <= Len(a) THEN a[i] ELSE b[i - Len(a)]
  BY ConcatProperties
<1>3. Len(a) \in Nat /\ Len(b) \in Nat
  OBVIOUS
<1>4. \A i \in 1 .. Len(a) : r[i] = a[i]
  BY <1>1, <1>2, <1>3
<1>5. \A i \in 1 .. Len(b) : r[Len(a) + i] = b[i]
  <2> TAKE i \in 1 .. Len(b)
  <2>1. Len(a) + i \in 1 .. Len(r) /\ ~(Len(a) + i <= Len(a)) /\ (Len(a) + i) - Len(a) = i
    BY <1>1, <1>3
  <2> QED
    BY <2>1, <1>2
<1> QED
  BY <1>1, <1>4, <1>5

\* What is where after one more member is put into a sequence.
LEMMA InsertedAt ==
  ASSUME NEW S, NEW s \in Seq(S), NEW e \in S, NEW d \in 1 .. Len(s) + 1, NEW r, r = InsertAt(s, d, e)
  PROVE  /\ r \in Seq(S) /\ Len(r) = Len(s) + 1 /\ r[d] = e
         /\ \A i \in 1 .. d - 1 : r[i] = s[i]
         /\ \A i \in d .. Len(s) : r[i + 1] = s[i]
<1>0. PICK c \in 0 .. Len(s) : d = c + 1
  <2>1. Len(s) \in Nat
    OBVIOUS
  <2>2. d - 1 \in 0 .. Len(s) /\ d = (d - 1) + 1
    BY <2>1
  <2> QED
    BY <2>2
<1>1. PICK n \in Nat : n = Len(s)
  OBVIOUS
<1>2. PICK a, b : a = SubSeq(s, 1, c) /\ b = SubSeq(s, c + 1, n)
  OBVIOUS
<1>3. a \in Seq(S) /\ Len(a) = c /\ \A i \in 1 .. c : a[i] = s[i]
  <2>1. 1 \in Int /\ c \in Int /\ \A i \in 1 .. c : s[i] \in S
    BY <1>1
  <2> QED
    BY <2>1, <1>2, SubSeqProperties
<1>4. b \in Seq(S) /\ Len(b) = n - c /\ \A i \in 1 .. n - c : b[i] = s[c + i]
  <2>1. c + 1 \in Int /\ n \in Int /\ \A i \in c + 1 .. n : s[i] \in S
    BY <1>1
  <2>2. c + 1 <= n + 1 /\ n - (c + 1) + 1 = n - c
    BY <1>1
  <2>3. \A i \in 1 .. n - c : c + 1 + i - 1 = c + i
    BY <1>1
  <2> QED
    BY <2>1, <2>2, <2>3, <1>2, SubSeqProperties
<1>5. PICK h : h = a \o <<e>>
  OBVIOUS
<1>6. h \in Seq(S) /\ Len(h) = c + 1 /\ h[c + 1] = e /\ \A i \in 1 .. c : h[i] = a[i]
  <2>1. PICK o : o = <<e>>
    OBVIOUS
  <2>2. o \in Seq(S) /\ Len(o) = 1 /\ o[1] = e
    BY <2>1
  <2>3. PICK q : q = a \o o
    OBVIOUS
  <2>4. /\ q \in Seq(S) /\ Len(q) = Len(a) + Len(o)
        /\ \A i \in 1 .. Len(a) : q[i] = a[i]
        /\ \A i \in 1 .. Len(o) : q[Len(a) + i] = o[i]
    <3>1. a \in Seq(S) /\ o \in Seq(S)
      BY <1>3, <2>2
    <3> QED
      BY <3>1, <2>3, CatAt
  <2>5. h = q
    BY <2>1, <2>3, <1>5
  <2>6. 1 \in 1 .. Len(o)
    BY <2>2
  <2> QED
    BY <2>2, <2>4, <2>5, <2>6, <1>3
<1>7. r = h \o b
  <2>1. (c + 1) - 1 = c
    OBVIOUS
  <2> QED
    BY <2>1, <1>0, <1>1, <1>2, <1>5 DEF InsertAt
<1>8. /\ r \in Seq(S) /\ Len(r) = Len(h) + Len(b) /\ (\A i \in 1 .. Len(h) : r[i] = h[i])
      /\ \A i \in 1 .. Len(b) : r[Len(h) + i] = b[i]
  <2>1. PICK q : q = h \o b
    OBVIOUS
  <2>2. h \in Seq(S) /\ b \in Seq(S)
    BY <1>4, <1>6
  <2>3. /\ q \in Seq(S) /\ Len(q) = Len(h) + Len(b)
        /\ \A i \in 1 .. Len(h) : q[i] = h[i]
        /\ \A i \in 1 .. Len(b) : q[Len(h) + i] = b[i]
    BY <2>1, <2>2, CatAt
  <2>4. r = q
    BY <2>1, <1>7
  <2> QED
    BY <2>3, <2>4
<1>9. \A i \in c + 1 .. n : r[i + 1] = s[i]
  <2> TAKE i \in c + 1 .. n
  <2>1. PICK k \in 1 .. n - c : i = c + k
    <3>1. i - c \in 1 .. n - c /\ i = c + (i - c)
      BY <1>1
    <3> QED
      BY <3>1
  <2>2. r[(c + 1) + k] = b[k] /\ b[k] = s[c + k]
    BY <1>4, <1>6, <1>8, <2>1
  <2>3. (c + 1) + k = i + 1
    BY <2>1
  <2> QED
    BY <2>1, <2>2, <2>3
<1>10. r[c + 1] = e /\ \A i \in 1 .. c : r[i] = s[i]
  BY <1>3, <1>6, <1>8
<1>11. Len(r) = n + 1 /\ d - 1 = c
  BY <1>0, <1>1, <1>4, <1>6, <1>8
<1> QED
  BY <1>0, <1>1, <1>8, <1>9, <1>10, <1>11

\* What the index may hold.
Rated ==
  {e \in [profile : {FromYaml(f) : f \in UNION {UNION {ToSet(l[t]) : t \in DOMAIN l} : l \in Libraries}},
          patterns : {f.patterns : f \in UNION {UNION {ToSet(l[t]) : t \in DOMAIN l} : l \in Libraries}},
          backends : {f.backends : f \in UNION {UNION {ToSet(l[t]) : t \in DOMAIN l} : l \in Libraries}},
          tier : {"project", "user", "builtin"}] :
     Score(e) \in Int /\ Cardinality(e.backends) \in Nat}

\* The order is total and transitive.
LEMMA NotBelowOrders ==
  ASSUME NEW a \in Rated, NEW b \in Rated, NEW c \in Rated
  PROVE  /\ NotBelow(a, b) \/ NotBelow(b, a)
         /\ NotBelow(a, b) /\ NotBelow(b, c) => NotBelow(a, c)
<1>1. /\ Score(a) \in Int /\ Score(b) \in Int /\ Score(c) \in Int
      /\ Cardinality(a.backends) \in Nat /\ Cardinality(b.backends) \in Nat
      /\ Cardinality(c.backends) \in Nat
  BY DEF Rated
<1> QED
  BY <1>1 DEF NotBelow

\* The index is in order.
Ordered(ix) == \A i, j \in DOMAIN ix : i < j => NotBelow(ix[i], ix[j])

\* One entry more: ids that were apart stay apart, when its id is new.
Gained(old, e, ix) ==
  /\ \E k \in DOMAIN ix : ix[k] = e
  /\ \A i \in DOMAIN old : \E k \in DOMAIN ix : ix[k] = old[i]
  /\ \A k \in DOMAIN ix : ix[k] = e \/ \E i \in DOMAIN old : ix[k] = old[i]
  /\ (\A i, j \in DOMAIN old : old[i].profile.id = old[j].profile.id => i = j)
     /\ (\A i \in DOMAIN old : old[i].profile.id # e.profile.id)
     => \A k, m \in DOMAIN ix : ix[k].profile.id = ix[m].profile.id => k = m

\* An entry placed in an index that is in order leaves it in order, with the
\* entry and all that was there.
LEMMA PlacedKeeps ==
  ASSUME index \in Seq(Rated), Ordered(index), NEW e \in Rated, NEW ix, ix = Placed(e)
  PROVE  ix \in Seq(Rated) /\ Ordered(ix) /\ Gained(index, e, ix)
<1>1. PICK n \in Nat : n = Len(index) /\ DOMAIN index = 1 .. n
  OBVIOUS
<1>2. PICK D : D = {i \in DOMAIN index : NotBelow(index[i], e)}
  OBVIOUS
<1>3. \A i \in 1 .. n : index[i] \in Rated
  BY <1>1
<1>4. \A i \in D : \A j \in 1 .. i : j \in D
  <2> TAKE i \in D
  <2> TAKE j \in 1 .. i
  <2>1. i \in 1 .. n /\ NotBelow(index[i], e) /\ j \in 1 .. n /\ (j = i \/ j < i)
    BY <1>1, <1>2
  <2>2. j < i => NotBelow(index[j], index[i])
    BY <1>1, <2>1 DEF Ordered
  <2>3. NotBelow(index[j], e)
    BY <1>3, <2>1, <2>2, NotBelowOrders
  <2> QED
    BY <1>1, <1>2, <2>1, <2>3
<1>5. PICK c : c = Cardinality(D)
  OBVIOUS
<1>6. c \in 0 .. n /\ D = 1 .. c
  <2>1. D \in SUBSET (1 .. n)
    BY <1>1, <1>2
  <2> QED
    BY <2>1, <1>4, <1>5, FirstOnes
<1>7. ix = InsertAt(index, c + 1, e)
  BY <1>2, <1>5 DEF Placed
<1>8. /\ ix \in Seq(Rated) /\ Len(ix) = n + 1 /\ ix[c + 1] = e
      /\ \A i \in 1 .. c : ix[i] = index[i]
      /\ \A i \in c + 1 .. n : ix[i + 1] = index[i]
  <2>1. c \in 0 .. Len(index)
    BY <1>1, <1>6
  <2>2. PICK d \in 1 .. Len(index) + 1 : d = c + 1
    <3>1. c + 1 \in 1 .. Len(index) + 1
      BY <2>1
    <3> QED
      BY <3>1
  <2>5. PICK q : q = InsertAt(index, d, e)
    OBVIOUS
  <2>3. /\ q \in Seq(Rated) /\ Len(q) = Len(index) + 1 /\ q[d] = e
        /\ \A i \in 1 .. d - 1 : q[i] = index[i]
        /\ \A i \in d .. Len(index) : q[i + 1] = index[i]
    BY <2>5, InsertedAt
  <2>4. ix = q /\ d - 1 = c
    BY <2>2, <2>5, <1>6, <1>7
  <2> QED
    BY <2>2, <2>3, <2>4, <1>1
<1>9. DOMAIN ix = 1 .. n + 1
  BY <1>8
<1>10. \A k \in 1 .. n + 1 : k \in 1 .. c \/ k = c + 1 \/ \E i \in c + 1 .. n : k = i + 1
  <2> TAKE k \in 1 .. n + 1
  <2>1. CASE k > c + 1
    <3>1. k - 1 \in c + 1 .. n /\ k = (k - 1) + 1
      BY <2>1, <1>6
    <3> QED
      BY <3>1
  <2>2. CASE ~(k > c + 1)
    BY <2>2, <1>6
  <2> QED
    BY <2>1, <2>2
<1>11. Ordered(ix)
  <2> SUFFICES ASSUME NEW k \in 1 .. n + 1, NEW m \in 1 .. n + 1, k < m PROVE NotBelow(ix[k], ix[m])
    BY <1>9 DEF Ordered
  <2>1. \A i \in 1 .. c : NotBelow(ix[i], e)
    BY <1>1, <1>2, <1>6, <1>8
  <2>2. \A i \in c + 1 .. n : NotBelow(e, ix[i + 1])
    <3> TAKE i \in c + 1 .. n
    <3>1. i \in 1 .. n /\ i \notin D
      BY <1>6
    <3>2. ~ NotBelow(index[i], e)
      BY <3>1, <1>1, <1>2
    <3> QED
      BY <3>1, <3>2, <1>3, <1>8, NotBelowOrders
  <2>3. CASE m \in 1 .. c
    <3>1. k \in 1 .. c /\ k \in 1 .. n /\ m \in 1 .. n
      BY <2>3, <1>6
    <3> QED
      BY <3>1, <2>3, <1>1, <1>8 DEF Ordered
  <2>4. CASE m = c + 1
    <3>1. k \in 1 .. c
      BY <2>4, <1>6
    <3> QED
      BY <3>1, <2>1, <2>4, <1>8
  <2>5. CASE \E i \in c + 1 .. n : m = i + 1
    <3>1. PICK i \in c + 1 .. n : m = i + 1
      BY <2>5
    <3>2. CASE k \in 1 .. c
      <4>1. k \in 1 .. n /\ i \in 1 .. n /\ k < i
        BY <3>2, <1>6
      <4>2. NotBelow(index[k], index[i])
        BY <4>1, <1>1 DEF Ordered
      <4> QED
        BY <4>2, <3>1, <3>2, <1>8
    <3>3. CASE k = c + 1
      BY <3>1, <3>3, <2>2, <1>8
    <3>4. CASE \E j \in c + 1 .. n : k = j + 1
      <4>1. PICK j \in c + 1 .. n : k = j + 1
        BY <3>4
      <4>2. j \in 1 .. n /\ i \in 1 .. n /\ j < i
        BY <3>1, <4>1, <1>6
      <4>3. NotBelow(index[j], index[i])
        BY <4>2, <1>1 DEF Ordered
      <4> QED
        BY <4>1, <4>3, <3>1, <1>8
    <3> QED
      BY <3>2, <3>3, <3>4, <1>10
  <2> QED
    BY <2>3, <2>4, <2>5, <1>10
<1>12. \E k \in DOMAIN ix : ix[k] = e
  <2>1. c + 1 \in 1 .. n + 1
    BY <1>6
  <2> QED
    BY <2>1, <1>8, <1>9
<1>13. \A i \in DOMAIN index : \E k \in DOMAIN ix : ix[k] = index[i]
  <2> TAKE i \in DOMAIN index
  <2>1. CASE i \in 1 .. c
    BY <2>1, <1>6, <1>8, <1>9
  <2>2. CASE i \in c + 1 .. n
    <3>1. i + 1 \in 1 .. n + 1
      BY <2>2, <1>6
    <3> QED
      BY <3>1, <2>2, <1>8, <1>9
  <2>3. i \in 1 .. c \/ i \in c + 1 .. n
    BY <1>1, <1>6
  <2> QED
    BY <2>1, <2>2, <2>3
<1>14. \A k \in DOMAIN ix : ix[k] = e \/ \E i \in DOMAIN index : ix[k] = index[i]
  <2> TAKE k \in DOMAIN ix
  <2>1. CASE k \in 1 .. c
    <3>1. k \in 1 .. n
      BY <2>1, <1>6
    <3> QED
      BY <2>1, <3>1, <1>1, <1>8
  <2>2. CASE k = c + 1
    BY <2>2, <1>8
  <2>3. CASE \E i \in c + 1 .. n : k = i + 1
    <3>1. PICK i \in c + 1 .. n : k = i + 1
      BY <2>3
    <3>2. i \in 1 .. n
      BY <1>6
    <3> QED
      BY <3>1, <3>2, <1>1, <1>8
  <2> QED
    BY <2>1, <2>2, <2>3, <1>9, <1>10
<1>15. ASSUME \A i, j \in DOMAIN index : index[i].profile.id = index[j].profile.id => i = j,
              \A i \in DOMAIN index : index[i].profile.id # e.profile.id,
              NEW k \in DOMAIN ix, NEW m \in DOMAIN ix, ix[k].profile.id = ix[m].profile.id
       PROVE  k = m
  <2>1. \A x \in 1 .. n + 1 :
          \/ x = c + 1 /\ ix[x] = e
          \/ \E i \in 1 .. n : ix[x] = index[i] /\ ((i \in 1 .. c /\ x = i) \/ (i \in c + 1 .. n /\ x = i + 1))
    <3> TAKE x \in 1 .. n + 1
    <3>1. CASE x \in 1 .. c
      <4>1. x \in 1 .. n
        BY <3>1, <1>6
      <4> QED
        BY <4>1, <3>1, <1>8
    <3>2. CASE x = c + 1
      BY <3>2, <1>8
    <3>3. CASE \E i \in c + 1 .. n : x = i + 1
      <4>1. PICK i \in c + 1 .. n : x = i + 1
        BY <3>3
      <4>2. i \in 1 .. n
        BY <1>6
      <4> QED
        BY <4>1, <4>2, <1>8
    <3> QED
      BY <3>1, <3>2, <3>3, <1>10
  <2>2. CASE ix[k] = e /\ ix[m] = e
    <3>1. k = c + 1 /\ m = c + 1
      BY <2>1, <2>2, <1>1, <1>9, <1>15
    <3> QED
      BY <3>1
  <2>3. CASE ix[k] # e \/ ix[m] # e
    <3>1. ix[k] # e /\ ix[m] # e
      <4>1. \A x, y \in 1 .. n + 1 : ix[x] = e /\ ix[y] # e => ix[x].profile.id # ix[y].profile.id
        BY <2>1, <1>1, <1>15
      <4> QED
        BY <4>1, <2>3, <1>9, <1>15
    <3>2. PICK i \in 1 .. n : ix[k] = index[i] /\ ((i \in 1 .. c /\ k = i) \/ (i \in c + 1 .. n /\ k = i + 1))
      BY <2>1, <3>1, <1>9
    <3>3. PICK j \in 1 .. n : ix[m] = index[j] /\ ((j \in 1 .. c /\ m = j) \/ (j \in c + 1 .. n /\ m = j + 1))
      BY <2>1, <3>1, <1>9
    <3>4. i = j
      BY <3>2, <3>3, <1>1, <1>15
    <3> QED
      BY <3>2, <3>3, <3>4, <1>6
  <2> QED
    BY <2>2, <2>3
<1> QED
  BY <1>8, <1>11, <1>12, <1>13, <1>14, <1>15 DEF Gained

-----------------------------------------------------------------------------
(* What has been read. *)

Tiers == {"project", "user", "builtin"}

\* Where a tier's files begin in the order of reading.
Before(l, t) ==
  IF t = "project" THEN 0 ELSE IF t = "user" THEN Len(l["project"]) ELSE Len(l["project"]) + Len(l["user"])

\* The order of reading, tier by tier.
LEMMA TieredAt ==
  ASSUME NEW l \in Libraries
  PROVE  /\ Tiered(l) \in Seq(ToSet(Tiered(l)))
         /\ \A t \in Tiers : l[t] \in Seq(ToSet(l[t])) /\ Before(l, t) \in Nat
         /\ \A t \in Tiers : \A k \in DOMAIN l[t] :
              /\ Before(l, t) + k \in DOMAIN Tiered(l)
              /\ Tiered(l)[Before(l, t) + k] = [tier |-> t, file |-> l[t][k]]
         /\ \A i \in DOMAIN Tiered(l) :
              \E t \in Tiers : \E k \in DOMAIN l[t] : i = Before(l, t) + k
         /\ \A t, u \in Tiers : Rank[t] < Rank[u] => Before(l, t) + Len(l[t]) <= Before(l, u)
<1>1. DOMAIN l = Tiers /\ \A t \in Tiers : l[t] \in Seq(ToSet(l[t]))
  BY ProfilesAssumption DEF Tiers
<1>2. PICK p, u, b : p = l["project"] /\ u = l["user"] /\ b = l["builtin"]
  OBVIOUS
<1>3. PICK np \in Nat, nu \in Nat, nb \in Nat :
        /\ np = Len(p) /\ nu = Len(u) /\ nb = Len(b)
        /\ DOMAIN p = 1 .. np /\ DOMAIN u = 1 .. nu /\ DOMAIN b = 1 .. nb
  BY <1>1, <1>2 DEF Tiers
<1> DEFINE tier(t) == [i \in DOMAIN l[t] |-> [tier |-> t, file |-> l[t][i]]]
           All == {[tier |-> t, file |-> f] : t \in Tiers, f \in ToSet(p) \cup ToSet(u) \cup ToSet(b)}
<1>4. PICK x, y, z : x = tier("project") /\ y = tier("user") /\ z = tier("builtin")
  OBVIOUS
<1>5. /\ x = [i \in 1 .. np |-> [tier |-> "project", file |-> p[i]]]
      /\ y = [i \in 1 .. nu |-> [tier |-> "user", file |-> u[i]]]
      /\ z = [i \in 1 .. nb |-> [tier |-> "builtin", file |-> b[i]]]
  BY <1>2, <1>3, <1>4
<1>6. /\ \A i \in 1 .. np : [tier |-> "project", file |-> p[i]] \in All
      /\ \A i \in 1 .. nu : [tier |-> "user", file |-> u[i]] \in All
      /\ \A i \in 1 .. nb : [tier |-> "builtin", file |-> b[i]] \in All
  <2>1. \A t \in Tiers, f \in ToSet(p) \cup ToSet(u) \cup ToSet(b) : [tier |-> t, file |-> f] \in All
    OBVIOUS
  <2>2. /\ \A i \in 1 .. np : p[i] \in ToSet(p)
        /\ \A i \in 1 .. nu : u[i] \in ToSet(u)
        /\ \A i \in 1 .. nb : b[i] \in ToSet(b)
    BY <1>3 DEF ToSet
  <2> HIDE DEF All
  <2> QED
    BY <2>1, <2>2 DEF Tiers
<1> HIDE DEF All, tier
<1>7. PICK T : T = All
  OBVIOUS
<1>8. x \in Seq(T) /\ Len(x) = np /\ y \in Seq(T) /\ Len(y) = nu /\ z \in Seq(T) /\ Len(z) = nb
  BY <1>5, <1>6, <1>7
<1>9. PICK v : v = x \o y
  OBVIOUS
<1>10. /\ v \in Seq(T) /\ Len(v) = np + nu
       /\ \A i \in 1 .. np : v[i] = x[i]
       /\ \A i \in 1 .. nu : v[np + i] = y[i]
  <2>1. /\ v \in Seq(T) /\ Len(v) = Len(x) + Len(y)
        /\ \A i \in 1 .. Len(x) : v[i] = x[i]
        /\ \A i \in 1 .. Len(y) : v[Len(x) + i] = y[i]
    <3>1. x \in Seq(T) /\ y \in Seq(T)
      BY <1>8
    <3> QED
      BY <3>1, <1>9, CatAt
  <2> QED
    BY <2>1, <1>8
<1>11. PICK w : w = v \o z
  OBVIOUS
<1>12. /\ w \in Seq(T) /\ Len(w) = (np + nu) + nb
       /\ \A i \in 1 .. np + nu : w[i] = v[i]
       /\ \A i \in 1 .. nb : w[(np + nu) + i] = z[i]
  <2>1. /\ w \in Seq(T) /\ Len(w) = Len(v) + Len(z)
        /\ \A i \in 1 .. Len(v) : w[i] = v[i]
        /\ \A i \in 1 .. Len(z) : w[Len(v) + i] = z[i]
    <3>1. v \in Seq(T) /\ z \in Seq(T)
      BY <1>8, <1>10
    <3> QED
      BY <3>1, <1>11, CatAt
  <2> QED
    BY <2>1, <1>8, <1>10
<1>13. Tiered(l) = w
  BY <1>4, <1>9, <1>11 DEF Tiered, tier
<1>14. /\ \A i \in 1 .. np : w[i] = [tier |-> "project", file |-> p[i]]
       /\ \A i \in 1 .. nu : w[np + i] = [tier |-> "user", file |-> u[i]]
       /\ \A i \in 1 .. nb : w[(np + nu) + i] = [tier |-> "builtin", file |-> b[i]]
  <2>1. \A i \in 1 .. np : w[i] = [tier |-> "project", file |-> p[i]]
    <3>1. \A i \in 1 .. np : i \in 1 .. np + nu
      OBVIOUS
    <3> QED
      BY <3>1, <1>5, <1>10, <1>12
  <2>2. \A i \in 1 .. nu : w[np + i] = [tier |-> "user", file |-> u[i]]
    <3>1. \A i \in 1 .. nu : np + i \in 1 .. np + nu
      OBVIOUS
    <3> QED
      BY <3>1, <1>5, <1>10, <1>12
  <2> QED
    BY <2>1, <2>2, <1>5, <1>12
<1>15. DOMAIN w = 1 .. (np + nu) + nb
  BY <1>12
<1>16. Before(l, "project") = 0 /\ Before(l, "user") = np /\ Before(l, "builtin") = np + nu
  BY <1>2, <1>3 DEF Before
<1>17. w \in Seq(ToSet(w))
  <2>1. \A i \in DOMAIN w : w[i] \in ToSet(w)
    BY DEF ToSet
  <2>2. w = [i \in 1 .. (np + nu) + nb |-> w[i]]
    BY <1>12, <1>15
  <2> QED
    BY <2>1, <2>2, <1>15
<1>18. \A t \in Tiers : \A k \in DOMAIN l[t] :
         Before(l, t) + k \in DOMAIN w /\ w[Before(l, t) + k] = [tier |-> t, file |-> l[t][k]]
  <2>1. \A k \in 1 .. np : k \in DOMAIN w /\ 0 + k = k
    BY <1>15
  <2>2. \A k \in 1 .. nu : np + k \in DOMAIN w
    BY <1>15
  <2>3. \A k \in 1 .. nb : (np + nu) + k \in DOMAIN w
    BY <1>15
  <2>4. \A k \in DOMAIN l["project"] : Before(l, "project") + k \in DOMAIN w
          /\ w[Before(l, "project") + k] = [tier |-> "project", file |-> l["project"][k]]
    BY <2>1, <1>2, <1>3, <1>14, <1>16
  <2>5. \A k \in DOMAIN l["user"] : Before(l, "user") + k \in DOMAIN w
          /\ w[Before(l, "user") + k] = [tier |-> "user", file |-> l["user"][k]]
    BY <2>2, <1>2, <1>3, <1>14, <1>16
  <2>6. \A k \in DOMAIN l["builtin"] : Before(l, "builtin") + k \in DOMAIN w
          /\ w[Before(l, "builtin") + k] = [tier |-> "builtin", file |-> l["builtin"][k]]
    BY <2>3, <1>2, <1>3, <1>14, <1>16
  <2> QED
    BY <2>4, <2>5, <2>6 DEF Tiers
<1>19. \A i \in DOMAIN w : \E t \in Tiers : \E k \in DOMAIN l[t] : i = Before(l, t) + k
  <2> TAKE i \in DOMAIN w
  <2>1. CASE i <= np
    <3>1. i \in DOMAIN l["project"] /\ i = Before(l, "project") + i
      BY <2>1, <1>2, <1>3, <1>15, <1>16
    <3> QED
      BY <3>1 DEF Tiers
  <2>2. CASE i > np /\ i <= np + nu
    <3>1. PICK k \in 1 .. nu : i = np + k
      <4>1. i - np \in 1 .. nu /\ i = np + (i - np)
        BY <2>2, <1>15
      <4> QED
        BY <4>1
    <3>2. k \in DOMAIN l["user"] /\ i = Before(l, "user") + k
      BY <3>1, <1>2, <1>3, <1>16
    <3> QED
      BY <3>2 DEF Tiers
  <2>3. CASE i > np + nu
    <3>1. PICK k \in 1 .. nb : i = (np + nu) + k
      <4>1. i - (np + nu) \in 1 .. nb /\ i = (np + nu) + (i - (np + nu))
        BY <2>3, <1>15
      <4> QED
        BY <4>1
    <3>2. k \in DOMAIN l["builtin"] /\ i = Before(l, "builtin") + k
      BY <3>1, <1>2, <1>3, <1>16
    <3> QED
      BY <3>2 DEF Tiers
  <2> QED
    BY <2>1, <2>2, <2>3, <1>15
<1>20. \A t, s \in Tiers : Rank[t] < Rank[s] => Before(l, t) + Len(l[t]) <= Before(l, s)
  <2>1. Rank["project"] = 1 /\ Rank["user"] = 2 /\ Rank["builtin"] = 3
    BY DEF Rank
  <2> SUFFICES ASSUME NEW t \in Tiers, NEW s \in Tiers, Rank[t] < Rank[s]
               PROVE  Before(l, t) + Len(l[t]) <= Before(l, s)
    OBVIOUS
  <2>2. \/ t = "project" /\ s \in {"user", "builtin"}
        \/ t = "user" /\ s = "builtin"
    BY <2>1 DEF Tiers
  <2>3. /\ Before(l, "project") + Len(l["project"]) <= Before(l, "user")
        /\ Before(l, "project") + Len(l["project"]) <= Before(l, "builtin")
        /\ Before(l, "user") + Len(l["user"]) <= Before(l, "builtin")
    <3>1. Len(l["project"]) = np /\ Len(l["user"]) = nu
      BY <1>2, <1>3
    <3>2. 0 + np <= np /\ 0 + np <= np + nu /\ np + nu <= np + nu
      OBVIOUS
    <3> QED
      BY <3>1, <3>2, <1>16
  <2>4. CASE t = "project" /\ s = "user"
    BY <2>3, <2>4, Zenon
  <2>5. CASE t = "project" /\ s = "builtin"
    BY <2>3, <2>5, Zenon
  <2>6. CASE t = "user" /\ s = "builtin"
    BY <2>3, <2>6, Zenon
  <2> QED
    BY <2>2, <2>4, <2>5, <2>6
<1>21. \A t \in Tiers : Before(l, t) \in Nat
  BY <1>16 DEF Tiers
<1> QED
  BY <1>1, <1>13, <1>17, <1>18, <1>19, <1>20, <1>21

-----------------------------------------------------------------------------
(* The invariant of a load and of a resolution. *)

UsableAt(t, i) == Usable(t[i].file, t[i].tier)
IdAt(t, i) == t[i].file.id
EntryAt(t, i) == EntryOf(t[i].file, t[i].tier)

\* The first usable file of its id.
FirstAt(t, i) == UsableAt(t, i) /\ \A j \in 1 .. i - 1 : UsableAt(t, j) => IdAt(t, j) # IdAt(t, i)

\* After g files the index has the first usable one of each id, once.
Indexed(ix, t, g) ==
  /\ \A k \in DOMAIN ix : \E i \in 1 .. g : FirstAt(t, i) /\ ix[k] = EntryAt(t, i)
  /\ \A i \in 1 .. g : FirstAt(t, i) => \E k \in DOMAIN ix : ix[k] = EntryAt(t, i)
  /\ \A k, m \in DOMAIN ix : ix[k].profile.id = ix[m].profile.id => k = m

\* An operator's files that were read are usable, and two of an id in one tier
\* follow one of another tier.
Heard(t, g) ==
  \A i \in 1 .. g :
    t[i].tier # "builtin" /\ t[i].file.damage # "foreign" =>
      /\ UsableAt(t, i)
      /\ \A j \in 1 .. i - 1 :
           UsableAt(t, j) /\ IdAt(t, j) = IdAt(t, i) /\ t[j].tier = t[i].tier =>
             \E h \in 1 .. j - 1 : UsableAt(t, h) /\ IdAt(t, h) = IdAt(t, i) /\ t[h].tier # t[i].tier

\* How many files were read.
ReadOf == Len(Tiered(library)) - Len(files)

ProfileInv ==
  /\ library \in Libraries /\ loading \in {"loading", "loaded", "failed"}
  /\ files \in Seq(ToSet(Tiered(library))) /\ Len(files) <= Len(Tiered(library))
  /\ \A i \in 1 .. Len(files) : files[i] = Tiered(library)[ReadOf + i]
  /\ loading = "loaded" => files = <<>>
  /\ index \in Seq(Rated) /\ Ordered(index) /\ Indexed(index, Tiered(library), ReadOf)
  /\ loading # "failed" => Heard(Tiered(library), ReadOf)
  /\ resolved # Unresolved => loading = "loaded"
  /\ UnknownNotTrusted /\ MostSpecificPattern

\* A file is read from a tier and may be indexed.
LEMMA FileAt ==
  ASSUME NEW l \in Libraries, NEW t, t = Tiered(l), NEW i \in DOMAIN t
  PROVE  /\ EntryAt(t, i) \in Rated /\ EntryAt(t, i).profile.id = IdAt(t, i)
         /\ EntryAt(t, i).tier = t[i].tier /\ t[i].tier \in Tiers
         /\ t[i].file.damage \in {"none", "foreign", "unreadable"}
<1>1. PICK u \in Tiers : \E k \in DOMAIN l[u] : t[i] = [tier |-> u, file |-> l[u][k]]
  <2>1. i \in DOMAIN Tiered(l)
    OBVIOUS
  <2>2. PICK u \in Tiers : \E k \in DOMAIN l[u] : i = Before(l, u) + k
    BY <2>1, TieredAt
  <2>3. PICK k \in DOMAIN l[u] : i = Before(l, u) + k
    BY <2>2
  <2>4. Tiered(l)[Before(l, u) + k] = [tier |-> u, file |-> l[u][k]]
    BY TieredAt
  <2> QED
    BY <2>3, <2>4
<1>14. PICK k \in DOMAIN l[u] : t[i] = [tier |-> u, file |-> l[u][k]]
  BY <1>1
<1>2. PICK f : f = l[u][k] /\ t[i] = [tier |-> u, file |-> f]
  BY <1>14
<1>3. t[i].tier = u /\ t[i].file = f
  BY <1>1, <1>2
<1>4. u \in DOMAIN l /\ f \in ToSet(l[u])
  BY <1>1, <1>2, ProfilesAssumption DEF Tiers, ToSet
<1>5. /\ f.damage \in {"none", "foreign", "unreadable"} /\ IsFiniteSet(f.backends)
      /\ f.patterns \in Seq(ToSet(f.patterns))
      /\ \A p \in ToSet(f.patterns) : p.shape \in {"any", "exact", "prefix", "inside"} /\ p.length \in Nat
  BY <1>4, ProfilesAssumption
<1>6. \A p \in ToSet(f.patterns) : PatternScore(p) \in Int
  BY <1>5 DEF PatternScore
<1>7. PICK e : e = EntryOf(f, u)
  OBVIOUS
<1>8. /\ e = [profile |-> FromYaml(f), patterns |-> f.patterns, backends |-> f.backends, tier |-> u]
      /\ e.profile.id = f.id
  BY <1>7 DEF EntryOf, FromYaml
<1>9. Score(e) \in Int
  <2>1. e.patterns = f.patterns
    BY <1>8
  <2>2. e.patterns \in Seq(ToSet(e.patterns)) /\ \A p \in ToSet(e.patterns) : PatternScore(p) \in Int
    BY <2>1, <1>5, <1>6
  <2> QED
    BY <2>2, ScoreIsInt
<1>10. Cardinality(e.backends) \in Nat
  BY <1>5, <1>8, FS_CardinalityType
<1>11. e \in Rated
  <2>1. f \in UNION {UNION {ToSet(x[y]) : y \in DOMAIN x} : x \in Libraries}
    BY <1>4
  <2> QED
    BY <2>1, <1>8, <1>9, <1>10 DEF Rated, Tiers
<1>12. EntryAt(t, i) = e /\ IdAt(t, i) = f.id
  BY <1>3, <1>7 DEF EntryAt, IdAt
<1> QED
  BY <1>1, <1>3, <1>5, <1>8, <1>11, <1>12

\* Of the usable files of an id one is the first.
LEMMA FirstOfThem ==
  ASSUME NEW t, NEW g \in Nat, NEW j \in 1 .. g, UsableAt(t, j)
  PROVE  \E i \in 1 .. j : FirstAt(t, i) /\ IdAt(t, i) = IdAt(t, j)
<1> DEFINE D == {i \in 1 .. j : UsableAt(t, i) /\ IdAt(t, i) = IdAt(t, j)}
<1>1. D \in SUBSET Nat /\ D # {}
  <2>1. j \in 1 .. j
    OBVIOUS
  <2> QED
    BY <2>1
<1>2. PICK i : i = Min(D)
  OBVIOUS
<1>3. i \in D /\ \A k \in D : i <= k
  <2> HIDE DEF D
  <2> QED
    BY <1>1, <1>2, SomeMin
<1>4. ASSUME NEW k \in 1 .. i - 1, UsableAt(t, k), IdAt(t, k) = IdAt(t, i)
      PROVE  FALSE
  <2>1. k \in 1 .. j /\ k < i
    BY <1>3
  <2>2. k \in D
    BY <2>1, <1>3, <1>4
  <2> QED
    BY <2>1, <2>2, <1>3
<1> QED
  BY <1>3, <1>4 DEF FirstAt

\* An id is registered when a usable file of it was read.
LEMMA RegisteredWhenRead ==
  ASSUME NEW l \in Libraries, NEW t, t = Tiered(l), NEW g \in 0 .. Len(t), Indexed(index, t, g), NEW id
  PROVE  Registered(id) = {} <=> \A j \in 1 .. g : UsableAt(t, j) => IdAt(t, j) # id
<1>1. DOMAIN t = 1 .. Len(t) /\ Len(t) \in Nat
  BY TieredAt
<1>2. ASSUME NEW k \in Registered(id) PROVE \E j \in 1 .. g : UsableAt(t, j) /\ IdAt(t, j) = id
  <2>1. k \in DOMAIN index /\ index[k].profile.id = id
    BY <1>2 DEF Registered
  <2>2. PICK i \in 1 .. g : FirstAt(t, i) /\ index[k] = EntryAt(t, i)
    BY <2>1 DEF Indexed
  <2>3. i \in DOMAIN t
    BY <1>1
  <2> QED
    BY <2>1, <2>2, <2>3, FileAt DEF FirstAt
<1>3. ASSUME NEW j \in 1 .. g, UsableAt(t, j), IdAt(t, j) = id PROVE Registered(id) # {}
  <2>1. PICK i \in 1 .. j : FirstAt(t, i) /\ IdAt(t, i) = id
    <3>1. g \in Nat
      BY <1>1
    <3>2. \E i \in 1 .. j : FirstAt(t, i) /\ IdAt(t, i) = IdAt(t, j)
      BY <3>1, <1>3, FirstOfThem
    <3> QED
      BY <3>2, <1>3
  <2>2. i \in 1 .. g /\ i \in DOMAIN t
    BY <1>1
  <2>3. PICK k \in DOMAIN index : index[k] = EntryAt(t, i)
    BY <2>1, <2>2 DEF Indexed
  <2>4. index[k].profile.id = id
    BY <2>1, <2>2, <2>3, FileAt
  <2> QED
    BY <2>4 DEF Registered
<1> QED
  BY <1>2, <1>3

\* Nothing is read and nothing resolved at first.
LEMMA ProfileInvInit == ProfilesInit => ProfileInv
<1> SUFFICES ASSUME ProfilesInit PROVE ProfileInv
  OBVIOUS
<1>1. /\ library \in Libraries /\ files = Tiered(library) /\ index = <<>> /\ resolved = Unresolved
      /\ loading = IF files = <<>> THEN "loaded" ELSE "loading"
  BY DEF ProfilesInit
<1>2. PICK t : t = Tiered(library)
  OBVIOUS
<1>3. t \in Seq(ToSet(t)) /\ Len(t) \in Nat
  BY <1>1, <1>2, TieredAt
<1>4. ReadOf = 0
  BY <1>1, <1>2, <1>3 DEF ReadOf
<1>5. \A i \in 1 .. Len(files) : files[i] = Tiered(library)[ReadOf + i]
  BY <1>1, <1>2, <1>3, <1>4
<1>6. index \in Seq(Rated) /\ Ordered(index) /\ Indexed(index, t, 0) /\ Heard(t, 0)
  BY <1>1 DEF Ordered, Indexed, Heard
<1>7. UnknownNotTrusted /\ MostSpecificPattern
  BY <1>1 DEF UnknownNotTrusted, MostSpecificPattern
<1> QED
  BY <1>1, <1>2, <1>3, <1>4, <1>5, <1>6, <1>7 DEF ProfileInv

\* What reading one file does.
LEMMA LoadFileReads ==
  ASSUME ProfileInv, LoadFile, NEW t, t = Tiered(library), NEW g, g = ReadOf
  PROVE  /\ library' = library /\ resolved' = resolved /\ loading = "loading"
         /\ loading' \in {"loading", "loaded", "failed"}
         /\ g + 1 \in DOMAIN t /\ ReadOf' = g + 1 /\ g \in 0 .. Len(t)
         /\ files' \in Seq(ToSet(t)) /\ Len(files') <= Len(t)
         /\ \A i \in 1 .. Len(files') : files'[i] = t[ReadOf' + i]
         /\ loading' = "loaded" => files' = <<>>
         /\ index' = IF FirstAt(t, g + 1) THEN Placed(EntryAt(t, g + 1)) ELSE index
         /\ loading' # "failed" /\ t[g + 1].tier # "builtin" /\ t[g + 1].file.damage # "foreign" =>
              UsableAt(t, g + 1) /\ ~Duplicate(EntryAt(t, g + 1))
<1>1. /\ library \in Libraries /\ files \in Seq(ToSet(t)) /\ Len(files) <= Len(t)
      /\ \A i \in 1 .. Len(files) : files[i] = t[g + i]
      /\ Indexed(index, t, g)
  BY DEF ProfileInv
<1>2. t \in Seq(ToSet(t)) /\ Len(t) \in Nat /\ DOMAIN t = 1 .. Len(t)
  BY <1>1, TieredAt
<1>3. files # <<>> /\ loading = "loading" /\ files' = Tail(files) /\ library' = library /\ resolved' = resolved
  BY DEF LoadFile
<1>4. PICK m \in Nat : m = Len(files) /\ m <= Len(t) /\ m # 0 /\ g = Len(t) - m
  BY <1>1, <1>2, <1>3 DEF ReadOf
<1>5. g \in 0 .. Len(t) /\ g + 1 \in DOMAIN t
  BY <1>2, <1>4
<1>6. Head(files) = t[g + 1]
  <2>1. 1 \in 1 .. Len(files) /\ Head(files) = files[1]
    BY <1>1, <1>3, <1>4
  <2> QED
    BY <2>1, <1>1
<1>7. files' \in Seq(ToSet(t)) /\ Len(files') = m - 1 /\ \A i \in 1 .. m - 1 : files'[i] = files[i + 1]
  BY <1>1, <1>3, <1>4
<1>8. ReadOf' = g + 1
  <2>1. ReadOf' = Len(Tiered(library))' - Len(files')
    BY DEF ReadOf
  <2>2. Tiered(library)' = t
    <3>1. Tiered(library)' = Tiered(library')
      BY DEF Tiered
    <3> QED
      BY <3>1, <1>3
  <2>3. Len(t) - (m - 1) = g + 1
    BY <1>2, <1>4
  <2> QED
    BY <2>1, <2>2, <2>3, <1>7
<1>9. \A i \in 1 .. Len(files') : files'[i] = t[ReadOf' + i]
  <2> TAKE i \in 1 .. Len(files')
  <2>1. i \in 1 .. m - 1 /\ i + 1 \in 1 .. m
    BY <1>4, <1>7
  <2>2. files'[i] = t[g + (i + 1)]
    BY <2>1, <1>1, <1>4, <1>7
  <2>3. g + (i + 1) = (g + 1) + i
    BY <1>5, <2>1
  <2> QED
    BY <2>2, <2>3, <1>8
<1>10. PICK f, tier : f = t[g + 1].file /\ tier = t[g + 1].tier
  OBVIOUS
<1>11. PICK e : e = EntryOf(f, tier)
  OBVIOUS
<1>12. e = EntryAt(t, g + 1) /\ e.profile.id = f.id /\ f.damage \in {"none", "foreign", "unreadable"}
  BY <1>1, <1>5, <1>10, <1>11, FileAt DEF EntryAt, IdAt
<1> DEFINE bad == f.damage = "unreadable" \/ SchemaIssues(f) \/ TierIssues(f, tier) \/ Duplicate(e)
<1>13. \/ f.damage = "foreign" /\ loading' = Finish /\ UNCHANGED index
       \/ /\ f.damage # "foreign" /\ bad /\ UNCHANGED index
          /\ loading' = IF tier = "builtin" THEN Finish ELSE "failed"
       \/ /\ f.damage # "foreign" /\ ~bad /\ loading' = Finish
          /\ index' = IF Superseded(e) THEN index ELSE Placed(e)
  <2>1. Head(files).tier = tier /\ Head(files).file = f
    BY <1>6, <1>10
  <2> QED
    BY <2>1, <1>11 DEF LoadFile
<1>14. f.damage # "foreign" /\ ~bad <=> Usable(f, tier) /\ ~Duplicate(e)
  BY <1>12 DEF Usable
<1>15. Duplicate(e) \/ Superseded(e) <=> Registered(e.profile.id) # {}
  BY DEF Duplicate, Superseded
<1>16. FirstAt(t, g + 1) <=> Usable(f, tier) /\ Registered(e.profile.id) = {}
  <2>1. Registered(e.profile.id) = {} <=> \A j \in 1 .. g : UsableAt(t, j) => IdAt(t, j) # e.profile.id
    BY <1>1, <1>5, RegisteredWhenRead
  <2>2. (g + 1) - 1 = g
    BY <1>5
  <2>3. UsableAt(t, g + 1) <=> Usable(f, tier)
    BY <1>10 DEF UsableAt
  <2>4. IdAt(t, g + 1) = e.profile.id
    BY <1>10, <1>12 DEF IdAt
  <2> QED
    BY <2>1, <2>2, <2>3, <2>4 DEF FirstAt
<1> HIDE DEF bad
<1>17. index' = IF FirstAt(t, g + 1) THEN Placed(EntryAt(t, g + 1)) ELSE index
  <2>1. index' = IF FirstAt(t, g + 1) THEN Placed(e) ELSE index
    BY <1>13, <1>14, <1>15, <1>16
  <2> QED
    BY <2>1, <1>12
<1>18. loading' # "failed" /\ t[g + 1].tier # "builtin" /\ t[g + 1].file.damage # "foreign" =>
         UsableAt(t, g + 1) /\ ~Duplicate(EntryAt(t, g + 1))
  BY <1>10, <1>12, <1>13, <1>14 DEF UsableAt
<1>19. loading' \in {"failed", Finish}
  BY <1>13
<1>20. Finish \in {"loading", "loaded"} /\ (Finish = "loaded" => files' = <<>>)
  BY <1>3, <1>4, <1>7 DEF Finish
<1> QED
  BY <1>3, <1>5, <1>7, <1>8, <1>9, <1>17, <1>18, <1>19, <1>20, <1>2, <1>4

\* Reading one more file leaves the first usable one of each id in the index.
LEMMA IndexedStep ==
  ASSUME NEW l \in Libraries, NEW t, t = Tiered(l), NEW g \in Nat, g + 1 \in DOMAIN t, Indexed(index, t, g),
         index \in Seq(Rated), Ordered(index),
         NEW ix, ix = IF FirstAt(t, g + 1) THEN Placed(EntryAt(t, g + 1)) ELSE index
  PROVE  ix \in Seq(Rated) /\ Ordered(ix) /\ Indexed(ix, t, g + 1)
<1>1. \A i \in 1 .. g + 1 : i \in 1 .. g \/ i = g + 1
  OBVIOUS
<1>2. \A i \in 1 .. g : i \in 1 .. g + 1
  OBVIOUS
<1>3. CASE ~FirstAt(t, g + 1)
  <2>1. ix = index
    BY <1>3
  <2>2. Indexed(index, t, g + 1)
    BY <1>1, <1>2, <1>3 DEF Indexed
  <2> QED
    BY <2>1, <2>2
<1>4. CASE FirstAt(t, g + 1)
  <2>1. PICK e \in Rated : e = EntryAt(t, g + 1) /\ e.profile.id = IdAt(t, g + 1)
    BY FileAt
  <2>2. ix = Placed(e)
    BY <1>4, <2>1
  <2>3. DOMAIN t = 1 .. Len(t) /\ Len(t) \in Nat
    BY TieredAt
  <2>4. \A i \in DOMAIN index : index[i].profile.id # e.profile.id
    <3> SUFFICES ASSUME NEW k \in DOMAIN index PROVE index[k].profile.id # e.profile.id
      OBVIOUS
    <3>1. PICK i \in 1 .. g : FirstAt(t, i) /\ index[k] = EntryAt(t, i)
      BY DEF Indexed
    <3>2. i \in DOMAIN t /\ i \in 1 .. (g + 1) - 1
      BY <2>3
    <3>3. index[k].profile.id = IdAt(t, i)
      BY <3>1, <3>2, FileAt
    <3> QED
      BY <3>1, <3>2, <3>3, <2>1, <1>4 DEF FirstAt
  <2>5. ix \in Seq(Rated) /\ Ordered(ix) /\ Gained(index, e, ix)
    BY <2>2, PlacedKeeps
  <2>6. \A k \in DOMAIN ix : \E i \in 1 .. g + 1 : FirstAt(t, i) /\ ix[k] = EntryAt(t, i)
    <3> TAKE k \in DOMAIN ix
    <3>1. CASE ix[k] = e
      <4>1. g + 1 \in 1 .. g + 1
        OBVIOUS
      <4> QED
        BY <3>1, <4>1, <2>1, <1>4
    <3>2. CASE \E i \in DOMAIN index : ix[k] = index[i]
      BY <3>2, <1>2 DEF Indexed
    <3> QED
      BY <3>1, <3>2, <2>5 DEF Gained
  <2>7. \A i \in 1 .. g + 1 : FirstAt(t, i) => \E k \in DOMAIN ix : ix[k] = EntryAt(t, i)
    <3> SUFFICES ASSUME NEW i \in 1 .. g + 1, FirstAt(t, i) PROVE \E k \in DOMAIN ix : ix[k] = EntryAt(t, i)
      OBVIOUS
    <3>1. CASE i = g + 1
      BY <3>1, <2>1, <2>5 DEF Gained
    <3>2. CASE i \in 1 .. g
      <4>1. PICK m \in DOMAIN index : index[m] = EntryAt(t, i)
        BY <3>2 DEF Indexed
      <4> QED
        BY <4>1, <2>5 DEF Gained
    <3> QED
      BY <3>1, <3>2, <1>1
  <2>8. \A k, m \in DOMAIN ix : ix[k].profile.id = ix[m].profile.id => k = m
    BY <2>4, <2>5 DEF Indexed, Gained
  <2> QED
    BY <2>5, <2>6, <2>7, <2>8 DEF Indexed
<1> QED
  BY <1>3, <1>4

\* And leaves no operator's file that is not heard.
LEMMA HeardStep ==
  ASSUME NEW l \in Libraries, NEW t, t = Tiered(l), NEW g \in Nat, g + 1 \in DOMAIN t, Indexed(index, t, g),
         Heard(t, g),
         t[g + 1].tier # "builtin" /\ t[g + 1].file.damage # "foreign" =>
              UsableAt(t, g + 1) /\ ~Duplicate(EntryAt(t, g + 1))
  PROVE  Heard(t, g + 1)
<1>1. DOMAIN t = 1 .. Len(t) /\ Len(t) \in Nat
  BY TieredAt
<1>2. (g + 1) - 1 = g
  OBVIOUS
<1>3. ASSUME t[g + 1].tier # "builtin", t[g + 1].file.damage # "foreign",
             NEW j \in 1 .. g, UsableAt(t, j), IdAt(t, j) = IdAt(t, g + 1), t[j].tier = t[g + 1].tier
      PROVE  \E h \in 1 .. j - 1 : UsableAt(t, h) /\ IdAt(t, h) = IdAt(t, g + 1) /\ t[h].tier # t[g + 1].tier
  <2>1. PICK h \in 1 .. j : FirstAt(t, h) /\ IdAt(t, h) = IdAt(t, j)
    BY <1>3, FirstOfThem
  <2>2. h \in 1 .. g /\ h \in DOMAIN t
    BY <1>1
  <2>3. PICK k \in DOMAIN index : index[k] = EntryAt(t, h)
    BY <2>1, <2>2 DEF Indexed
  <2>4. index[k].profile.id = IdAt(t, g + 1) /\ index[k].tier = t[h].tier
    BY <2>1, <2>2, <2>3, <1>3, FileAt
  <2>5. EntryAt(t, g + 1).profile.id = IdAt(t, g + 1) /\ EntryAt(t, g + 1).tier = t[g + 1].tier
    BY FileAt
  <2>6. index[k].tier # EntryAt(t, g + 1).tier
    <3>1. k \in Registered(EntryAt(t, g + 1).profile.id)
      BY <2>4, <2>5 DEF Registered
    <3> QED
      BY <3>1, <1>3 DEF Duplicate
  <2>7. t[h].tier # t[g + 1].tier
    BY <2>4, <2>5, <2>6
  <2>8. h \in 1 .. j - 1
    <3>1. h # j
      BY <2>7, <1>3
    <3> QED
      BY <3>1
  <2> QED
    BY <2>1, <2>7, <2>8, <1>3 DEF FirstAt
<1> SUFFICES ASSUME NEW i \in 1 .. g + 1, t[i].tier # "builtin", t[i].file.damage # "foreign"
             PROVE  /\ UsableAt(t, i)
                    /\ \A j \in 1 .. i - 1 :
                         UsableAt(t, j) /\ IdAt(t, j) = IdAt(t, i) /\ t[j].tier = t[i].tier =>
                           \E h \in 1 .. j - 1 : UsableAt(t, h) /\ IdAt(t, h) = IdAt(t, i) /\ t[h].tier # t[i].tier
  BY DEF Heard
<1>4. CASE i \in 1 .. g
  BY <1>4 DEF Heard
<1>5. CASE i = g + 1
  BY <1>2, <1>3, <1>5
<1> QED
  BY <1>4, <1>5


\* What a request is resolved to: by name the first entry that matches, with
\* nothing known the fallback and its low confidence.
LEMMA BaseOf ==
  ASSUME index \in Seq(Rated), Ordered(index), NEW name, NEW claims, NEW backend, NEW explicit,
         NEW b, b = Base(name, claims, backend, explicit)
  PROVE  /\ b.source \in {"explicit", "builtin", "backend", "fallback"}
         /\ b.source \in {"builtin", "backend"} => b.id # FallbackId
         /\ explicit = "none" /\ b.id = FallbackId => b.confidence = 10
         /\ b.source = "builtin" =>
              \E i \in Matching(name, backend) :
                /\ index[i].profile.id = b.id
                /\ \A j \in Matching(name, backend) : Score(index[j]) <= Score(index[i])
<1>1. PICK n \in Nat : n = Len(index) /\ DOMAIN index = 1 .. n
  OBVIOUS
<1>2. ASSUME NEW x, Matching(x, backend) # {}
      PROVE  LET i == Min(Matching(x, backend)) IN
             /\ i \in Matching(x, backend) /\ index[i].profile.id # FallbackId
             /\ \A j \in Matching(x, backend) : Score(index[j]) <= Score(index[i])
  <2>1. PICK D : D = Matching(x, backend)
    OBVIOUS
  <2>2. D \in SUBSET Nat /\ D # {} /\ D \subseteq 1 .. n
    BY <1>1, <1>2, <2>1 DEF Matching
  <2>3. PICK i : i = Min(D)
    OBVIOUS
  <2>4. i \in D /\ \A k \in D : i <= k
    BY <2>2, <2>3, SomeMin
  <2>5. index[i].profile.id # FallbackId
    BY <2>1, <2>4 DEF Matching, Matches
  <2>6. \A j \in D : Score(index[j]) <= Score(index[i])
    <3> TAKE j \in D
    <3>1. i \in 1 .. n /\ j \in 1 .. n /\ (j = i \/ i < j)
      BY <2>2, <2>4
    <3>2. index[i] \in Rated /\ index[j] \in Rated
      BY <3>1, <1>1
    <3>3. Score(index[i]) \in Int /\ Score(index[j]) \in Int
      BY <3>2 DEF Rated
    <3>4. CASE i = j
      BY <3>3, <3>4
    <3>5. CASE i < j
      <4>1. NotBelow(index[i], index[j])
        BY <3>1, <3>5, <1>1 DEF Ordered
      <4> QED
        BY <4>1, <3>3 DEF NotBelow
    <3> QED
      BY <3>1, <3>4, <3>5
  <2> QED
    BY <2>1, <2>3, <2>4, <2>5, <2>6
<1>3. CASE Registered(explicit) # {}
  <2>1. PICK D : D = Registered(explicit)
    OBVIOUS
  <2>2. D \in SUBSET Nat /\ D # {}
    BY <1>1, <1>3, <2>1 DEF Registered
  <2>3. PICK i : i = Min(D)
    OBVIOUS
  <2>4. i \in D
    BY <2>2, <2>3, SomeMin
  <2>5. b = Effective(index[i].profile, "explicit", 90)
    BY <1>3, <2>1, <2>3 DEF Base
  <2>6. index[i].profile.id = explicit
    BY <2>1, <2>4 DEF Registered
  <2>7. b.id = explicit /\ b.source = "explicit"
    BY <2>5, <2>6 DEF Effective
  <2> QED
    BY <2>7 DEF FallbackId
<1>4. CASE Registered(explicit) = {} /\ Matching(name, backend) # {}
  <2>1. b = Effective(BestMatch(name, backend), "builtin", 80)
    BY <1>4 DEF Base
  <2>2. PICK i : i = Min(Matching(name, backend))
    OBVIOUS
  <2>3. /\ i \in Matching(name, backend) /\ index[i].profile.id # FallbackId
        /\ \A j \in Matching(name, backend) : Score(index[j]) <= Score(index[i])
    BY <1>2, <1>4, <2>2
  <2>4. BestMatch(name, backend) = index[i].profile
    BY <2>2 DEF BestMatch
  <2>5. b.id = index[i].profile.id /\ b.source = "builtin"
    BY <2>1, <2>4 DEF Effective
  <2> QED
    BY <2>3, <2>5
<1>5. CASE /\ Registered(explicit) = {} /\ Matching(name, backend) = {}
           /\ Matching(claims, backend) # {}
  <2>1. b = Effective(BestMatch(claims, backend), "backend", 70)
    BY <1>5 DEF Base
  <2>2. index[Min(Matching(claims, backend))].profile.id # FallbackId
    BY <1>2, <1>5
  <2>3. b.id # FallbackId /\ b.source = "backend"
    BY <2>1, <2>2 DEF Effective, BestMatch
  <2> QED
    BY <2>3
<1>6. CASE /\ Registered(explicit) = {} /\ Matching(name, backend) = {}
           /\ Matching(claims, backend) = {}
  <2>1. b = Effective(FallbackProfile, "fallback", 10)
    BY <1>6 DEF Base
  <2>2. b.source = "fallback" /\ b.confidence = 10
    BY <2>1 DEF Effective
  <2> QED
    BY <2>2
<1> QED
  BY <1>3, <1>4, <1>5, <1>6

\* A step of the load or of a resolution keeps the invariant.
LEMMA ProfileInvStep ==
  ASSUME ProfileInv, [ProfilesNext]_profileVars
  PROVE  ProfileInv'
<1>1. CASE LoadFile
  <2>1. PICK t : t = Tiered(library)
    OBVIOUS
  <2>2. PICK g : g = ReadOf
    OBVIOUS
  <2>3. /\ library' = library /\ resolved' = resolved /\ loading = "loading"
        /\ loading' \in {"loading", "loaded", "failed"}
        /\ g + 1 \in DOMAIN t /\ ReadOf' = g + 1 /\ g \in 0 .. Len(t)
        /\ files' \in Seq(ToSet(t)) /\ Len(files') <= Len(t)
        /\ \A i \in 1 .. Len(files') : files'[i] = t[ReadOf' + i]
        /\ loading' = "loaded" => files' = <<>>
    BY <1>1, <2>1, <2>2, LoadFileReads
  <2>4. index' = IF FirstAt(t, g + 1) THEN Placed(EntryAt(t, g + 1)) ELSE index
    BY <1>1, <2>1, <2>2, LoadFileReads
  <2>5. loading' # "failed" /\ t[g + 1].tier # "builtin" /\ t[g + 1].file.damage # "foreign" =>
          UsableAt(t, g + 1) /\ ~Duplicate(EntryAt(t, g + 1))
    BY <1>1, <2>1, <2>2, LoadFileReads
  <2>6. /\ library \in Libraries /\ index \in Seq(Rated) /\ Ordered(index) /\ Indexed(index, t, g)
        /\ Heard(t, g) /\ resolved = Unresolved
    BY <2>1, <2>2, <2>3 DEF ProfileInv
  <2>7. g \in Nat
    BY <2>3
  <2>8. PICK ix : ix = IF FirstAt(t, g + 1) THEN Placed(EntryAt(t, g + 1)) ELSE index
    OBVIOUS
  <2>9. ix \in Seq(Rated) /\ Ordered(ix) /\ Indexed(ix, t, g + 1)
    BY <2>1, <2>3, <2>6, <2>7, <2>8, IndexedStep
  <2>10. loading' # "failed" => Heard(t, g + 1)
    <3> SUFFICES ASSUME loading' # "failed" PROVE Heard(t, g + 1)
      OBVIOUS
    <3>1. t[g + 1].tier # "builtin" /\ t[g + 1].file.damage # "foreign" =>
            UsableAt(t, g + 1) /\ ~Duplicate(EntryAt(t, g + 1))
      BY <2>5
    <3> QED
      BY <3>1, <2>1, <2>3, <2>6, <2>7, HeardStep
  <2>11. index' = ix
    BY <2>4, <2>8
  <2>12. Tiered(library)' = t
    <3>1. Tiered(library)' = Tiered(library')
      BY DEF Tiered
    <3> QED
      BY <3>1, <2>1, <2>3
  <2>13. Ordered(index)' /\ Indexed(index, Tiered(library), ReadOf)'
    <3>1. Ordered(index') /\ Indexed(index', t, ReadOf')
      BY <2>3, <2>9, <2>11
    <3>2. Ordered(index)' <=> Ordered(index')
      BY DEF Ordered, NotBelow
    <3>3. Indexed(index, Tiered(library), ReadOf)' <=> Indexed(index', Tiered(library)', ReadOf')
      BY DEF Indexed
    <3> QED
      BY <3>1, <3>2, <3>3, <2>12
  <2>14. (loading # "failed" => Heard(Tiered(library), ReadOf))'
    <3>1. Heard(Tiered(library), ReadOf)' <=> Heard(Tiered(library)', ReadOf')
      BY DEF Heard
    <3> QED
      BY <3>1, <2>3, <2>10, <2>12
  <2>15. UnknownNotTrusted' /\ MostSpecificPattern'
    BY <2>3, <2>6 DEF UnknownNotTrusted, MostSpecificPattern, Unresolved
  <2>16. (resolved # Unresolved => loading = "loaded")'
    BY <2>3, <2>6 DEF Unresolved
  <2>17. index' \in Seq(Rated)
    BY <2>9, <2>11
  <2>18. Seq(Rated)' = Seq(Rated)
    BY DEF Rated
  <2> QED
    BY <2>3, <2>6, <2>12, <2>13, <2>14, <2>15, <2>16, <2>17, <2>18 DEF ProfileInv
<1>2. CASE ResolveProfile
  <2>1. /\ loading = "loaded" /\ resolved = Unresolved /\ library' = library /\ files' = files
        /\ index' = index /\ loading' = loading
    BY <1>2 DEF ResolveProfile
  <2>2. index \in Seq(Rated) /\ Ordered(index)
    BY DEF ProfileInv
  <2>3. PICK name \in ModelNames, claims \in ModelNames, backend \in BackendKinds, record \in Records,
             explicit \in {"none", FallbackId} \cup {index[i].profile.id : i \in DOMAIN index} :
          LET r == Resolution(name, claims, backend, explicit, record) IN
          resolved' = [profile |-> r, source |-> r.source, name |-> name, backend |-> backend,
                       explicit |-> explicit, record |-> record,
                       repairs |-> Gated(RepairTiers, r.confidence)]
    BY <1>2 DEF ResolveProfile
  <2>4. PICK r : r = Resolution(name, claims, backend, explicit, record)
    OBVIOUS
  <2>5. resolved' = [profile |-> r, source |-> r.source, name |-> name, backend |-> backend,
                     explicit |-> explicit, record |-> record,
                     repairs |-> Gated(RepairTiers, r.confidence)]
    BY <2>3, <2>4
  <2>6. PICK b : b = Base(name, claims, backend, explicit)
    OBVIOUS
  <2>7. /\ b.source \in {"explicit", "builtin", "backend", "fallback"}
        /\ b.source \in {"builtin", "backend"} => b.id # FallbackId
        /\ explicit = "none" /\ b.id = FallbackId => b.confidence = 10
        /\ b.source = "builtin" =>
             \E i \in Matching(name, backend) :
               /\ index[i].profile.id = b.id
               /\ \A j \in Matching(name, backend) : Score(index[j]) <= Score(index[i])
    <3>1. PICK c : c = Base(name, claims, backend, explicit)
      OBVIOUS
    <3>2. /\ c.source \in {"explicit", "builtin", "backend", "fallback"}
          /\ c.source \in {"builtin", "backend"} => c.id # FallbackId
          /\ explicit = "none" /\ c.id = FallbackId => c.confidence = 10
          /\ c.source = "builtin" =>
               \E i \in Matching(name, backend) :
                 /\ index[i].profile.id = c.id
                 /\ \A j \in Matching(name, backend) : Score(index[j]) <= Score(index[i])
      BY <3>1, <2>2, BaseOf
    <3>3. b = c
      BY <3>1, <2>6
    <3> QED
      BY <3>2, <3>3
  <2>8. r = IF record.rate > 80 THEN Overlaid(b, record) ELSE b
    BY <2>4, <2>6 DEF Resolution
  <2>9. record.rate \in Nat
    BY ProfilesAssumption
  <2>10. record.rate > 80 \/ record.rate <= 80
    BY <2>9
  <2>11. \/ r.source = "conformance" /\ record.rate > 80 /\ ~ (record.rate <= 80)
         \/ r = b /\ record.rate <= 80
    <3>1. CASE record.rate > 80
      <4>1. r = Overlaid(b, record)
        BY <2>8, <3>1
      <4>2. "source" \in DOMAIN b
        BY <2>6 DEF Base, Effective
      <4>3. r.source = "conformance"
        BY <4>1, <4>2 DEF Overlaid
      <4> QED
        BY <4>3, <3>1, <2>9
    <3>2. CASE ~ (record.rate > 80)
      BY <3>2, <2>8, <2>10
    <3> QED
      BY <3>1, <3>2
  <2>12. UnknownNotTrusted'
    <3>1. /\ resolved'.source = r.source /\ resolved'.profile = r /\ resolved'.explicit = explicit
          /\ resolved'.record = record /\ resolved'.repairs = Gated(RepairTiers, r.confidence)
      BY <2>5
    <3>2. r.confidence = 10 => Gated(RepairTiers, r.confidence) \cap {"coercive", "regeneration"} = {}
      BY DEF Gated
    <3>3. r.source \in {"builtin", "backend"} => r.id # FallbackId
      BY <2>7, <2>11
    <3>4. explicit = "none" /\ record.rate <= 80 /\ r.id = FallbackId => r.confidence = 10
      BY <2>7, <2>11
    <3> QED
      BY <3>1, <3>2, <3>3, <3>4 DEF UnknownNotTrusted
  <2>13. MostSpecificPattern'
    <3>1. /\ resolved'.source = r.source /\ resolved'.profile = r /\ resolved'.name = name
          /\ resolved'.backend = backend
      BY <2>5
    <3>2. CASE r.source # "builtin"
      BY <3>1, <3>2 DEF MostSpecificPattern
    <3>3. CASE r.source = "builtin"
      <4>1. r = b
        BY <2>11, <3>3
      <4>2. PICK i \in Matching(name, backend) :
               /\ index[i].profile.id = r.id
               /\ \A j \in Matching(name, backend) : Score(index[j]) <= Score(index[i])
        BY <2>7, <3>3, <4>1
      <4>3. \A x, y : Matching(x, y)' = Matching(x, y)
        BY <2>1 DEF Matching, Matches
      <4>4. Matching(resolved.name, resolved.backend)' = Matching(name, backend)
        <5>1. Matching(resolved.name, resolved.backend)' =
                {k \in DOMAIN index' : Matches(index'[k], resolved'.name, resolved'.backend)}
          BY DEF Matching, Matches
        <5> QED
          BY <5>1, <2>1, <3>1 DEF Matching
      <4>5. \A k \in DOMAIN index : Score(index[k])' = Score(index[k])
        BY <2>1
      <4>6. Matching(name, backend) \subseteq DOMAIN index
        BY DEF Matching
      <4> QED
        BY <4>2, <4>4, <4>5, <4>6, <2>1, <3>1 DEF MostSpecificPattern
    <3> QED
      BY <3>2, <3>3
  <2>14. Tiered(library)' = Tiered(library) /\ ReadOf' = ReadOf
    BY <2>1 DEF Tiered, ReadOf
  <2>15. Ordered(index)' /\ Indexed(index, Tiered(library), ReadOf)'
    <3>1. Ordered(index)' <=> Ordered(index)
      BY <2>1 DEF Ordered, NotBelow
    <3>2. Indexed(index, Tiered(library), ReadOf)' <=> Indexed(index, Tiered(library), ReadOf)
      BY <2>1, <2>14 DEF Indexed
    <3> QED
      BY <3>1, <3>2 DEF ProfileInv
  <2>16. Heard(Tiered(library), ReadOf)' <=> Heard(Tiered(library), ReadOf)
    BY <2>14 DEF Heard
  <2>17. Rated' = Rated
    BY DEF Rated
  <2> QED
    BY <2>1, <2>12, <2>13, <2>14, <2>15, <2>16, <2>17 DEF ProfileInv
<1>3. CASE UNCHANGED profileVars
  <2>1. library' = library /\ files' = files /\ index' = index /\ loading' = loading /\ resolved' = resolved
    BY <1>3 DEF profileVars
  <2>2. Tiered(library)' = Tiered(library) /\ ReadOf' = ReadOf
    BY <2>1 DEF Tiered, ReadOf
  <2>3. Ordered(index)' <=> Ordered(index)
    BY <2>1 DEF Ordered, NotBelow
  <2>4. Indexed(index, Tiered(library), ReadOf)' <=> Indexed(index, Tiered(library), ReadOf)
    BY <2>1, <2>2 DEF Indexed
  <2>5. Heard(Tiered(library), ReadOf)' <=> Heard(Tiered(library), ReadOf)
    BY <2>2 DEF Heard
  <2>6. Rated' = Rated
    BY DEF Rated
  <2>7. UnknownNotTrusted' /\ MostSpecificPattern'
    BY <2>1 DEF ProfileInv, UnknownNotTrusted, MostSpecificPattern, Matching, Matches
  <2> QED
    BY <2>1, <2>2, <2>3, <2>4, <2>5, <2>6, <2>7 DEF ProfileInv
<1> QED
  BY <1>1, <1>2, <1>3 DEF ProfilesNext

\* Two tiers are one above the other.
LEMMA RankApart ==
  ASSUME NEW t \in Tiers, NEW u \in Tiers
  PROVE  Rank[t] \in Nat /\ Rank[u] \in Nat /\ (Rank[t] <= Rank[u] /\ Rank[u] <= Rank[t] => t = u)
<1>1. Rank["project"] = 1 /\ Rank["user"] = 2 /\ Rank["builtin"] = 3
  BY DEF Rank
<1> QED
  BY <1>1 DEF Tiers

\* What a tier offers of an id is read in its turn.
LEMMA OfferedAt ==
  ASSUME library \in Libraries, NEW l, l = Tiered(library), NEW t \in Tiers, NEW k \in DOMAIN library[t],
         NEW i, i = Before(library, t) + k
  PROVE  /\ i \in DOMAIN l /\ l[i].tier = t /\ l[i].file = library[t][k] /\ IdAt(l, i) = library[t][k].id
         /\ (UsableAt(l, i) <=> Usable(library[t][k], t))
         /\ EntryAt(l, i) = EntryOf(library[t][k], t)
         /\ k \in 1 .. Len(library[t]) /\ Before(library, t) \in Nat /\ Len(library[t]) \in Nat
<1>1. /\ Before(library, t) + k \in DOMAIN l /\ l[Before(library, t) + k] = [tier |-> t, file |-> library[t][k]]
      /\ library[t] \in Seq(ToSet(library[t])) /\ Before(library, t) \in Nat
  BY TieredAt
<1>2. l[i].tier = t /\ l[i].file = library[t][k]
  BY <1>1
<1> QED
  BY <1>1, <1>2 DEF UsableAt, IdAt, EntryAt

\* Of two files the one of a higher tier is read first.
LEMMA HigherIsFirst ==
  ASSUME library \in Libraries, NEW t \in Tiers, NEW u \in Tiers, NEW k \in DOMAIN library[t],
         NEW m \in DOMAIN library[u], Before(library, t) + k <= Before(library, u) + m
  PROVE  Rank[t] <= Rank[u]
<1>1. PICK l : l = Tiered(library)
  OBVIOUS
<1>2. PICK i : i = Before(library, t) + k
  OBVIOUS
<1>3. PICK j : j = Before(library, u) + m
  OBVIOUS
<1>4. k \in 1 .. Len(library[t]) /\ Before(library, t) \in Nat /\ Len(library[t]) \in Nat
  BY <1>1, <1>2, OfferedAt
<1>5. m \in 1 .. Len(library[u]) /\ Before(library, u) \in Nat /\ Len(library[u]) \in Nat
  BY <1>1, <1>3, OfferedAt
<1>6. Rank[u] < Rank[t] => Before(library, u) + Len(library[u]) <= Before(library, t)
  BY TieredAt
<1>7. Rank[t] \in Nat /\ Rank[u] \in Nat
  BY RankApart
<1>8. \A x, y, n, d, c \in Nat : x + d <= y + c /\ c <= n /\ d > 0 => ~ (y + n <= x)
  OBVIOUS
<1>9. ~ (Before(library, u) + Len(library[u]) <= Before(library, t))
  <2>1. k \in Nat /\ m \in Nat /\ m <= Len(library[u]) /\ k > 0
    BY <1>4, <1>5
  <2> QED
    BY <2>1, <1>4, <1>5, <1>8
<1> QED
  BY <1>6, <1>7, <1>9

\* The first usable file of an id is the one precedence names.
LEMMA WinnerIsFirst ==
  ASSUME library \in Libraries, NEW l, l = Tiered(library), NEW i \in DOMAIN l, FirstAt(l, i),
         NEW id, id = IdAt(l, i)
  PROVE  EntryAt(l, i) = Winner(id)
<1>1. DOMAIN l = 1 .. Len(l) /\ Len(l) \in Nat
  BY TieredAt
<1>2. PICK t \in Tiers : \E k \in DOMAIN library[t] : i = Before(library, t) + k
  BY TieredAt
<1>3. PICK k \in DOMAIN library[t] : i = Before(library, t) + k
  BY <1>2
<1>4. /\ IdAt(l, i) = library[t][k].id /\ (UsableAt(l, i) <=> Usable(library[t][k], t))
      /\ EntryAt(l, i) = EntryOf(library[t][k], t)
      /\ k \in 1 .. Len(library[t]) /\ Before(library, t) \in Nat /\ Len(library[t]) \in Nat
  BY <1>3, OfferedAt
<1>5. DOMAIN library = Tiers
  BY ProfilesAssumption DEF Tiers
<1>6. k \in Offering(t, id)
  BY <1>4 DEF Offering, FirstAt
<1>7. ASSUME NEW v \in Tiers, NEW m \in Offering(v, id)
      PROVE  m \in DOMAIN library[v] /\ Before(library, t) + k <= Before(library, v) + m
  <2>1. m \in DOMAIN library[v] /\ library[v][m].id = id /\ Usable(library[v][m], v)
    BY <1>7 DEF Offering
  <2>2. PICK j : j = Before(library, v) + m
    OBVIOUS
  <2>3. /\ j \in DOMAIN l /\ IdAt(l, j) = library[v][m].id
        /\ (UsableAt(l, j) <=> Usable(library[v][m], v))
    BY <2>1, <2>2, OfferedAt
  <2>4. ~ (j \in 1 .. i - 1)
    BY <2>1, <2>3 DEF FirstAt
  <2>5. i <= j
    BY <1>1, <2>3, <2>4
  <2> QED
    BY <1>3, <2>1, <2>2, <2>5
<1>8. \A v \in Tiers : Offering(v, id) # {} => Rank[t] <= Rank[v]
  <2> SUFFICES ASSUME NEW v \in Tiers, NEW m \in Offering(v, id) PROVE Rank[t] <= Rank[v]
    OBVIOUS
  <2>1. m \in DOMAIN library[v] /\ Before(library, t) + k <= Before(library, v) + m
    BY <1>7
  <2> QED
    BY <2>1, HigherIsFirst
<1> DEFINE Top(u) == /\ Offering(u, id) # {}
                     /\ \A v \in DOMAIN library : Offering(v, id) # {} => Rank[u] <= Rank[v]
<1>9. Top(t)
  BY <1>5, <1>6, <1>8
<1>10. \A u \in DOMAIN library : Top(u) => u = t
  <2> TAKE u \in DOMAIN library
  <2>1. Top(u) => Rank[u] <= Rank[t] /\ Rank[t] <= Rank[u]
    BY <1>5, <1>6, <1>8
  <2> QED
    BY <2>1, <1>5, RankApart
<1>11. PICK w : w = CHOOSE u \in DOMAIN library : Top(u)
  OBVIOUS
<1>12. w = t
  <2> HIDE DEF Top
  <2> QED
    BY <1>5, <1>9, <1>10, <1>11
<1>13. Winner(id) = EntryOf(library[t][Min(Offering(t, id))], t)
  <2>1. Winner(id) = EntryOf(library[w][Min(Offering(w, id))], w)
    BY <1>11 DEF Winner
  <2> QED
    BY <2>1, <1>12
<1>14. PICK D : D = Offering(t, id)
  OBVIOUS
<1>15. D \in SUBSET Nat /\ D # {}
  <2>1. library[t] \in Seq(ToSet(library[t]))
    BY TieredAt
  <2>2. D \subseteq DOMAIN library[t]
    BY <1>14 DEF Offering
  <2> QED
    BY <2>1, <2>2, <1>6, <1>14
<1>16. PICK m : m = Min(D)
  OBVIOUS
<1>17. m \in D /\ \A n \in D : m <= n
  BY <1>15, <1>16, SomeMin
<1>18. m = k
  <2>1. m <= k /\ m \in Nat
    BY <1>6, <1>14, <1>15, <1>17
  <2>2. Before(library, t) + k <= Before(library, t) + m
    BY <1>7, <1>14, <1>17
  <2> QED
    BY <2>1, <2>2, <1>4
<1> QED
  BY <1>4, <1>13, <1>14, <1>16, <1>18

\* With all the files read an id has the entry precedence names and no other.
LEMMA HighestAtEnd ==
  ASSUME library \in Libraries, NEW l, l = Tiered(library), Indexed(index, l, Len(l))
  PROVE  HighestTierWins
<1>1. DOMAIN l = 1 .. Len(l) /\ Len(l) \in Nat /\ DOMAIN library = Tiers
  BY TieredAt, ProfilesAssumption DEF Tiers
<1> SUFFICES ASSUME NEW id, NEW t \in Tiers, NEW k \in Offering(t, id)
             PROVE  \E i \in DOMAIN index : Registered(id) = {i} /\ index[i] = Winner(id)
  BY <1>1 DEF HighestTierWins
<1>2. k \in DOMAIN library[t] /\ library[t][k].id = id /\ Usable(library[t][k], t)
  BY DEF Offering
<1>3. PICK j : j = Before(library, t) + k
  OBVIOUS
<1>4. j \in DOMAIN l /\ IdAt(l, j) = library[t][k].id /\ (UsableAt(l, j) <=> Usable(library[t][k], t))
  BY <1>2, <1>3, OfferedAt
<1>5. PICK i \in 1 .. j : FirstAt(l, i) /\ IdAt(l, i) = IdAt(l, j)
  <2>1. j \in 1 .. Len(l)
    BY <1>1, <1>4
  <2> QED
    BY <2>1, <1>1, <1>2, <1>4, FirstOfThem
<1>6. i \in DOMAIN l /\ i \in 1 .. Len(l) /\ IdAt(l, i) = id
  BY <1>1, <1>2, <1>4, <1>5
<1>7. PICK m \in DOMAIN index : index[m] = EntryAt(l, i)
  BY <1>5, <1>6 DEF Indexed
<1>8. index[m].profile.id = id
  BY <1>6, <1>7, FileAt
<1>9. Registered(id) = {m}
  BY <1>8 DEF Registered, Indexed
<1>10. EntryAt(l, i) = Winner(id)
  BY <1>5, <1>6, WinnerIsFirst
<1> QED
  BY <1>7, <1>9, <1>10

\* Of two files of an id in one operator's tier the second is heard, or a
\* higher tier has the id.
LEMMA SecondIsHeard ==
  ASSUME library \in Libraries, NEW l, l = Tiered(library), Heard(l, Len(l)), NEW t \in Tiers, t # "builtin",
         NEW id, NEW a \in Offering(t, id), NEW b \in Offering(t, id), a < b
  PROVE  \E u \in DOMAIN library : Rank[u] < Rank[t] /\ Offering(u, id) # {}
<1>0. DOMAIN l = 1 .. Len(l) /\ Len(l) \in Nat /\ DOMAIN library = Tiers
  BY TieredAt, ProfilesAssumption DEF Tiers
<1>1. /\ library[t][a].id = id /\ Usable(library[t][a], t)
      /\ library[t][b].id = id /\ Usable(library[t][b], t)
      /\ a \in DOMAIN library[t] /\ b \in DOMAIN library[t]
  BY DEF Offering
<1>2. PICK j : j = Before(library, t) + a
  OBVIOUS
<1>3. PICK i : i = Before(library, t) + b
  OBVIOUS
<1>4. /\ j \in DOMAIN l /\ l[j].tier = t /\ IdAt(l, j) = id /\ UsableAt(l, j)
      /\ a \in 1 .. Len(library[t]) /\ Before(library, t) \in Nat /\ Len(library[t]) \in Nat
  BY <1>1, <1>2, OfferedAt
<1>5. /\ i \in DOMAIN l /\ l[i].tier = t /\ l[i].file = library[t][b] /\ IdAt(l, i) = id
      /\ UsableAt(l, i) /\ b \in 1 .. Len(library[t])
  BY <1>1, <1>3, OfferedAt
<1>7. l[i].file.damage # "foreign"
  BY <1>1, <1>5 DEF Usable
<1>8. j \in 1 .. i - 1 /\ i \in 1 .. Len(l)
  BY <1>2, <1>3, <1>4, <1>5, <1>0
<1>9. PICK h \in 1 .. j - 1 : UsableAt(l, h) /\ IdAt(l, h) = IdAt(l, i) /\ l[h].tier # l[i].tier
  BY <1>4, <1>5, <1>7, <1>8 DEF Heard
<1>10. h \in DOMAIN l /\ h <= j
  BY <1>4, <1>8, <1>9, <1>0
<1>11. PICK u \in Tiers : \E c \in DOMAIN library[u] : h = Before(library, u) + c
  BY <1>10, TieredAt
<1>12. PICK c \in DOMAIN library[u] : h = Before(library, u) + c
  BY <1>11
<1>13. /\ l[h].tier = u /\ IdAt(l, h) = library[u][c].id /\ (UsableAt(l, h) <=> Usable(library[u][c], u))
  BY <1>12, OfferedAt
<1>14. u # t /\ c \in Offering(u, id)
  BY <1>5, <1>9, <1>13 DEF Offering
<1>15. Before(library, u) + c <= Before(library, t) + a
  BY <1>2, <1>10, <1>12
<1>16. Rank[u] <= Rank[t]
  BY <1>1, <1>15, HigherIsFirst
<1>17. Rank[u] < Rank[t]
  BY <1>14, <1>16, RankApart
<1> QED
  BY <1>14, <1>17, <1>0

\* With all the files read an operator's file is usable and of its id alone,
\* or below one of the id.
LEMMA HeardAtEnd ==
  ASSUME library \in Libraries, NEW l, l = Tiered(library), Heard(l, Len(l))
  PROVE  BadOverrideStops
<1>1. DOMAIN l = 1 .. Len(l) /\ Len(l) \in Nat /\ DOMAIN library = Tiers
  BY TieredAt, ProfilesAssumption DEF Tiers
<1> SUFFICES ASSUME NEW t \in Tiers, t # "builtin", NEW k \in DOMAIN library[t],
                    NEW f, f = library[t][k], f.damage # "foreign"
             PROVE  /\ Usable(f, t)
                    /\ \/ Offering(t, f.id) = {k}
                       \/ \E u \in DOMAIN library : Rank[u] < Rank[t] /\ Offering(u, f.id) # {}
  BY DEF BadOverrideStops, Tiers
<1>3. ASSUME NEW a \in DOMAIN library[t], library[t][a].damage # "foreign"
      PROVE  Usable(library[t][a], t)
  <2>1. PICK i : i = Before(library, t) + a
    OBVIOUS
  <2>2. i \in DOMAIN l /\ l[i].tier = t /\ l[i].file = library[t][a] /\ (UsableAt(l, i) <=> Usable(library[t][a], t))
    BY <2>1, OfferedAt
  <2> QED
    BY <2>2, <1>1, <1>3 DEF Heard
<1>4. ASSUME NEW a \in Offering(t, f.id), NEW b \in Offering(t, f.id), a < b
      PROVE  \E u \in DOMAIN library : Rank[u] < Rank[t] /\ Offering(u, f.id) # {}
  <2>1. PICK id : id = f.id
    OBVIOUS
  <2> QED
    BY <2>1, <1>4, SecondIsHeard
<1>5. Usable(f, t)
  BY <1>3
<1>6. k \in Offering(t, f.id)
  BY <1>5 DEF Offering
<1>7. CASE Offering(t, f.id) # {k}
  <2>1. PICK m \in Offering(t, f.id) : m # k
    BY <1>6, <1>7
  <2>2. m \in DOMAIN library[t]
    BY DEF Offering
  <2>3. m < k \/ k < m
    <3>1. library[t] \in Seq(ToSet(library[t]))
      BY TieredAt
    <3> QED
      BY <3>1, <2>1, <2>2
  <2> QED
    BY <2>2, <2>3, <1>4, <1>5, <1>6
<1> QED
  BY <1>5, <1>7

\* The invariant says what the run checks.
LEMMA ProfileInvSound == ProfileInv => ProfilesSound
<1> SUFFICES ASSUME ProfileInv PROVE ProfilesSound
  OBVIOUS
<1>1. UnknownNotTrusted /\ MostSpecificPattern
  BY DEF ProfileInv
<1>2. CASE loading # "loaded"
  BY <1>1, <1>2 DEF ProfilesSound, HighestTierWins, BadOverrideStops
<1>3. CASE loading = "loaded"
  <2>1. PICK l : l = Tiered(library)
    OBVIOUS
  <2>2. library \in Libraries /\ files = <<>>
    BY <1>3 DEF ProfileInv
  <2>3. ReadOf = Len(l)
    <3>1. l \in Seq(ToSet(l))
      BY <2>1, <2>2, TieredAt
    <3> QED
      BY <3>1, <2>1, <2>2 DEF ReadOf
  <2>4. Indexed(index, l, Len(l)) /\ Heard(l, Len(l))
    BY <1>3, <2>1, <2>3 DEF ProfileInv
  <2>5. HighestTierWins
    BY <2>1, <2>2, <2>4, HighestAtEnd
  <2>6. BadOverrideStops
    BY <2>1, <2>2, <2>4, HeardAtEnd
  <2> QED
    BY <1>1, <2>5, <2>6 DEF ProfilesSound
<1> QED
  BY <1>2, <1>3

-----------------------------------------------------------------------------
(* Extraction: what is read of a text, and what of it becomes calls. *)

\* A fold of which something more is known at each place.
IndexedFold(f, step, A, S, base, s, n, I) ==
  /\ \A i \in 1 .. n : s[i] \in S
  /\ base \in A /\ base \in I[0] /\ step \in [A \X S -> A] /\ Steps(f, step, A, base, s, n)
  /\ \A k \in 1 .. n : \A a \in A \cap I[k - 1] : step[<<a, s[k]>>] \in I[k]

\* It is known at the last place.
LEMMA StepsIndexed ==
  ASSUME NEW n \in Nat, NEW A, NEW S, NEW step, NEW base, NEW s, NEW f, NEW I,
         IndexedFold(f, step, A, S, base, s, n, I)
  PROVE  f[1 .. n] \in A /\ f[1 .. n] \in I[n]
<1>0. /\ \A i \in 1 .. n : s[i] \in S
      /\ base \in A /\ base \in I[0] /\ step \in [A \X S -> A] /\ Steps(f, step, A, base, s, n)
      /\ \A k \in 1 .. n : \A a \in A \cap I[k - 1] : step[<<a, s[k]>>] \in I[k]
  BY DEF IndexedFold
<1>1. \A d \in SUBSET (1 .. n) : f[d] \in A
  BY <1>0, StepsTyped
<1>2. \A k \in 0 .. n : (1 .. k) \in SUBSET (1 .. n)
  OBVIOUS
<1> DEFINE C == {k \in 0 .. n : f[1 .. k] \notin I[k]}
<1>3. CASE C = {}
  BY <1>1, <1>2, <1>3
<1>4. CASE C # {}
  <2>1. C \in SUBSET Nat
    OBVIOUS
  <2>2. PICK k : k = Min(C)
    OBVIOUS
  <2>3. k \in C /\ \A j \in C : k <= j
    <3> HIDE DEF C
    <3> QED
      BY <1>4, <2>1, <2>2, SomeMin
  <2>4. k # 0
    <3> SUFFICES ASSUME k = 0 PROVE FALSE
      OBVIOUS
    <3>1. 1 .. k = {}
      OBVIOUS
    <3>2. f[{}] = base
      BY <1>0 DEF Steps
    <3> QED
      BY <1>0, <2>3, <3>1, <3>2
  <2>5. k \in 1 .. n /\ k - 1 \in 0 .. n /\ k - 1 \notin C
    <3>1. k \in 1 .. n
      BY <2>3, <2>4
    <3>2. k - 1 < k /\ k - 1 \in 0 .. n
      BY <3>1
    <3>3. k - 1 \notin C
      <4>1. ~ (k <= k - 1)
        BY <3>1
      <4> HIDE DEF C
      <4> QED
        BY <4>1, <2>3
    <3> QED
      BY <3>1, <3>2, <3>3
  <2>6. PICK d, e : d = 1 .. k /\ e = 1 .. (k - 1)
    OBVIOUS
  <2>7. Max(d) = k
    <3>1. k \in Nat /\ k \in d /\ d \in SUBSET (1 .. k)
      BY <2>5, <2>6
    <3> QED
      BY <3>1, LastIsMax
  <2>8. d \in SUBSET (1 .. n) /\ e \in SUBSET (1 .. n)
    BY <2>5, <2>6
  <2>12. d # {} /\ d \ {k} = e
    BY <2>5, <2>6
  <2>9. f[e] \in A /\ f[e] \in I[k - 1]
    BY <1>1, <2>5, <2>6, <2>8
  <2>10. f[d] = step[<<f[e], s[k]>>]
    BY <1>0, <2>7, <2>8, <2>9, <2>12 DEF Steps
  <2>11. f[d] \in I[k]
    BY <1>0, <2>5, <2>9, <2>10
  <2> QED
    BY <2>3, <2>6, <2>11
<1> QED
  BY <1>3, <1>4

Keeps(calls, dropped, kept, c) == IF c \in dropped THEN kept ELSE Append(kept, c)
KeptBy(g, calls, dropped) ==
  g = [d \in SUBSET DOMAIN calls |-> IF d = {} THEN <<>> ELSE Keeps(calls, dropped, g[d \ {Max(d)}], calls[Max(d)])]

\* What it is folded with: a step in A, for members of S.
KeptFold(calls, dropped, n, A, S, step) ==
  /\ DOMAIN calls = 1 .. n /\ \A i \in 1 .. n : calls[i] \in S
  /\ <<>> \in A /\ step \in [A \X S -> A]
  /\ \A a \in A, t \in S : step[<<a, t>>] = Keeps(calls, dropped, a, t)

\* The fold, by its definition.
LEMMA KeptFolds ==
  ASSUME NEW calls, NEW dropped
  PROVE  Dropping(calls, dropped) = (CHOOSE g : KeptBy(g, calls, dropped))[DOMAIN calls]
BY DEF Dropping, FoldLeft, MapThenFoldSet, KeptBy, Keeps

\* A list is read call by call.
LEMMA KeptSteps ==
  ASSUME NEW calls, NEW dropped, NEW n \in Nat, NEW A, NEW S, NEW step, KeptFold(calls, dropped, n, A, S, step)
  PROVE  \E g : Steps(g, step, A, <<>>, calls, n) /\ Dropping(calls, dropped) = g[1 .. n]
<1>0. /\ DOMAIN calls = 1 .. n /\ \A i \in 1 .. n : calls[i] \in S
      /\ <<>> \in A /\ step \in [A \X S -> A]
      /\ \A a \in A, t \in S : step[<<a, t>>] = Keeps(calls, dropped, a, t)
  BY DEF KeptFold
<1>1. ASSUME NEW g PROVE KeptBy(g, calls, dropped) => Steps(g, step, A, <<>>, calls, n)
  <2> SUFFICES ASSUME KeptBy(g, calls, dropped), NEW d \in SUBSET (1 .. n), d # {}, g[d \ {Max(d)}] \in A
               PROVE  g[d] = step[<<g[d \ {Max(d)}], calls[Max(d)]>>]
    BY <1>0 DEF KeptBy, Steps
  <2>1. g[d] = Keeps(calls, dropped, g[d \ {Max(d)}], calls[Max(d)])
    BY <1>0 DEF KeptBy
  <2>2. Max(d) \in 1 .. n
    BY SomeMax
  <2> QED
    BY <1>0, <2>1, <2>2
<1>2. PICK h \in [SUBSET (1 .. n) -> A] : Steps(h, step, A, <<>>, calls, n)
  <2>1. Folds(step, A, <<>>, calls, n)
    BY <1>0, StepsExist
  <2> QED
    BY <2>1 DEF Folds
<1>3. KeptBy(h, calls, dropped)
  <2>1. ASSUME NEW d \in SUBSET (1 .. n)
        PROVE  h[d] = IF d = {} THEN <<>> ELSE Keeps(calls, dropped, h[d \ {Max(d)}], calls[Max(d)])
    <3>1. CASE d = {}
      BY <3>1, <1>0, <1>2 DEF Steps
    <3>2. CASE d # {}
      <4>1. Max(d) \in 1 .. n
        BY <3>2, SomeMax
      <4>2. h[d \ {Max(d)}] \in A
        BY <1>2
      <4>3. h[d] = step[<<h[d \ {Max(d)}], calls[Max(d)]>>]
        BY <3>2, <4>2, <1>0, <1>2 DEF Steps
      <4> QED
        BY <1>0, <3>2, <4>1, <4>2, <4>3
    <3> QED
      BY <3>1, <3>2
  <2>2. h = [d \in SUBSET (1 .. n) |-> h[d]]
    BY <1>2
  <2> QED
    BY <1>0, <2>1, <2>2 DEF KeptBy
<1>4. PICK g : g = CHOOSE f : KeptBy(f, calls, dropped)
  OBVIOUS
<1>5. Steps(g, step, A, <<>>, calls, n)
  BY <1>1, <1>3, <1>4
<1>6. Dropping(calls, dropped) = g[1 .. n]
  BY <1>0, <1>4, KeptFolds
<1> QED
  BY <1>5, <1>6

Spanned(m, starts, ends, found, i) ==
  IF i \in starts /\ ends[i] # 0 /\ (found = <<>> \/ i > Last(found).to)
    THEN Append(found, [from |-> i, to |-> ends[i]]) ELSE found
PlacesOf(m) == [i \in DOMAIN m |-> i]
SpanBy(g, m, starts, ends) ==
  g = [d \in SUBSET DOMAIN PlacesOf(m) |-> IF d = {} THEN <<>> ELSE Spanned(m, starts, ends, g[d \ {Max(d)}], PlacesOf(m)[Max(d)])]

\* What it is folded with: a step in A, for members of S.
SpanFold(m, starts, ends, n, A, S, step) ==
  /\ DOMAIN PlacesOf(m) = 1 .. n /\ \A i \in 1 .. n : PlacesOf(m)[i] \in S
  /\ <<>> \in A /\ step \in [A \X S -> A]
  /\ \A a \in A, t \in S : step[<<a, t>>] = Spanned(m, starts, ends, a, t)

\* The fold, by its definition.
LEMMA SpanFolds ==
  ASSUME NEW m, NEW starts, NEW ends
  PROVE  Spans(m, starts, ends) = (CHOOSE g : SpanBy(g, m, starts, ends))[DOMAIN PlacesOf(m)]
BY DEF Spans, PlacesOf, FoldLeft, MapThenFoldSet, SpanBy, Spanned

\* Spans are found from left to right.
LEMMA SpanSteps ==
  ASSUME NEW m, NEW starts, NEW ends, NEW n \in Nat, NEW A, NEW S, NEW step, SpanFold(m, starts, ends, n, A, S, step)
  PROVE  \E g : Steps(g, step, A, <<>>, PlacesOf(m), n) /\ Spans(m, starts, ends) = g[1 .. n]
<1>0. /\ DOMAIN PlacesOf(m) = 1 .. n /\ \A i \in 1 .. n : PlacesOf(m)[i] \in S
      /\ <<>> \in A /\ step \in [A \X S -> A]
      /\ \A a \in A, t \in S : step[<<a, t>>] = Spanned(m, starts, ends, a, t)
  BY DEF SpanFold
<1>1. ASSUME NEW g PROVE SpanBy(g, m, starts, ends) => Steps(g, step, A, <<>>, PlacesOf(m), n)
  <2> SUFFICES ASSUME SpanBy(g, m, starts, ends), NEW d \in SUBSET (1 .. n), d # {}, g[d \ {Max(d)}] \in A
               PROVE  g[d] = step[<<g[d \ {Max(d)}], PlacesOf(m)[Max(d)]>>]
    BY <1>0 DEF SpanBy, Steps
  <2>1. g[d] = Spanned(m, starts, ends, g[d \ {Max(d)}], PlacesOf(m)[Max(d)])
    BY <1>0 DEF SpanBy
  <2>2. Max(d) \in 1 .. n
    BY SomeMax
  <2> QED
    BY <1>0, <2>1, <2>2
<1>2. PICK h \in [SUBSET (1 .. n) -> A] : Steps(h, step, A, <<>>, PlacesOf(m), n)
  <2>1. Folds(step, A, <<>>, PlacesOf(m), n)
    BY <1>0, StepsExist
  <2> QED
    BY <2>1 DEF Folds
<1>3. SpanBy(h, m, starts, ends)
  <2>1. ASSUME NEW d \in SUBSET (1 .. n)
        PROVE  h[d] = IF d = {} THEN <<>> ELSE Spanned(m, starts, ends, h[d \ {Max(d)}], PlacesOf(m)[Max(d)])
    <3>1. CASE d = {}
      BY <3>1, <1>0, <1>2 DEF Steps
    <3>2. CASE d # {}
      <4>1. Max(d) \in 1 .. n
        BY <3>2, SomeMax
      <4>2. h[d \ {Max(d)}] \in A
        BY <1>2
      <4>3. h[d] = step[<<h[d \ {Max(d)}], PlacesOf(m)[Max(d)]>>]
        BY <3>2, <4>2, <1>0, <1>2 DEF Steps
      <4> QED
        BY <1>0, <3>2, <4>1, <4>2, <4>3
    <3> QED
      BY <3>1, <3>2
  <2>2. h = [d \in SUBSET (1 .. n) |-> h[d]]
    BY <1>2
  <2> QED
    BY <1>0, <2>1, <2>2 DEF SpanBy
<1>4. PICK g : g = CHOOSE f : SpanBy(f, m, starts, ends)
  OBVIOUS
<1>5. Steps(g, step, A, <<>>, PlacesOf(m), n)
  BY <1>1, <1>3, <1>4
<1>6. Spans(m, starts, ends) = g[1 .. n]
  BY <1>0, <1>4, SpanFolds
<1> QED
  BY <1>5, <1>6

Loaded(m, spans, json, all, s) ==
  IF s \in json THEN all \o SetToSeq(Unpacked(m, Solid(m, s.from, s.to))) ELSE all
LoadBy(g, m, spans, json) ==
  g = [d \in SUBSET DOMAIN spans |-> IF d = {} THEN <<>> ELSE Loaded(m, spans, json, g[d \ {Max(d)}], spans[Max(d)])]

\* What it is folded with: a step in A, for members of S.
LoadFold(m, spans, json, n, A, S, step) ==
  /\ DOMAIN spans = 1 .. n /\ \A i \in 1 .. n : spans[i] \in S
  /\ <<>> \in A /\ step \in [A \X S -> A]
  /\ \A a \in A, t \in S : step[<<a, t>>] = Loaded(m, spans, json, a, t)

\* The fold, by its definition.
LEMMA LoadFolds ==
  ASSUME NEW m, NEW spans, NEW json
  PROVE  PayloadsOf(m, spans, json) = (CHOOSE g : LoadBy(g, m, spans, json))[DOMAIN spans]
BY DEF PayloadsOf, FoldLeft, MapThenFoldSet, LoadBy, Loaded

\* Payloads are unpacked span by span.
LEMMA LoadSteps ==
  ASSUME NEW m, NEW spans, NEW json, NEW n \in Nat, NEW A, NEW S, NEW step, LoadFold(m, spans, json, n, A, S, step)
  PROVE  \E g : Steps(g, step, A, <<>>, spans, n) /\ PayloadsOf(m, spans, json) = g[1 .. n]
<1>0. /\ DOMAIN spans = 1 .. n /\ \A i \in 1 .. n : spans[i] \in S
      /\ <<>> \in A /\ step \in [A \X S -> A]
      /\ \A a \in A, t \in S : step[<<a, t>>] = Loaded(m, spans, json, a, t)
  BY DEF LoadFold
<1>1. ASSUME NEW g PROVE LoadBy(g, m, spans, json) => Steps(g, step, A, <<>>, spans, n)
  <2> SUFFICES ASSUME LoadBy(g, m, spans, json), NEW d \in SUBSET (1 .. n), d # {}, g[d \ {Max(d)}] \in A
               PROVE  g[d] = step[<<g[d \ {Max(d)}], spans[Max(d)]>>]
    BY <1>0 DEF LoadBy, Steps
  <2>1. g[d] = Loaded(m, spans, json, g[d \ {Max(d)}], spans[Max(d)])
    BY <1>0 DEF LoadBy
  <2>2. Max(d) \in 1 .. n
    BY SomeMax
  <2> QED
    BY <1>0, <2>1, <2>2
<1>2. PICK h \in [SUBSET (1 .. n) -> A] : Steps(h, step, A, <<>>, spans, n)
  <2>1. Folds(step, A, <<>>, spans, n)
    BY <1>0, StepsExist
  <2> QED
    BY <2>1 DEF Folds
<1>3. LoadBy(h, m, spans, json)
  <2>1. ASSUME NEW d \in SUBSET (1 .. n)
        PROVE  h[d] = IF d = {} THEN <<>> ELSE Loaded(m, spans, json, h[d \ {Max(d)}], spans[Max(d)])
    <3>1. CASE d = {}
      BY <3>1, <1>0, <1>2 DEF Steps
    <3>2. CASE d # {}
      <4>1. Max(d) \in 1 .. n
        BY <3>2, SomeMax
      <4>2. h[d \ {Max(d)}] \in A
        BY <1>2
      <4>3. h[d] = step[<<h[d \ {Max(d)}], spans[Max(d)]>>]
        BY <3>2, <4>2, <1>0, <1>2 DEF Steps
      <4> QED
        BY <1>0, <3>2, <4>1, <4>2, <4>3
    <3> QED
      BY <3>1, <3>2
  <2>2. h = [d \in SUBSET (1 .. n) |-> h[d]]
    BY <1>2
  <2> QED
    BY <1>0, <2>1, <2>2 DEF LoadBy
<1>4. PICK g : g = CHOOSE f : LoadBy(f, m, spans, json)
  OBVIOUS
<1>5. Steps(g, step, A, <<>>, spans, n)
  BY <1>1, <1>3, <1>4
<1>6. PayloadsOf(m, spans, json) = g[1 .. n]
  BY <1>0, <1>4, LoadFolds
<1> QED
  BY <1>5, <1>6

NoneYet == [open |-> <<>>, cursor |-> 0, found |-> {}]
TagBy(g, m, tags) ==
  g = [d \in SUBSET DOMAIN PlacesOf(m) |-> IF d = {} THEN NoneYet ELSE Scan(m, tags, g[d \ {Max(d)}], PlacesOf(m)[Max(d)])]

\* What it is folded with: a step in A, for members of S.
TagFold(m, tags, n, A, S, step) ==
  /\ DOMAIN PlacesOf(m) = 1 .. n /\ \A i \in 1 .. n : PlacesOf(m)[i] \in S
  /\ NoneYet \in A /\ step \in [A \X S -> A]
  /\ \A a \in A, t \in S : step[<<a, t>>] = Scan(m, tags, a, t)

\* The fold, by its definition.
LEMMA TagFolds ==
  ASSUME NEW m, NEW tags
  PROVE  ScanTags(m, tags) = (CHOOSE g : TagBy(g, m, tags))[DOMAIN PlacesOf(m)]
BY DEF ScanTags, PlacesOf, NoneYet, FoldLeft, MapThenFoldSet, TagBy

\* Tags are read one after the other.
LEMMA TagSteps ==
  ASSUME NEW m, NEW tags, NEW n \in Nat, NEW A, NEW S, NEW step, TagFold(m, tags, n, A, S, step)
  PROVE  \E g : Steps(g, step, A, NoneYet, PlacesOf(m), n) /\ ScanTags(m, tags) = g[1 .. n]
<1>0. /\ DOMAIN PlacesOf(m) = 1 .. n /\ \A i \in 1 .. n : PlacesOf(m)[i] \in S
      /\ NoneYet \in A /\ step \in [A \X S -> A]
      /\ \A a \in A, t \in S : step[<<a, t>>] = Scan(m, tags, a, t)
  BY DEF TagFold
<1>1. ASSUME NEW g PROVE TagBy(g, m, tags) => Steps(g, step, A, NoneYet, PlacesOf(m), n)
  <2> SUFFICES ASSUME TagBy(g, m, tags), NEW d \in SUBSET (1 .. n), d # {}, g[d \ {Max(d)}] \in A
               PROVE  g[d] = step[<<g[d \ {Max(d)}], PlacesOf(m)[Max(d)]>>]
    BY <1>0 DEF TagBy, Steps
  <2>1. g[d] = Scan(m, tags, g[d \ {Max(d)}], PlacesOf(m)[Max(d)])
    BY <1>0 DEF TagBy
  <2>2. Max(d) \in 1 .. n
    BY SomeMax
  <2> QED
    BY <1>0, <2>1, <2>2
<1>2. PICK h \in [SUBSET (1 .. n) -> A] : Steps(h, step, A, NoneYet, PlacesOf(m), n)
  <2>1. Folds(step, A, NoneYet, PlacesOf(m), n)
    BY <1>0, StepsExist
  <2> QED
    BY <2>1 DEF Folds
<1>3. TagBy(h, m, tags)
  <2>1. ASSUME NEW d \in SUBSET (1 .. n)
        PROVE  h[d] = IF d = {} THEN NoneYet ELSE Scan(m, tags, h[d \ {Max(d)}], PlacesOf(m)[Max(d)])
    <3>1. CASE d = {}
      BY <3>1, <1>0, <1>2 DEF Steps
    <3>2. CASE d # {}
      <4>1. Max(d) \in 1 .. n
        BY <3>2, SomeMax
      <4>2. h[d \ {Max(d)}] \in A
        BY <1>2
      <4>3. h[d] = step[<<h[d \ {Max(d)}], PlacesOf(m)[Max(d)]>>]
        BY <3>2, <4>2, <1>0, <1>2 DEF Steps
      <4> QED
        BY <1>0, <3>2, <4>1, <4>2, <4>3
    <3> QED
      BY <3>1, <3>2
  <2>2. h = [d \in SUBSET (1 .. n) |-> h[d]]
    BY <1>2
  <2> QED
    BY <1>0, <2>1, <2>2 DEF TagBy
<1>4. PICK g : g = CHOOSE f : TagBy(f, m, tags)
  OBVIOUS
<1>5. Steps(g, step, A, NoneYet, PlacesOf(m), n)
  BY <1>1, <1>3, <1>4
<1>6. ScanTags(m, tags) = g[1 .. n]
  BY <1>0, <1>4, TagFolds
<1> QED
  BY <1>5, <1>6

\* What is read between two places lies between them, and in no code fence.
LEMMA SolidIn ==
  ASSUME NEW T, NEW m \in Seq(T), NEW from \in Nat, NEW to \in Nat, to <= Len(m) + 1
  PROVE  /\ Solid(m, from, to) \in SUBSET DOMAIN m /\ Solid(m, from, to) \cap Masked(m) = {}
         /\ Solid(m, from, to) \in SUBSET (from .. to) /\ \A k \in Solid(m, from, to) : from < k /\ k < to
BY DEF Solid

\* A position that is found lies after the one it is sought from.
LEMMA NextIs ==
  ASSUME NEW n \in Nat, NEW positions \in SUBSET (1 .. n), NEW i \in 1 .. n
  PROVE  NextOf(positions, i) = 0 \/ (NextOf(positions, i) \in 1 .. n /\ i < NextOf(positions, i))
<1>1. PICK q : q = After(positions, i)
  OBVIOUS
<1>2. q \in SUBSET Nat /\ \A k \in q : k \in 1 .. n /\ i < k
  <2>1. \A k \in positions : k \in 1 .. n /\ k \in Nat
    OBVIOUS
  <2>2. \A k \in q : k \in positions /\ k > i
    BY <1>1 DEF After
  <2> QED
    BY <2>1, <2>2
<1>3. CASE q = {}
  BY <1>1, <1>3 DEF NextOf
<1>4. CASE q # {}
  <2>1. Min(q) \in q
    BY <1>2, <1>4, SomeMin
  <2>2. NextOf(positions, i) = Min(q)
    BY <1>1, <1>4 DEF NextOf
  <2> QED
    BY <1>2, <2>1, <2>2
<1> QED
  BY <1>3, <1>4

\* So does the end of a line, which is the end of the text at the latest.
LEMMA LineEndAfter ==
  ASSUME NEW T, NEW m \in Seq(T), NEW i \in 0 .. Len(m)
  PROVE  LineEnd(m, i) \in Nat /\ i < LineEnd(m, i) /\ LineEnd(m, i) <= Len(m) + 1
<1>1. PICK q : q = After(Unmasked(m, "newline"), i) \union {Len(m) + 1}
  OBVIOUS
<1>2. q \in SUBSET Nat /\ q # {} /\ \A k \in q : i < k /\ k <= Len(m) + 1
  BY <1>1 DEF After, Unmasked
<1>3. Min(q) \in q
  BY <1>2, SomeMin
<1>4. LineEnd(m, i) = Min(q)
  BY <1>1 DEF LineEnd
<1> QED
  BY <1>2, <1>3, <1>4

SpanSet(m, starts, ends) ==
  {s \in [from : Nat, to : Nat] : s.from \in starts /\ s.to = ends[s.from] /\ s.from < s.to /\ s.to <= Len(m) + 1}
Ascending(spans) == \A i, j \in DOMAIN spans : i < j => spans[i].to < spans[j].from
Ahead(m, starts, ends) == \A i \in starts : ends[i] = 0 \/ (ends[i] \in Nat /\ i < ends[i] /\ ends[i] <= Len(m) + 1)

\* One more span keeps the order.
LEMMA SpannedIn ==
  ASSUME NEW T, NEW m \in Seq(T), NEW starts \in SUBSET DOMAIN m, NEW ends, Ahead(m, starts, ends),
         NEW a \in Seq(SpanSet(m, starts, ends)), Ascending(a), NEW i \in 1 .. Len(m)
  PROVE  /\ Spanned(m, starts, ends, a, i) \in Seq(SpanSet(m, starts, ends))
         /\ Ascending(Spanned(m, starts, ends, a, i))
<1>1. CASE i \in starts /\ ends[i] # 0 /\ (a = <<>> \/ i > Last(a).to)
  <2>1. PICK x : x = [from |-> i, to |-> ends[i]]
    OBVIOUS
  <2>2. x \in SpanSet(m, starts, ends) /\ x.from = i
    BY <1>1, <2>1 DEF SpanSet, Ahead
  <2>3. Spanned(m, starts, ends, a, i) = Append(a, x)
    BY <1>1, <2>1 DEF Spanned
  <2>4. PICK S : S = SpanSet(m, starts, ends)
    OBVIOUS
  <2>5. \A s \in S : s.from \in Nat /\ s.to \in Nat /\ s.from < s.to
    BY <2>4 DEF SpanSet
  <2>6. Append(a, x) \in Seq(S)
    BY <2>2, <2>4
  <2>7. Ascending(Append(a, x))
    <3> SUFFICES ASSUME NEW c \in DOMAIN Append(a, x), NEW d \in DOMAIN Append(a, x), c < d
                 PROVE  Append(a, x)[c].to < Append(a, x)[d].from
      BY DEF Ascending
    <3>1. CASE d \in DOMAIN a
      <4>1. c \in DOMAIN a
        BY <2>4, <3>1
      <4>2. Append(a, x)[c] = a[c] /\ Append(a, x)[d] = a[d]
        BY <2>4, <3>1, <4>1
      <4> QED
        BY <3>1, <4>1, <4>2 DEF Ascending
    <3>2. CASE d \notin DOMAIN a
      <4>1. d = Len(a) + 1 /\ c \in DOMAIN a /\ Len(a) \in DOMAIN a /\ a # <<>>
        BY <2>4, <3>2
      <4>2. Append(a, x)[c] = a[c] /\ Append(a, x)[d] = x
        BY <2>4, <4>1
      <4>3. a[Len(a)].to < i
        <5>1. Last(a).to < i
          BY <1>1, <4>1, <2>4, <2>5
        <5> QED
          BY <5>1 DEF Last
      <4>4. a[c].to <= a[Len(a)].to
        <5>1. CASE c = Len(a)
          BY <5>1, <4>1, <2>4, <2>5
        <5>2. CASE c # Len(a)
          <6>1. c < Len(a)
            BY <2>4, <4>1, <5>2
          <6>2. a[c].to < a[Len(a)].from
            BY <4>1, <6>1 DEF Ascending
          <6>3. a[c] \in S /\ a[Len(a)] \in S
            BY <2>4, <4>1
          <6> QED
            BY <6>2, <6>3, <2>5
        <5> QED
          BY <5>1, <5>2
      <4>5. a[c].to \in Nat /\ a[Len(a)].to \in Nat
        BY <2>4, <2>5, <4>1
      <4> QED
        BY <2>2, <4>2, <4>3, <4>4, <4>5
    <3> QED
      BY <3>1, <3>2
  <2> QED
    BY <2>3, <2>4, <2>6, <2>7
<1>2. CASE ~ (i \in starts /\ ends[i] # 0 /\ (a = <<>> \/ i > Last(a).to))
  BY <1>2 DEF Spanned
<1> QED
  BY <1>1, <1>2

\* Where spans are: in the text, in order.
SpansPlaced(m, spans) ==
  /\ \A c \in DOMAIN spans : /\ spans[c].from \in DOMAIN m /\ spans[c].to \in Nat
                             /\ spans[c].from < spans[c].to /\ spans[c].to <= Len(m) + 1
  /\ \A c, d \in DOMAIN spans : c # d => spans[c].to < spans[d].from \/ spans[d].to < spans[c].from

\* The spans of a regular expression do not meet, and each begins where it may.
LEMMA SpansAre ==
  ASSUME NEW T, NEW m \in Seq(T), NEW starts \in SUBSET DOMAIN m, NEW ends, Ahead(m, starts, ends)
  PROVE  /\ Spans(m, starts, ends) \in Seq(SpanSet(m, starts, ends))
         /\ SpansPlaced(m, Spans(m, starts, ends))
<1>3. PICK n \in Nat : DOMAIN m = 1 .. n
  OBVIOUS
<1> DEFINE S == SpanSet(m, starts, ends)
           A == {a \in Seq(S) : Ascending(a)}
           P == 1 .. n
           step == [x \in A \X P |-> Spanned(m, starts, ends, x[1], x[2])]
<1>1. step \in [A \X P -> A]
  <2> SUFFICES ASSUME NEW a \in A, NEW i \in P PROVE Spanned(m, starts, ends, a, i) \in A
    OBVIOUS
  <2>1. i \in 1 .. Len(m)
    BY <1>3
  <2> QED
    BY <2>1, SpannedIn
<1>2. <<>> \in A
  BY DEF Ascending
<1>4. DOMAIN PlacesOf(m) = 1 .. n /\ \A i \in 1 .. n : PlacesOf(m)[i] \in P
  BY <1>3 DEF PlacesOf
<1>5. \A a \in A, t \in P : step[<<a, t>>] = Spanned(m, starts, ends, a, t)
  OBVIOUS
<1>11. SpanFold(m, starts, ends, n, A, P, step)
  BY <1>1, <1>2, <1>4, <1>5 DEF SpanFold
<1>6. Spans(m, starts, ends) \in A
  <2> HIDE DEF A, step, P
  <2>2. \E g : Steps(g, step, A, <<>>, PlacesOf(m), n) /\ Spans(m, starts, ends) = g[1 .. n]
    BY <1>11, SpanSteps
  <2>6. PICK g : Steps(g, step, A, <<>>, PlacesOf(m), n) /\ Spans(m, starts, ends) = g[1 .. n]
    BY <2>2
  <2>3. PICK d : d = 1 .. n
    OBVIOUS
  <2>4. d \in SUBSET (1 .. n)
    BY <2>3
  <2>5. g[d] \in A
    BY <1>1, <1>2, <1>4, <2>4, <2>6, StepsTyped
  <2> QED
    BY <2>3, <2>5, <2>6
<1>7. PICK spans : spans = Spans(m, starts, ends)
  OBVIOUS
<1>8. spans \in Seq(S) /\ Ascending(spans)
  BY <1>6, <1>7
<1>9. \A c \in DOMAIN spans : spans[c] \in S /\ c \in Nat
  BY <1>8
<1>10. SpansPlaced(m, spans)
  <2>1. \A s \in S : /\ s.from \in DOMAIN m /\ s.to \in Nat /\ s.from < s.to /\ s.to <= Len(m) + 1
    BY DEF SpanSet
  <2>2. \A c, d \in DOMAIN spans : c # d => spans[c].to < spans[d].from \/ spans[d].to < spans[c].from
    BY <1>8, <1>9 DEF Ascending
  <2> HIDE DEF S
  <2> QED
    BY <1>9, <2>1, <2>2 DEF SpansPlaced
<1> QED
  BY <1>7, <1>8, <1>10

\* What lies in two spans does not meet, nor does it the rest of the text.
LEMMA SpansApart ==
  ASSUME NEW T, NEW m \in Seq(T), NEW spans, SpansPlaced(m, spans), NEW c \in DOMAIN spans
  PROVE  /\ (spans[c].from .. spans[c].to) \cap Rest(m, spans) = {}
         /\ \A d \in DOMAIN spans : c # d =>
              (spans[c].from .. spans[c].to) \cap (spans[d].from .. spans[d].to) = {}
<1>1. spans[c] \in Range(spans)
  BY DEF Range
<1>2. (spans[c].from .. spans[c].to) \cap Rest(m, spans) = {}
  BY <1>1 DEF Rest
<1>3. ASSUME NEW d \in DOMAIN spans, c # d
      PROVE  (spans[c].from .. spans[c].to) \cap (spans[d].from .. spans[d].to) = {}
  <2>1. /\ spans[c].from \in Nat /\ spans[c].to \in Nat /\ spans[d].from \in Nat /\ spans[d].to \in Nat
        /\ spans[c].to < spans[d].from \/ spans[d].to < spans[c].from
    BY <1>3 DEF SpansPlaced
  <2> QED
    BY <2>1
<1> QED
  BY <1>2, <1>3

\* What is read of a span.
LEMMA PlacedSolid ==
  ASSUME NEW T, NEW m \in Seq(T), NEW spans, SpansPlaced(m, spans), NEW c \in DOMAIN spans
  PROVE  /\ Solid(m, spans[c].from, spans[c].to) \in SUBSET DOMAIN m
         /\ Solid(m, spans[c].from, spans[c].to) \in SUBSET (spans[c].from .. spans[c].to)
         /\ Solid(m, spans[c].from, spans[c].to) \cap Masked(m) = {}
         /\ Solid(m, spans[c].from, spans[c].to) \cap Rest(m, spans) = {}
<1>5. spans[c].from \in Nat /\ spans[c].to \in Nat /\ spans[c].to <= Len(m) + 1
  <2>1. DOMAIN m \in SUBSET Nat
    OBVIOUS
  <2> QED
    BY <2>1 DEF SpansPlaced
<1>1. PICK from \in Nat, to \in Nat : from = spans[c].from /\ to = spans[c].to /\ to <= Len(m) + 1
  BY <1>5
<1>2. PICK at : at = Solid(m, from, to)
  OBVIOUS
<1>3. at \in SUBSET DOMAIN m /\ at \in SUBSET (from .. to) /\ at \cap Masked(m) = {}
  BY <1>1, <1>2, SolidIn
<1>4. (from .. to) \cap Rest(m, spans) = {}
  BY <1>1, SpansApart
<1> QED
  BY <1>1, <1>2, <1>3, <1>4

\* No two calls are read from one piece of text.
Apart(calls) == \A c, d \in DOMAIN calls : c # d => calls[c].at \cap calls[d].at = {}

\* Calls that are among the first k of others.
AmongFirst(calls, k, a) == Apart(a) /\ \A j \in DOMAIN a : \E i \in 1 .. k : a[j] = calls[i]

\* One more call keeps them so.
LEMMA KeepsAmong ==
  ASSUME NEW n \in Nat, NEW calls, DOMAIN calls = 1 .. n, Apart(calls), NEW dropped, NEW k \in 1 .. n,
         NEW j \in 0 .. n, j = k - 1, NEW a \in Seq(Range(calls) \ dropped), AmongFirst(calls, j, a)
  PROVE  AmongFirst(calls, k, Keeps(calls, dropped, a, calls[k]))
<1>1. CASE calls[k] \in dropped
  BY <1>1 DEF Keeps, AmongFirst
<1>2. CASE calls[k] \notin dropped
  <2>1. PICK x : x = calls[k]
    OBVIOUS
  <2>2. PICK b : b = Append(a, x)
    OBVIOUS
  <2>3. /\ DOMAIN b = 1 .. (Len(a) + 1) /\ DOMAIN a = 1 .. Len(a) /\ Len(a) \in Nat
        /\ \A i \in DOMAIN a : b[i] = a[i]
        /\ b[Len(a) + 1] = x
    BY <2>2
  <2>4. ASSUME NEW i \in DOMAIN a PROVE a[i].at \cap x.at = {}
    <3>1. PICK l \in 1 .. j : a[i] = calls[l]
      BY DEF AmongFirst
    <3>2. l # k /\ l \in 1 .. n
      OBVIOUS
    <3> QED
      BY <2>1, <3>1, <3>2 DEF Apart
  <2>5. Apart(b)
    <3> SUFFICES ASSUME NEW c \in DOMAIN b, NEW d \in DOMAIN b, c # d PROVE b[c].at \cap b[d].at = {}
      BY DEF Apart
    <3>1. CASE c \in DOMAIN a /\ d \in DOMAIN a
      BY <2>3, <3>1 DEF AmongFirst, Apart
    <3>2. CASE c \in DOMAIN a /\ d \notin DOMAIN a
      BY <2>3, <2>4, <3>2
    <3>3. CASE c \notin DOMAIN a /\ d \in DOMAIN a
      BY <2>3, <2>4, <3>3
    <3>4. CASE c \notin DOMAIN a /\ d \notin DOMAIN a
      BY <2>3, <3>4
    <3> QED
      BY <3>1, <3>2, <3>3, <3>4
  <2>6. \A i \in DOMAIN b : \E l \in 1 .. k : b[i] = calls[l]
    <3> SUFFICES ASSUME NEW i \in DOMAIN b PROVE \E l \in 1 .. k : b[i] = calls[l]
      OBVIOUS
    <3>1. CASE i \in DOMAIN a
      <4>1. PICK l \in 1 .. j : a[i] = calls[l]
        BY <3>1 DEF AmongFirst
      <4>2. l \in 1 .. k
        OBVIOUS
      <4> QED
        BY <2>3, <3>1, <4>1, <4>2
    <3>2. CASE i \notin DOMAIN a
      <4>1. b[i] = calls[k] /\ k \in 1 .. k
        BY <2>1, <2>3, <3>2
      <4> QED
        BY <4>1
    <3> QED
      BY <3>1, <3>2
  <2>7. Keeps(calls, dropped, a, calls[k]) = b
    BY <1>2, <2>1, <2>2 DEF Keeps
  <2> QED
    BY <2>5, <2>6, <2>7 DEF AmongFirst
<1> QED
  BY <1>1, <1>2

\* What is left of calls is of them, each read from a place of its own.
LEMMA DroppingKeeps ==
  ASSUME NEW n \in Nat, NEW calls, DOMAIN calls = 1 .. n, Apart(calls), NEW dropped
  PROVE  /\ Dropping(calls, dropped) \in Seq(Range(calls) \ dropped)
         /\ Apart(Dropping(calls, dropped))
<1> DEFINE A == Seq(Range(calls) \ dropped)
           S == Range(calls)
           step == [x \in A \X S |-> Keeps(calls, dropped, x[1], x[2])]
           I == [k \in 0 .. n |-> {a \in A : AmongFirst(calls, k, a)}]
<1>1. step \in [A \X S -> A]
  <2> SUFFICES ASSUME NEW a \in A, NEW c \in S PROVE Keeps(calls, dropped, a, c) \in A
    OBVIOUS
  <2> QED
    BY DEF Keeps
<1>2. <<>> \in A /\ <<>> \in I[0]
  BY DEF AmongFirst, Apart
<1>3. \A k \in 1 .. n : calls[k] \in S
  BY DEF Range
<1>4. \A a \in A, t \in S : step[<<a, t>>] = Keeps(calls, dropped, a, t)
  OBVIOUS
<1>5. \A k \in 1 .. n : \A a \in A \cap I[k - 1] : step[<<a, calls[k]>>] \in I[k]
  <2> SUFFICES ASSUME NEW k \in 1 .. n, NEW a \in A, a \in I[k - 1] PROVE step[<<a, calls[k]>>] \in I[k]
    OBVIOUS
  <2>1. PICK j \in 0 .. n : j = k - 1
    OBVIOUS
  <2>2. AmongFirst(calls, j, a)
    BY <2>1
  <2>3. AmongFirst(calls, k, Keeps(calls, dropped, a, calls[k]))
    BY <2>1, <2>2, KeepsAmong
  <2>4. step[<<a, calls[k]>>] = Keeps(calls, dropped, a, calls[k]) /\ step[<<a, calls[k]>>] \in A
    BY <1>1, <1>3
  <2> QED
    BY <2>3, <2>4
<1>6. KeptFold(calls, dropped, n, A, S, step)
  BY <1>1, <1>2, <1>3, <1>4 DEF KeptFold
<1>7. PICK r : r = Dropping(calls, dropped)
  OBVIOUS
<1>8. r \in A /\ r \in I[n]
  <2> HIDE DEF A, S, step, I
  <2>1. \E g : Steps(g, step, A, <<>>, calls, n) /\ Dropping(calls, dropped) = g[1 .. n]
    BY <1>6, KeptSteps
  <2>2. PICK g : Steps(g, step, A, <<>>, calls, n) /\ Dropping(calls, dropped) = g[1 .. n]
    BY <2>1
  <2>3. IndexedFold(g, step, A, S, <<>>, calls, n, I)
    BY <1>1, <1>2, <1>3, <1>5, <2>2 DEF IndexedFold
  <2>4. g[1 .. n] \in A /\ g[1 .. n] \in I[n]
    BY <2>3, StepsIndexed
  <2> QED
    BY <1>7, <2>2, <2>4
<1>9. Apart(r)
  BY <1>8 DEF AmongFirst
<1> QED
  BY <1>7, <1>8, <1>9

\* What a parser gives: calls with a place each, none of which stays as text or
\* is shared.
Clean(m, r) ==
  /\ r.calls \in Seq(Range(r.calls)) /\ r.left \in SUBSET DOMAIN m /\ Apart(r.calls)
  /\ \A c \in DOMAIN r.calls : /\ r.calls[c].at # {} /\ r.calls[c].at \in SUBSET DOMAIN m
                               /\ r.calls[c].at \cap r.left = {}

\* And none of which stands in a code fence.
Uncovered(m, r) == \A c \in DOMAIN r.calls : r.calls[c].at \cap Masked(m) = {}
Good(m, r) == Clean(m, r) /\ Uncovered(m, r)

\* Candidates for calls: without a place, they are no calls.
Placeable(m, rest, calls) ==
  /\ Apart(calls) /\ rest \in SUBSET DOMAIN m
  /\ \A c \in DOMAIN calls : /\ calls[c].at = {} => calls[c].tool = ""
                             /\ calls[c].at \in SUBSET DOMAIN m
                             /\ calls[c].at \cap rest = {} /\ calls[c].at \cap Masked(m) = {}

\* Candidates that speak are good calls.
LEMMA SpokenGood ==
  ASSUME NEW n \in Nat, NEW calls, DOMAIN calls = 1 .. n, NEW m, NEW rest, Placeable(m, rest, calls)
  PROVE  Good(m, Found(Spoken(calls), rest))
<1>1. PICK out : out = {c \in Range(calls) : c.tool = "" /\ c.at = {}}
  OBVIOUS
<1>2. PICK q : q = Dropping(calls, out)
  OBVIOUS
<1>3. q \in Seq(Range(calls) \ out) /\ Apart(q)
  BY <1>2, DroppingKeeps DEF Placeable
<1>4. \A x \in Range(calls) \ out : /\ x.at # {} /\ x.at \in SUBSET DOMAIN m
                                    /\ x.at \cap rest = {} /\ x.at \cap Masked(m) = {}
  BY <1>1 DEF Range, Placeable
<1>5. \A c \in DOMAIN q : q[c] \in Range(calls) \ out
  BY <1>3
<1>6. q \in Seq(Range(q))
  BY <1>3 DEF Range
<1>7. PICK r : r = Found(Spoken(calls), rest)
  OBVIOUS
<1>8. r.calls = q /\ r.left = rest
  BY <1>1, <1>2, <1>7 DEF Found, Spoken
<1>9. Good(m, r)
  BY <1>3, <1>4, <1>5, <1>6, <1>8 DEF Good, Clean, Uncovered, Placeable
<1> QED
  BY <1>7, <1>9

\* A list of a set has each of its members once.
LEMMA Listed ==
  ASSUME NEW S, IsFiniteSet(S)
  PROVE  /\ SetToSeq(S) \in Seq(S) /\ Len(SetToSeq(S)) = Cardinality(S) /\ Cardinality(S) \in Nat
         /\ \A i, j \in DOMAIN SetToSeq(S) : SetToSeq(S)[i] = SetToSeq(S)[j] => i = j
         /\ \A x \in S : \E i \in DOMAIN SetToSeq(S) : SetToSeq(S)[i] = x
<1>1. PICK n : n = Cardinality(S)
  OBVIOUS
<1>2. n \in Nat /\ ExistsBijection(1 .. n, S)
  BY <1>1, FS_CardinalityType
<1>3. PICK f : f = SetToSeq(S)
  OBVIOUS
<1>4. f \in [1 .. n -> S] /\ IsInjective(f)
  <2>1. \E g \in [1 .. n -> S] : IsInjective(g)
    BY <1>2 DEF ExistsBijection, Bijection, Injection, IsInjective
  <2> QED
    BY <1>1, <1>3, <2>1 DEF SetToSeq
<1>5. \A x \in S : \E i \in 1 .. n : f[i] = x
  <2>1. f \in Injection(1 .. n, S)
    BY <1>4 DEF Injection, IsInjective
  <2>2. IsFiniteSet(1 .. n) /\ Cardinality(1 .. n) = n
    BY <1>2, FS_Interval
  <2>3. f \in Surjection(1 .. n, S)
    BY <1>1, <2>1, <2>2, FS_Injection
  <2> QED
    BY <2>3 DEF Surjection
<1>6. f \in Seq(S) /\ Len(f) = n /\ DOMAIN f = 1 .. n
  BY <1>2, <1>4
<1>7. \A i, j \in DOMAIN f : f[i] = f[j] => i = j
  BY <1>4 DEF IsInjective
<1> QED
  BY <1>1, <1>2, <1>3, <1>5, <1>6, <1>7

\* Payloads no two of which share a piece of text.
Parted(P) == \A c, d \in DOMAIN P : c # d => P[c] \cap P[d] = {}

\* They lie in the first k spans.
Within(m, spans, k, P) ==
  Parted(P) /\ \A j \in DOMAIN P : \E i \in 1 .. k : P[j] \in SUBSET Solid(m, spans[i].from, spans[i].to)

\* What one span is unpacked to.
LEMMA UnpackedIs ==
  ASSUME NEW T, NEW m \in Seq(T), NEW at \in SUBSET DOMAIN m
  PROVE  /\ SetToSeq(Unpacked(m, at)) \in Seq(SUBSET at) /\ Parted(SetToSeq(Unpacked(m, at)))
<1>1. PICK u : u = Unpacked(m, at)
  OBVIOUS
<1>2. IsFiniteSet(at)
  <2>1. PICK d : d = DOMAIN m
    OBVIOUS
  <2>2. IsFiniteSet(d)
    BY <2>1, FS_Interval
  <2> QED
    BY <2>1, <2>2, FS_Subset
<1>3. IsFiniteSet(u) /\ u \in SUBSET (SUBSET at) /\ \A x, y \in u : x # y => x \cap y = {}
  <2>1. CASE \A k \in at : m[k].is = "object"
    <3>1. u = {{k} : k \in at}
      BY <1>1, <2>1 DEF Unpacked
    <3>2. PICK f : f = [k \in at |-> {k}]
      OBVIOUS
    <3>3. f \in [at -> u] /\ \A t \in u : \E k \in at : f[k] = t
      BY <3>1, <3>2
    <3>4. f \in Surjection(at, u)
      BY <3>3 DEF Surjection
    <3>5. IsFiniteSet(u)
      BY <1>2, <3>4, FS_Surjection
    <3>6. \A x \in u : \E k \in at : x = {k}
      BY <3>1
    <3>7. u \in SUBSET (SUBSET at)
      BY <3>6
    <3>8. ASSUME NEW x \in u, NEW y \in u, x # y PROVE x \cap y = {}
      <4>1. PICK k \in at, l \in at : x = {k} /\ y = {l}
        BY <3>6
      <4> QED
        BY <3>8, <4>1
    <3> QED
      BY <3>5, <3>7, <3>8
  <2>2. CASE ~ \A k \in at : m[k].is = "object"
    <3>1. u = {at}
      BY <1>1, <2>2 DEF Unpacked
    <3> QED
      BY <3>1, FS_Singleton
  <2> QED
    BY <2>1, <2>2
<1>4. PICK q : q = SetToSeq(u)
  OBVIOUS
<1>5. q \in Seq(u) /\ \A i, j \in DOMAIN q : q[i] = q[j] => i = j
  BY <1>3, <1>4, Listed
<1>6. q \in Seq(SUBSET at)
  BY <1>3, <1>5
<1>7. Parted(q)
  <2>1. \A i \in DOMAIN q : q[i] \in u
    BY <1>5
  <2> QED
    BY <1>3, <1>5, <2>1 DEF Parted
<1> QED
  BY <1>1, <1>4, <1>6, <1>7

\* One more span keeps its payloads apart from those before it.
LEMMA LoadedWithin ==
  ASSUME NEW T, NEW m \in Seq(T), NEW n \in Nat, NEW spans, DOMAIN spans = 1 .. n, SpansPlaced(m, spans), NEW json,
         NEW k \in 1 .. n, NEW j \in 0 .. n, j = k - 1, NEW a \in Seq(SUBSET DOMAIN m), Within(m, spans, j, a)
  PROVE  /\ Loaded(m, spans, json, a, spans[k]) \in Seq(SUBSET DOMAIN m)
         /\ Within(m, spans, k, Loaded(m, spans, json, a, spans[k]))
<1>1. CASE spans[k] \notin json
  BY <1>1 DEF Loaded, Within
<1>2. CASE spans[k] \in json
  <2>1. PICK at : at = Solid(m, spans[k].from, spans[k].to)
    OBVIOUS
  <2>2. at \in SUBSET DOMAIN m /\ at \in SUBSET (spans[k].from .. spans[k].to)
    BY <2>1, PlacedSolid
  <2>3. PICK q : q = SetToSeq(Unpacked(m, at))
    OBVIOUS
  <2>4. q \in Seq(SUBSET at) /\ Parted(q)
    BY <2>2, <2>3, UnpackedIs
  <2>5. PICK b : b = a \o q
    OBVIOUS
  <2>6. q \in Seq(SUBSET DOMAIN m)
    BY <2>2, <2>4
  <2>7. /\ b \in Seq(SUBSET DOMAIN m) /\ Len(a) \in Nat /\ Len(q) \in Nat /\ DOMAIN b = 1 .. (Len(a) + Len(q))
        /\ DOMAIN a = 1 .. Len(a) /\ DOMAIN q = 1 .. Len(q)
        /\ \A i \in DOMAIN a : b[i] = a[i]
        /\ \A i \in DOMAIN b : i \notin DOMAIN a => i - Len(a) \in DOMAIN q /\ b[i] = q[i - Len(a)]
    BY <2>5, <2>6
  <2>8. \A i \in DOMAIN q : q[i] \in SUBSET at
    BY <2>4
  <2>9. ASSUME NEW i \in DOMAIN a PROVE a[i] \cap at = {}
    <3>1. PICK l \in 1 .. j : a[i] \in SUBSET Solid(m, spans[l].from, spans[l].to)
      BY DEF Within
    <3>2. l # k /\ l \in 1 .. n
      OBVIOUS
    <3>3. Solid(m, spans[l].from, spans[l].to) \in SUBSET (spans[l].from .. spans[l].to)
      BY <3>2, PlacedSolid
    <3>4. (spans[k].from .. spans[k].to) \cap (spans[l].from .. spans[l].to) = {}
      BY <3>2, SpansApart
    <3> QED
      BY <2>2, <3>1, <3>3, <3>4
  <2>10. Parted(b)
    <3> SUFFICES ASSUME NEW c \in DOMAIN b, NEW d \in DOMAIN b, c # d PROVE b[c] \cap b[d] = {}
      BY DEF Parted
    <3>1. CASE c \in DOMAIN a /\ d \in DOMAIN a
      BY <2>7, <3>1 DEF Within, Parted
    <3>2. CASE c \in DOMAIN a /\ d \notin DOMAIN a
      BY <2>7, <2>8, <2>9, <3>2
    <3>3. CASE c \notin DOMAIN a /\ d \in DOMAIN a
      BY <2>7, <2>8, <2>9, <3>3
    <3>4. CASE c \notin DOMAIN a /\ d \notin DOMAIN a
      <4>1. PICK x, y : x = c - Len(a) /\ y = d - Len(a)
        OBVIOUS
      <4>2. x \in DOMAIN q /\ y \in DOMAIN q /\ x # y /\ b[c] = q[x] /\ b[d] = q[y]
        BY <2>7, <3>4, <4>1
      <4> QED
        BY <2>4, <4>2 DEF Parted
    <3> QED
      BY <3>1, <3>2, <3>3, <3>4
  <2>11. \A i \in DOMAIN b : \E l \in 1 .. k : b[i] \in SUBSET Solid(m, spans[l].from, spans[l].to)
    <3> SUFFICES ASSUME NEW i \in DOMAIN b
                 PROVE  \E l \in 1 .. k : b[i] \in SUBSET Solid(m, spans[l].from, spans[l].to)
      OBVIOUS
    <3>1. CASE i \in DOMAIN a
      <4>1. PICK l \in 1 .. j : a[i] \in SUBSET Solid(m, spans[l].from, spans[l].to)
        BY <3>1 DEF Within
      <4>2. l \in 1 .. k
        OBVIOUS
      <4> QED
        BY <2>7, <3>1, <4>1, <4>2
    <3>2. CASE i \notin DOMAIN a
      <4>1. b[i] \in SUBSET at /\ k \in 1 .. k
        BY <2>7, <2>8, <3>2
      <4> QED
        BY <2>1, <4>1
    <3> QED
      BY <3>1, <3>2
  <2>12. Loaded(m, spans, json, a, spans[k]) = b
    BY <1>2, <2>1, <2>3, <2>5 DEF Loaded
  <2> QED
    BY <2>7, <2>10, <2>11, <2>12 DEF Within
<1> QED
  BY <1>1, <1>2

\* The payloads of spans do not meet, and lie in them.
LEMMA PayloadsAre ==
  ASSUME NEW T, NEW m \in Seq(T), NEW n \in Nat, NEW spans, DOMAIN spans = 1 .. n, SpansPlaced(m, spans), NEW json
  PROVE  /\ PayloadsOf(m, spans, json) \in Seq(SUBSET DOMAIN m)
         /\ Within(m, spans, n, PayloadsOf(m, spans, json))
<1> DEFINE A == Seq(SUBSET DOMAIN m)
           S == {spans[i] : i \in 1 .. n}
           step == [x \in A \X S |-> Loaded(m, spans, json, x[1], x[2])]
           I == [k \in 0 .. n |-> {a \in A : Within(m, spans, k, a)}]
<1>1. step \in [A \X S -> A]
  <2> SUFFICES ASSUME NEW a \in A, NEW s \in S PROVE Loaded(m, spans, json, a, s) \in A
    OBVIOUS
  <2>1. CASE s \notin json
    BY <2>1 DEF Loaded
  <2>2. CASE s \in json
    <3>1. PICK i \in 1 .. n : s = spans[i]
      OBVIOUS
    <3>2. PICK at : at = Solid(m, spans[i].from, spans[i].to)
      OBVIOUS
    <3>3. at \in SUBSET DOMAIN m
      BY <3>2, PlacedSolid
    <3>4. PICK q : q = SetToSeq(Unpacked(m, at))
      OBVIOUS
    <3>5. q \in Seq(SUBSET at)
      BY <3>3, <3>4, UnpackedIs
    <3>6. q \in Seq(SUBSET DOMAIN m)
      BY <3>3, <3>5
    <3>7. Loaded(m, spans, json, a, s) = a \o q
      BY <2>2, <3>1, <3>2, <3>4 DEF Loaded
    <3> QED
      BY <3>6, <3>7
  <2> QED
    BY <2>1, <2>2
<1>2. <<>> \in A /\ <<>> \in I[0]
  BY DEF Within, Parted
<1>3. \A k \in 1 .. n : spans[k] \in S
  OBVIOUS
<1>4. \A a \in A, t \in S : step[<<a, t>>] = Loaded(m, spans, json, a, t)
  OBVIOUS
<1>5. \A k \in 1 .. n : \A a \in A \cap I[k - 1] : step[<<a, spans[k]>>] \in I[k]
  <2> SUFFICES ASSUME NEW k \in 1 .. n, NEW a \in A, a \in I[k - 1] PROVE step[<<a, spans[k]>>] \in I[k]
    OBVIOUS
  <2>1. PICK j \in 0 .. n : j = k - 1
    OBVIOUS
  <2>2. Within(m, spans, j, a)
    BY <2>1
  <2>3. Within(m, spans, k, Loaded(m, spans, json, a, spans[k]))
    BY <2>1, <2>2, LoadedWithin
  <2>4. step[<<a, spans[k]>>] = Loaded(m, spans, json, a, spans[k]) /\ step[<<a, spans[k]>>] \in A
    BY <1>1, <1>3
  <2> QED
    BY <2>3, <2>4
<1>6. LoadFold(m, spans, json, n, A, S, step)
  BY <1>1, <1>2, <1>3, <1>4 DEF LoadFold
<1>7. PICK r : r = PayloadsOf(m, spans, json)
  OBVIOUS
<1>8. r \in A /\ r \in I[n]
  <2> HIDE DEF A, S, step, I
  <2>1. \E g : Steps(g, step, A, <<>>, spans, n) /\ PayloadsOf(m, spans, json) = g[1 .. n]
    BY <1>6, LoadSteps
  <2>2. PICK g : Steps(g, step, A, <<>>, spans, n) /\ PayloadsOf(m, spans, json) = g[1 .. n]
    BY <2>1
  <2>3. IndexedFold(g, step, A, S, <<>>, spans, n, I)
    BY <1>1, <1>2, <1>3, <1>5, <2>2 DEF IndexedFold
  <2>4. g[1 .. n] \in A /\ g[1 .. n] \in I[n]
    BY <2>3, StepsIndexed
  <2> QED
    BY <1>7, <2>2, <2>4
<1> QED
  BY <1>7, <1>8

\* A payload becomes a call of the place it stands at, if of any.
LEMMA PayloadAt ==
  ASSUME NEW m, NEW at
  PROVE  Payload(m, at).at = at /\ Payload(m, at).tool = "" /\ (at = {} => Payload(m, at) = NoCall)
BY DEF Payload, NoCall

\* So it does when it is normalized,
LEMMA NormalizedShape ==
  ASSUME NEW m, NEW at
  PROVE  "at" \in DOMAIN Normalized(m, at) /\ Normalized(m, at).at = at
<1>1. PICK p : p = Payload(m, at)
  OBVIOUS
<1>2. "at" \in DOMAIN p /\ p.at = at
  BY <1>1 DEF Payload, NoCall
<1>3. ASSUME NEW u, NEW b
      PROVE  "at" \in DOMAIN [p EXCEPT !.tool = u, !.arguments = b] /\ [p EXCEPT !.tool = u, !.arguments = b].at = at
  BY <1>2
<1>4. Normalized(m, at) = p \/ \E u, b : Normalized(m, at) = [p EXCEPT !.tool = u, !.arguments = b]
  BY <1>1 DEF Normalized
<1> QED
  BY <1>2, <1>3, <1>4

\* of no place only if there is none,
LEMMA NormalizedAt ==
  ASSUME NEW m, NEW at
  PROVE  Normalized(m, at).at = at /\ (at = {} => Normalized(m, at) = NoCall)
<1>1. Normalized(m, at).at = at
  BY NormalizedShape
<1>2. ASSUME at = {} PROVE Normalized(m, at) = NoCall
  <2>1. Cardinality(at) # 1
    BY <1>2, FS_EmptySet
  <2>2. Normalized(m, at) = Payload(m, at)
    BY <2>1 DEF Normalized
  <2> QED
    BY <1>2, <2>2, PayloadAt
<1> QED
  BY <1>1, <1>2

\* and when its fields are looked for.
LEMMA FieldsAt ==
  ASSUME NEW m, NEW at
  PROVE  FieldsOf(m, at).at = at /\ (at = {} => FieldsOf(m, at) = NoCall)
<1>1. CASE at = {}
  <2>1. FieldsOf(m, at) = Payload(m, at)
    BY <1>1 DEF FieldsOf
  <2> QED
    BY <2>1, PayloadAt
<1>2. CASE at # {}
  BY <1>2 DEF FieldsOf, Payload, NoCall
<1> QED
  BY <1>1, <1>2

\* Payloads that do not meet, in no code fence and not in what is left, become
\* good calls.
LEMMA CallsGood ==
  ASSUME NEW n \in Nat, NEW payloads, DOMAIN payloads = 1 .. n, NEW m, NEW rest \in SUBSET DOMAIN m,
         Parted(payloads),
         \A c \in 1 .. n : /\ payloads[c] \in SUBSET DOMAIN m /\ payloads[c] \cap rest = {}
                           /\ payloads[c] \cap Masked(m) = {}
  PROVE  Good(m, Found(CallsOf(m, payloads), rest))
<1>1. PICK calls : calls = [p \in DOMAIN payloads |-> Normalized(m, payloads[p])]
  OBVIOUS
<1>2. DOMAIN calls = 1 .. n
  BY <1>1
<1>3. \A c \in 1 .. n : calls[c].at = payloads[c] /\ (calls[c].at = {} => calls[c].tool = "")
  <2> SUFFICES ASSUME NEW c \in 1 .. n
               PROVE  calls[c].at = payloads[c] /\ (calls[c].at = {} => calls[c].tool = "")
    OBVIOUS
  <2>1. calls[c] = Normalized(m, payloads[c])
    BY <1>1
  <2>2. Normalized(m, payloads[c]).at = payloads[c] /\ (payloads[c] = {} => Normalized(m, payloads[c]) = NoCall)
    BY NormalizedAt
  <2>3. NoCall.tool = ""
    BY DEF NoCall
  <2> QED
    BY <2>1, <2>2, <2>3
<1>4. Placeable(m, rest, calls)
  BY <1>2, <1>3 DEF Placeable, Apart, Parted
<1>5. CallsOf(m, payloads) = Spoken(calls)
  BY <1>1 DEF CallsOf
<1>6. Good(m, Found(Spoken(calls), rest))
  BY <1>2, <1>4, SpokenGood
<1> QED
  BY <1>5, <1>6

\* Nothing found is good.
LEMMA NothingGood ==
  ASSUME NEW m
  PROVE  Good(m, Nothing(m)) /\ Nothing(m).calls = <<>>
BY DEF Good, Clean, Uncovered, Nothing, Found, Apart, Range

\* Calls of the payloads of spans are good.
LEMMA SpanCallsGood ==
  ASSUME NEW T, NEW m \in Seq(T), NEW n \in Nat, NEW spans, DOMAIN spans = 1 .. n, SpansPlaced(m, spans), NEW json
  PROVE  Good(m, Found(CallsOf(m, PayloadsOf(m, spans, json)), Rest(m, spans)))
<1>1. PICK q : q = PayloadsOf(m, spans, json)
  OBVIOUS
<1>2. q \in Seq(SUBSET DOMAIN m) /\ Within(m, spans, n, q)
  BY <1>1, PayloadsAre
<1>3. PICK k \in Nat : DOMAIN q = 1 .. k
  BY <1>2
<1>4. \A c \in 1 .. k : /\ q[c] \in SUBSET DOMAIN m /\ q[c] \cap Rest(m, spans) = {}
                        /\ q[c] \cap Masked(m) = {}
  <2> SUFFICES ASSUME NEW c \in 1 .. k
               PROVE  /\ q[c] \in SUBSET DOMAIN m /\ q[c] \cap Rest(m, spans) = {}
                      /\ q[c] \cap Masked(m) = {}
    OBVIOUS
  <2>1. PICK i \in 1 .. n : q[c] \in SUBSET Solid(m, spans[i].from, spans[i].to)
    BY <1>2, <1>3 DEF Within
  <2>2. PICK at : at = Solid(m, spans[i].from, spans[i].to)
    OBVIOUS
  <2>3. at \in SUBSET DOMAIN m /\ at \cap Rest(m, spans) = {} /\ at \cap Masked(m) = {}
    BY <2>2, PlacedSolid
  <2> QED
    BY <2>1, <2>2, <2>3
<1>5. Rest(m, spans) \in SUBSET DOMAIN m
  BY DEF Rest
<1>6. Good(m, Found(CallsOf(m, q), Rest(m, spans)))
  BY <1>2, <1>3, <1>4, <1>5, CallsGood DEF Within
<1> QED
  BY <1>1, <1>6

\* After a llama tag,
LEMMA LlamaGood ==
  ASSUME NEW T, NEW m \in Seq(T)
  PROVE  Good(m, LlamaExtract(m))
<1>1. PICK starts, ends : starts = Marks(m, "llama") /\ ends = [i \in DOMAIN m |-> LineEnd(m, i)]
  OBVIOUS
<1>2. starts \in SUBSET DOMAIN m /\ Ahead(m, starts, ends)
  <2>1. starts \in SUBSET DOMAIN m
    BY <1>1 DEF Marks, Unmasked
  <2>2. \A i \in DOMAIN m : ends[i] \in Nat /\ i < ends[i] /\ ends[i] <= Len(m) + 1
    <3> SUFFICES ASSUME NEW i \in DOMAIN m PROVE ends[i] \in Nat /\ i < ends[i] /\ ends[i] <= Len(m) + 1
      OBVIOUS
    <3>1. i \in 0 .. Len(m)
      OBVIOUS
    <3>2. ends[i] = LineEnd(m, i)
      BY <1>1
    <3> QED
      BY <3>1, <3>2, LineEndAfter
  <2> QED
    BY <2>1, <2>2 DEF Ahead
<1>3. PICK spans : spans = Spans(m, starts, ends)
  OBVIOUS
<1>4. spans \in Seq(SpanSet(m, starts, ends)) /\ SpansPlaced(m, spans)
  BY <1>2, <1>3, SpansAre
<1>5. PICK n \in Nat : DOMAIN spans = 1 .. n
  BY <1>4
<1>6. Good(m, Found(CallsOf(m, PayloadsOf(m, spans, Range(spans))), Rest(m, spans)))
  BY <1>4, <1>5, SpanCallsGood
<1>7. LlamaExtract(m) = IF spans = <<>> THEN Nothing(m)
                        ELSE Found(CallsOf(m, PayloadsOf(m, spans, Range(spans))), Rest(m, spans))
  BY <1>1, <1>3 DEF LlamaExtract
<1> QED
  BY <1>6, <1>7, NothingGood

\* between two control characters,
LEMMA DeepSeekGood ==
  ASSUME NEW T, NEW m \in Seq(T)
  PROVE  Good(m, DeepSeekExtract(m))
<1>1. PICK starts, ends : /\ starts = Marks(m, "deepseek")
                          /\ ends = [i \in DOMAIN m |-> NextOf(Marks(m, "deepseek"), i)]
  OBVIOUS
<1>2. starts \in SUBSET DOMAIN m /\ Ahead(m, starts, ends)
  <2>1. starts \in SUBSET DOMAIN m
    BY <1>1 DEF Marks, Unmasked
  <2>2. PICK n \in Nat : n = Len(m) /\ DOMAIN m = 1 .. n
    OBVIOUS
  <2>3. \A i \in starts : ends[i] = 0 \/ (ends[i] \in Nat /\ i < ends[i] /\ ends[i] <= n + 1)
    <3> SUFFICES ASSUME NEW i \in starts
                 PROVE  ends[i] = 0 \/ (ends[i] \in Nat /\ i < ends[i] /\ ends[i] <= n + 1)
      OBVIOUS
    <3>1. i \in 1 .. n /\ starts \in SUBSET (1 .. n)
      BY <2>1, <2>2
    <3>2. PICK e : e = NextOf(starts, i)
      OBVIOUS
    <3>3. e = 0 \/ (e \in 1 .. n /\ i < e)
      BY <3>1, <3>2, NextIs
    <3>4. ends[i] = e
      BY <1>1, <2>1, <3>2
    <3> QED
      BY <3>3, <3>4
  <2> QED
    BY <2>1, <2>2, <2>3 DEF Ahead
<1>3. PICK spans : spans = Spans(m, starts, ends)
  OBVIOUS
<1>4. spans \in Seq(SpanSet(m, starts, ends)) /\ SpansPlaced(m, spans)
  BY <1>2, <1>3, SpansAre
<1>5. PICK n \in Nat : DOMAIN spans = 1 .. n
  BY <1>4
<1>6. PICK payloads : payloads = [s \in DOMAIN spans |-> Solid(m, spans[s].from, spans[s].to)]
  OBVIOUS
<1>7. \A c \in 1 .. n : /\ payloads[c] \in SUBSET DOMAIN m /\ payloads[c] \cap Rest(m, spans) = {}
                        /\ payloads[c] \cap Masked(m) = {}
                        /\ payloads[c] \in SUBSET (spans[c].from .. spans[c].to)
  <2> SUFFICES ASSUME NEW c \in 1 .. n
               PROVE  /\ payloads[c] \in SUBSET DOMAIN m /\ payloads[c] \cap Rest(m, spans) = {}
                      /\ payloads[c] \cap Masked(m) = {}
                      /\ payloads[c] \in SUBSET (spans[c].from .. spans[c].to)
    OBVIOUS
  <2>1. payloads[c] = Solid(m, spans[c].from, spans[c].to) /\ c \in DOMAIN spans
    BY <1>5, <1>6
  <2> QED
    BY <1>4, <2>1, PlacedSolid
<1>8. Parted(payloads)
  <2> SUFFICES ASSUME NEW c \in 1 .. n, NEW d \in 1 .. n, c # d PROVE payloads[c] \cap payloads[d] = {}
    BY <1>5, <1>6 DEF Parted
  <2>1. (spans[c].from .. spans[c].to) \cap (spans[d].from .. spans[d].to) = {}
    BY <1>4, <1>5, SpansApart
  <2> QED
    BY <1>7, <2>1
<1>9. Rest(m, spans) \in SUBSET DOMAIN m /\ DOMAIN payloads = 1 .. n
  BY <1>5, <1>6 DEF Rest
<1>10. Good(m, Found(CallsOf(m, payloads), Rest(m, spans)))
  BY <1>7, <1>8, <1>9, CallsGood
<1>11. DeepSeekExtract(m) = IF spans = <<>> THEN Nothing(m) ELSE Found(CallsOf(m, payloads), Rest(m, spans))
  BY <1>1, <1>3, <1>6 DEF DeepSeekExtract
<1> QED
  BY <1>10, <1>11, NothingGood

\* What is in the text twice is not in question.
LEMMA TwiceGood ==
  ASSUME NEW m, NEW calls, NEW rest, NEW x, Good(m, Found(calls, rest))
  PROVE  Good(m, [Found(calls, rest) EXCEPT !.twice = x])
<1>1. PICK r, s : r = Found(calls, rest) /\ s = [Found(calls, rest) EXCEPT !.twice = x]
  OBVIOUS
<1>2. r.calls = s.calls /\ r.left = s.left
  BY <1>1 DEF Found
<1>3. Good(m, r)
  BY <1>1
<1>4. Good(m, s)
  BY <1>2, <1>3 DEF Good, Clean, Uncovered
<1> QED
  BY <1>1, <1>4

\* after [TOOL_CALLS],
LEMMA MistralGood ==
  ASSUME NEW T, NEW m \in Seq(T)
  PROVE  Good(m, MistralExtract(m))
<1> DEFINE First(i) == Min({k \in (i + 1)..Len(m) : k \notin Masked(m) /\ m[k].is # "newline"} \union {Len(m) + 1})
<1>1. PICK starts, ends : /\ starts = Marks(m, "mistral")
                          /\ ends = [i \in DOMAIN m |-> LineEnd(m, First(i) - 1)]
  OBVIOUS
<1>2. starts \in SUBSET DOMAIN m /\ Ahead(m, starts, ends)
  <2>1. starts \in SUBSET DOMAIN m
    BY <1>1 DEF Marks, Unmasked
  <2>2. \A i \in DOMAIN m : ends[i] \in Nat /\ i < ends[i] /\ ends[i] <= Len(m) + 1
    <3> SUFFICES ASSUME NEW i \in DOMAIN m PROVE ends[i] \in Nat /\ i < ends[i] /\ ends[i] <= Len(m) + 1
      OBVIOUS
    <3>1. PICK q : q = {k \in (i + 1)..Len(m) : k \notin Masked(m) /\ m[k].is # "newline"} \union {Len(m) + 1}
      OBVIOUS
    <3>2. q \in SUBSET Nat /\ q # {} /\ \A k \in q : i < k /\ k <= Len(m) + 1
      BY <3>1
    <3>3. Min(q) \in q
      BY <3>2, SomeMin
    <3>8. PICK a \in Nat : a = Min(q) /\ i < a /\ a <= Len(m) + 1
      BY <3>2, <3>3
    <3>4. PICK b : b = a - 1
      OBVIOUS
    <3>5. b \in 0 .. Len(m) /\ i <= b
      BY <3>4, <3>8
    <3>6. LineEnd(m, b) \in Nat /\ b < LineEnd(m, b) /\ LineEnd(m, b) <= Len(m) + 1
      BY <3>5, LineEndAfter
    <3>7. ends[i] = LineEnd(m, b)
      BY <1>1, <3>1, <3>4, <3>8
    <3> QED
      BY <3>5, <3>6, <3>7
  <2> QED
    BY <2>1, <2>2 DEF Ahead
<1>3. PICK spans : spans = Spans(m, starts, ends)
  OBVIOUS
<1>4. spans \in Seq(SpanSet(m, starts, ends)) /\ SpansPlaced(m, spans)
  BY <1>2, <1>3, SpansAre
<1>5. PICK n \in Nat : DOMAIN spans = 1 .. n
  BY <1>4
<1> DEFINE Json(s) == LET at == Solid(m, s.from, s.to) IN
                        at # {} /\ (m[Min(at)].is \in {"object", "brace"} \/ Min(at) \in Marks(m, "mistral"))
           TextBefore(k) == ((IF k = 1 THEN 0 ELSE spans[k - 1].to) + 1)..(spans[k].from - 1)
           Twice == UNION {TextBefore(k) : k \in {l \in DOMAIN spans : ~Json(spans[l])}}
           J == {s \in Range(spans) : Json(s)}
<1>6. MistralExtract(m) = IF spans = <<>> THEN Nothing(m)
        ELSE [Found(CallsOf(m, PayloadsOf(m, spans, J)), Rest(m, spans)) EXCEPT !.twice = Twice]
  BY <1>1, <1>3 DEF MistralExtract
<1>7. PICK j, x : j = J /\ x = Twice
  OBVIOUS
<1>8. PICK calls, rest : calls = CallsOf(m, PayloadsOf(m, spans, j)) /\ rest = Rest(m, spans)
  OBVIOUS
<1>9. Good(m, Found(calls, rest))
  BY <1>4, <1>5, <1>8, SpanCallsGood
<1>10. Good(m, [Found(calls, rest) EXCEPT !.twice = x])
  BY <1>9, TwiceGood
<1>11. MistralExtract(m) = IF spans = <<>> THEN Nothing(m) ELSE [Found(calls, rest) EXCEPT !.twice = x]
  BY <1>6, <1>7, <1>8
<1> QED
  BY <1>10, <1>11, NothingGood

\* of objects without an envelope,
LEMMA GenericGood ==
  ASSUME NEW T, NEW m \in Seq(T)
  PROVE  Good(m, GenericExtract(m))
<1> DEFINE Call(i) == [Normalized(m, {i}) EXCEPT
                    !.arguments = IF m[i].args \in {"arguments", "parameters"} /\ m[i].key \in {"name", "tool"}
                                    THEN RawValue(m[i]) ELSE "payload"]
<1>1. PICK named : named = {i \in Scanned(m) : Normalized(m, {i}).tool \in Declared}
  OBVIOUS
<1>2. PICK calls : calls = [i \in DOMAIN m |-> IF i \in named THEN Call(i) ELSE NoCall]
  OBVIOUS
<1>3. PICK rest : rest = DOMAIN m \ named
  OBVIOUS
<1>4. PICK n \in Nat : DOMAIN m = 1 .. n
  OBVIOUS
<1>5. named \in SUBSET DOMAIN m /\ named \cap Masked(m) = {}
  BY <1>1 DEF Scanned, Unmasked
<1>6. \A i \in named : calls[i].at = {i}
  <2> SUFFICES ASSUME NEW i \in named PROVE calls[i].at = {i}
    OBVIOUS
  <2>1. "at" \in DOMAIN Normalized(m, {i}) /\ Normalized(m, {i}).at = {i}
    BY NormalizedShape
  <2>2. Call(i).at = {i}
    BY <2>1
  <2>4. calls[i] = Call(i)
    BY <1>2, <1>5
  <2> QED
    BY <2>2, <2>4
<1>7. \A i \in DOMAIN m \ named : calls[i].at = {} /\ calls[i].tool = ""
  BY <1>2 DEF NoCall
<1>8. Placeable(m, rest, calls)
  <2>1. DOMAIN calls = DOMAIN m
    BY <1>2
  <2>2. Apart(calls)
    BY <1>6, <1>7, <2>1 DEF Apart
  <2>3. \A c \in DOMAIN calls : /\ calls[c].at = {} => calls[c].tool = ""
                                /\ calls[c].at \in SUBSET DOMAIN m
                                /\ calls[c].at \cap rest = {} /\ calls[c].at \cap Masked(m) = {}
    <3> SUFFICES ASSUME NEW c \in DOMAIN m
                 PROVE  /\ calls[c].at = {} => calls[c].tool = ""
                        /\ calls[c].at \in SUBSET DOMAIN m
                        /\ calls[c].at \cap rest = {} /\ calls[c].at \cap Masked(m) = {}
      BY <2>1
    <3>1. CASE c \in named
      <4>1. calls[c].at = {c} /\ c \notin rest /\ c \notin Masked(m)
        BY <1>3, <1>5, <1>6, <3>1
      <4> QED
        BY <4>1
    <3>2. CASE c \notin named
      BY <1>7, <3>2
    <3> QED
      BY <3>1, <3>2
  <2> QED
    BY <1>3, <2>2, <2>3 DEF Placeable
<1>9. Good(m, Found(Spoken(calls), rest))
  <2>1. DOMAIN calls = 1 .. n
    BY <1>2, <1>4
  <2> QED
    BY <1>8, <2>1, SpokenGood
<1>10. GenericExtract(m) = IF named = {} THEN Nothing(m) ELSE Found(Spoken(calls), rest)
  BY <1>1, <1>2, <1>3 DEF GenericExtract
<1> QED
  BY <1>9, <1>10, NothingGood

\* A whole message that is a call: it leaves no text, and its nonce is its own.
WholeOf(m, r) ==
  r.calls # <<>> => r.left = {} /\ \E i \in DOMAIN m : m[i].is = "object" /\ r.calls[1].nonce = m[i].nonce

\* The call it is: the object at i.
WholeCall(m, r, i) ==
  m[i].is = "object" /\ r = Found(<<[tool |-> m[i].tool, arguments |-> RawValue(m[i]), nonce |-> m[i].nonce,
                                     id |-> m[i].id, at |-> {i}]>>, {})

\* The one call of a whole message.
LEMMA WholeClean ==
  ASSUME NEW T, NEW m \in Seq(T)
  PROVE  Clean(m, WholeExtract(m)) /\ WholeOf(m, WholeExtract(m))
<1>1. PICK r : r = WholeExtract(m)
  OBVIOUS
<1>2. CASE r = Nothing(m)
  <2>1. Clean(m, r) /\ r.calls = <<>>
    BY <1>2, NothingGood DEF Good
  <2> QED
    BY <1>1, <2>1 DEF WholeOf
<1>3. CASE r # Nothing(m)
  <2>1. \E S \in SUBSET DOMAIN m : Cardinality(S) = 1 /\ WholeCall(m, r, CHOOSE k \in S : TRUE)
    BY <1>1, <1>3 DEF WholeExtract, WholeCall
  <2>2. PICK S \in SUBSET DOMAIN m : Cardinality(S) = 1 /\ WholeCall(m, r, CHOOSE k \in S : TRUE)
    BY <2>1
  <2>3. PICK i : i = CHOOSE k \in S : TRUE
    OBVIOUS
  <2>4. i \in DOMAIN m
    <3>2. Cardinality(S) = 1
      BY <2>2
    <3>1. ASSUME S = {} PROVE FALSE
      BY <3>1, <3>2, FS_EmptySet
    <3> QED
      BY <2>3, <3>1
  <2>5. PICK c : c = [tool |-> m[i].tool, arguments |-> RawValue(m[i]), nonce |-> m[i].nonce,
                      id |-> m[i].id, at |-> {i}]
    OBVIOUS
  <2>6. m[i].is = "object" /\ r = Found(<<c>>, {}) /\ c.nonce = m[i].nonce /\ c.at = {i}
    BY <2>2, <2>3, <2>5 DEF WholeCall
  <2>7. r.calls = <<c>> /\ r.left = {}
    BY <2>6 DEF Found
  <2>8. /\ r.calls \in Seq(Range(r.calls)) /\ DOMAIN r.calls = {1} /\ r.calls[1] = c
    BY <2>7 DEF Range
  <2>9. Clean(m, r)
    BY <2>4, <2>6, <2>7, <2>8 DEF Clean, Apart
  <2>10. WholeOf(m, r)
    BY <2>4, <2>6, <2>7, <2>8 DEF WholeOf
  <2> QED
    BY <1>1, <2>9, <2>10
<1> QED
  BY <1>2, <1>3

\* What may be recovered of a tag: a place within its span, in no code fence.
RecoverableSpans(m) ==
  {r \in [from : DOMAIN m, to : Nat, at : SUBSET DOMAIN m] :
     r.to <= Len(m) + 1 /\ r.at \in SUBSET (r.from .. r.to) /\ r.at \cap Masked(m) = {}}

\* A tag that is closed is recovered, or the object that ends at the closing one.
LEMMA ClosingIn ==
  ASSUME NEW T, NEW m \in Seq(T), NEW k \in DOMAIN m,
         NEW s \in [open : Seq(DOMAIN m), cursor : Nat, found : SUBSET RecoverableSpans(m)]
  PROVE  Closing(m, s, k) \in [open : Seq(DOMAIN m), cursor : Nat, found : SUBSET RecoverableSpans(m)]
<1>1. k \in Nat /\ k <= Len(m) + 1
  OBVIOUS
<1>2. CASE s.open # <<>>
  <2>1. PICK i : i = Last(s.open)
    OBVIOUS
  <2>2. i \in DOMAIN m /\ i \in Nat /\ Front(s.open) \in Seq(DOMAIN m)
    <3>1. PICK d, o : d = DOMAIN m /\ o = s.open
      OBVIOUS
    <3>2. o \in Seq(d) /\ o # <<>> /\ d \in SUBSET Nat
      BY <1>2, <3>1
    <3>3. Last(o) \in d
      BY <3>2 DEF Last
    <3>4. Front(o) \in Seq(d)
      BY <3>2 DEF Front
    <3> QED
      BY <2>1, <3>1, <3>2, <3>3, <3>4
  <2>3. PICK at : at = Solid(m, i, k)
    OBVIOUS
  <2>4. at \in SUBSET DOMAIN m /\ at \in SUBSET (i .. k) /\ at \cap Masked(m) = {}
    BY <1>1, <2>2, <2>3, SolidIn
  <2>5. [from |-> i, to |-> k, at |-> at] \in RecoverableSpans(m)
    BY <1>1, <2>2, <2>4 DEF RecoverableSpans
  <2>6. Closing(m, s, k) = [open |-> Front(s.open), cursor |-> k,
                            found |-> s.found \union {[from |-> i, to |-> k, at |-> at]}]
    BY <1>2, <2>1, <2>3 DEF Closing
  <2> QED
    BY <1>1, <2>2, <2>5, <2>6
<1>3. CASE s.open = <<>>
  <2>1. PICK body : body = Solid(m, s.cursor, k)
    OBVIOUS
  <2>2. PICK last : last = {o \in SolidObjects(m, s.cursor, k) : After(body, o) = {}}
    OBVIOUS
  <2>3. body \in SUBSET DOMAIN m /\ (\A o \in body : o < k) /\ body \cap Masked(m) = {}
    BY <1>1, <2>1, SolidIn
  <2>4. last \in SUBSET body /\ \A o \in last : After(body, o) = {}
    BY <2>1, <2>2 DEF SolidObjects
  <2>5. CASE last = {}
    <3>1. Closing(m, s, k) = s
      BY <1>3, <2>1, <2>2, <2>5 DEF Closing
    <3> QED
      BY <3>1
  <2>6. CASE last # {}
    <3>1. PICK o : o \in last
      BY <2>6
    <3>2. last = {o}
      <4>1. ASSUME NEW p \in last, p # o PROVE FALSE
        <5>1. p \in body /\ o \in body /\ p \in Nat /\ o \in Nat /\ p \notin After(body, o) /\ o \notin After(body, p)
          BY <2>3, <2>4, <3>1
        <5> QED
          BY <4>1, <5>1 DEF After
      <4> QED
        BY <3>1, <4>1
    <3>3. o \in DOMAIN m /\ o < k /\ o \notin Masked(m) /\ o \in Nat
      BY <2>3, <2>4, <3>1
    <3>4. Max(last) = o
      <4>1. PICK q : q = last
        OBVIOUS
      <4>2. q \in SUBSET (1 .. o) /\ o \in q
        BY <3>2, <3>3, <4>1
      <4>3. Max(q) = o
        BY <3>3, <4>2, LastIsMax
      <4> QED
        BY <4>1, <4>3
    <3>5. [from |-> o, to |-> k, at |-> last] \in RecoverableSpans(m)
      BY <1>1, <3>2, <3>3 DEF RecoverableSpans
    <3>6. PICK f : f = s.found \union {[from |-> o, to |-> k, at |-> last]}
      OBVIOUS
    <3>7. f \in SUBSET RecoverableSpans(m)
      BY <3>5, <3>6
    <3>8. Closing(m, s, k) = s \/ Closing(m, s, k) = [s EXCEPT !.cursor = k, !.found = f]
      BY <1>3, <2>1, <2>2, <2>6, <3>4, <3>6 DEF Closing
    <3>9. [s EXCEPT !.cursor = k, !.found = f] \in
             [open : Seq(DOMAIN m), cursor : Nat, found : SUBSET RecoverableSpans(m)]
      BY <1>1, <3>7
    <3> QED
      BY <3>8, <3>9
  <2> QED
    BY <2>5, <2>6
<1> QED
  BY <1>2, <1>3

\* The tags of a text open in it, and what they close can be recovered.
LEMMA ScanIn ==
  ASSUME NEW T, NEW m \in Seq(T), NEW tags
  PROVE  ScanTags(m, tags) \in [open : Seq(DOMAIN m), cursor : Nat, found : SUBSET RecoverableSpans(m)]
<1>3. PICK n \in Nat : DOMAIN m = 1 .. n
  OBVIOUS
<1> DEFINE A == [open : Seq(DOMAIN m), cursor : Nat, found : SUBSET RecoverableSpans(m)]
           P == 1 .. n
           step == [x \in A \X P |-> Scan(m, tags, x[1], x[2])]
<1>1. step \in [A \X P -> A]
  <2> SUFFICES ASSUME NEW s \in A, NEW k \in P PROVE Scan(m, tags, s, k) \in A
    OBVIOUS
  <2>1. k \in DOMAIN m
    BY <1>3
  <2>2. Closing(m, s, k) \in A
    BY <2>1, ClosingIn
  <2>3. [s EXCEPT !.open = Append(@, k)] \in A
    <3>1. Append(s.open, k) \in Seq(DOMAIN m)
      BY <2>1
    <3> QED
      BY <3>1
  <2>4. Scan(m, tags, s, k) \in {s, [s EXCEPT !.open = Append(@, k)], Closing(m, s, k)}
    BY DEF Scan
  <2> HIDE DEF A
  <2> QED
    BY <2>2, <2>3, <2>4
<1>2. NoneYet \in A
  BY DEF NoneYet
<1>4. DOMAIN PlacesOf(m) = 1 .. n /\ \A i \in 1 .. n : PlacesOf(m)[i] \in P
  BY <1>3 DEF PlacesOf
<1>5. \A a \in A, t \in P : step[<<a, t>>] = Scan(m, tags, a, t)
  OBVIOUS
<1>11. TagFold(m, tags, n, A, P, step)
  BY <1>1, <1>2, <1>4, <1>5 DEF TagFold
<1>6. ScanTags(m, tags) \in A
  <2> HIDE DEF A, step, P
  <2>2. \E g : Steps(g, step, A, NoneYet, PlacesOf(m), n) /\ ScanTags(m, tags) = g[1 .. n]
    BY <1>11, TagSteps
  <2>6. PICK g : Steps(g, step, A, NoneYet, PlacesOf(m), n) /\ ScanTags(m, tags) = g[1 .. n]
    BY <2>2
  <2>3. PICK d : d = 1 .. n
    OBVIOUS
  <2>4. d \in SUBSET (1 .. n)
    BY <2>3
  <2>5. g[d] \in A
    BY <1>1, <1>2, <1>4, <2>4, <2>6, StepsTyped
  <2> QED
    BY <2>3, <2>5, <2>6
<1> QED
  BY <1>6

\* The object alone after an opening tag, if there is one.
Lone(m, tags, i) ==
  LET to == Min(After(tags, i) \union {Len(m) + 1})
  IN  IF Cardinality(Solid(m, i, to)) = 1 THEN SolidObjects(m, i, to) ELSE {}

\* It ends what is recovered of that tag.
LEMMA LoneIn ==
  ASSUME NEW T, NEW m \in Seq(T), NEW tags \in SUBSET DOMAIN m, NEW i \in DOMAIN m, Lone(m, tags, i) # {}
  PROVE  [from |-> i, to |-> Min(Lone(m, tags, i)), at |-> Lone(m, tags, i)] \in RecoverableSpans(m)
<1>1. PICK q : q = After(tags, i) \union {Len(m) + 1}
  OBVIOUS
<1>2. q \in SUBSET Nat /\ q # {} /\ \A k \in q : k <= Len(m) + 1
  BY <1>1 DEF After
<1>3. PICK to \in Nat : to = Min(q) /\ to <= Len(m) + 1
  <2>1. Min(q) \in q
    BY <1>2, SomeMin
  <2> QED
    BY <1>2, <2>1
<1>4. PICK at : at = Solid(m, i, to)
  OBVIOUS
<1>5. at \in SUBSET DOMAIN m /\ at \cap Masked(m) = {} /\ \A k \in at : i < k /\ k < to
  <2>1. i \in Nat
    OBVIOUS
  <2> QED
    BY <1>3, <1>4, <2>1, SolidIn
<1>6. PICK l : l = Lone(m, tags, i)
  OBVIOUS
<1>7. Cardinality(at) = 1 /\ l = SolidObjects(m, i, to) /\ l # {}
  BY <1>1, <1>3, <1>4, <1>6 DEF Lone
<1>8. PICK o : at = {o}
  <2>1. IsFiniteSet(at)
    <3>1. PICK d : d = DOMAIN m
      OBVIOUS
    <3>2. IsFiniteSet(d)
      BY <3>1, FS_Interval
    <3> QED
      BY <1>5, <3>1, <3>2, FS_Subset
  <2> QED
    BY <1>7, <2>1, FS_Singleton
<1>9. l = {o} /\ o \in DOMAIN m /\ i < o /\ o <= Len(m) /\ o \notin Masked(m) /\ o \in Nat
  <2>1. l \in SUBSET at
    BY <1>4, <1>7 DEF SolidObjects
  <2> QED
    BY <1>5, <1>7, <1>8, <2>1
<1>10. Min(l) = o
  <2>1. l \in SUBSET Nat /\ l # {}
    BY <1>9
  <2>2. Min(l) \in l
    BY <2>1, SomeMin
  <2> QED
    BY <1>9, <2>2
<1>11. [from |-> i, to |-> o, at |-> l] \in RecoverableSpans(m)
  BY <1>9 DEF RecoverableSpans
<1> QED
  BY <1>6, <1>10, <1>11

\* What is recovered can be.
LEMMA RecoveredIn ==
  ASSUME NEW T, NEW m \in Seq(T), NEW family
  PROVE  Recovered(m, family) \in SUBSET RecoverableSpans(m)
<1>1. PICK tags : tags = Tags(m, "open", family) \union Tags(m, "close", family)
  OBVIOUS
<1>2. tags \in SUBSET DOMAIN m
  BY <1>1 DEF Tags, Unmasked
<1>3. PICK end : end = ScanTags(m, tags)
  OBVIOUS
<1>4. end.open \in Seq(DOMAIN m) /\ end.found \in SUBSET RecoverableSpans(m)
  BY <1>3, ScanIn
<1>5. Recovered(m, family) = end.found \union
        {[from |-> i, to |-> Min(Lone(m, tags, i)), at |-> Lone(m, tags, i)] :
           i \in {j \in Range(end.open) : Lone(m, tags, j) # {}}}
  BY <1>1, <1>3 DEF Recovered, Lone
<1>6. \A i \in Range(end.open) : i \in DOMAIN m
  BY <1>4 DEF Range
<1>7. \A i \in Range(end.open) : Lone(m, tags, i) # {} =>
         [from |-> i, to |-> Min(Lone(m, tags, i)), at |-> Lone(m, tags, i)] \in RecoverableSpans(m)
  BY <1>2, <1>6, LoneIn
<1> QED
  BY <1>4, <1>5, <1>7

\* How a dialect reads the payloads and the attributes of its tags: as calls of
\* the place they stand at.
ReadsInPlace(m, payload, attributes) ==
  /\ \A at \in SUBSET DOMAIN m : payload[at].at = at /\ (at = {} => payload[at] = NoCall)
  /\ \A i \in DOMAIN m : attributes[i] = NoCall \/ attributes[i].at = {i}

\* The envelopes of a dialect are good calls,
LEMMA EnvelopesGood ==
  ASSUME NEW T, NEW m \in Seq(T), NEW payload, NEW attributes, ReadsInPlace(m, payload, attributes),
         NEW n \in Nat, NEW spans, DOMAIN spans = 1 .. n, SpansPlaced(m, spans),
         \A s \in DOMAIN spans : spans[s].from \notin Masked(m),
         NEW read, DOMAIN read = 1 .. n,
         \A s \in 1 .. n : read[s] \in {payload[Solid(m, spans[s].from, spans[s].to)], attributes[spans[s].from]}
  PROVE  Good(m, Found(Spoken(read), Rest(m, spans)))
<1>1. ASSUME NEW s \in 1 .. n
      PROVE  /\ read[s].at = {} => read[s].tool = ""
             /\ read[s].at \in SUBSET DOMAIN m /\ read[s].at \in SUBSET (spans[s].from .. spans[s].to)
             /\ read[s].at \cap Rest(m, spans) = {} /\ read[s].at \cap Masked(m) = {}
  <2>1. PICK at : at = Solid(m, spans[s].from, spans[s].to)
    OBVIOUS
  <2>2. /\ at \in SUBSET DOMAIN m /\ at \in SUBSET (spans[s].from .. spans[s].to)
        /\ at \cap Masked(m) = {} /\ at \cap Rest(m, spans) = {}
    BY <2>1, PlacedSolid
  <2>3. PICK from : from = spans[s].from
    OBVIOUS
  <2>4. from \in DOMAIN m /\ from \notin Masked(m) /\ from \in spans[s].from .. spans[s].to
    <3>1. spans[s].from \in DOMAIN m /\ spans[s].to \in Nat /\ spans[s].from < spans[s].to
      BY DEF SpansPlaced
    <3>2. spans[s].from \in Nat
      BY <3>1
    <3>3. spans[s].from \in spans[s].from .. spans[s].to
      BY <3>1, <3>2
    <3> QED
      BY <2>3, <3>1, <3>3
  <2>5. (spans[s].from .. spans[s].to) \cap Rest(m, spans) = {}
    BY SpansApart
  <2>6. NoCall.tool = "" /\ NoCall.at = {}
    BY DEF NoCall
  <2>7. CASE read[s] = payload[at]
    BY <2>2, <2>6, <2>7 DEF ReadsInPlace
  <2>8. CASE read[s] = attributes[from]
    <3>1. read[s] = NoCall \/ read[s].at = {from}
      BY <2>4, <2>8 DEF ReadsInPlace
    <3> QED
      BY <2>4, <2>5, <2>6, <3>1
  <2> QED
    BY <2>1, <2>3, <2>7, <2>8
<1>2. Apart(read)
  <2> SUFFICES ASSUME NEW c \in 1 .. n, NEW d \in 1 .. n, c # d PROVE read[c].at \cap read[d].at = {}
    BY DEF Apart
  <2>1. (spans[c].from .. spans[c].to) \cap (spans[d].from .. spans[d].to) = {}
    BY SpansApart
  <2> QED
    BY <1>1, <2>1
<1>3. Rest(m, spans) \in SUBSET DOMAIN m
  BY DEF Rest
<1>4. Placeable(m, Rest(m, spans), read)
  BY <1>1, <1>2, <1>3 DEF Placeable
<1> QED
  BY <1>4, SpokenGood

\* and so is the first one that is recovered.
LEMMA RecoveryGood ==
  ASSUME NEW T, NEW m \in Seq(T), NEW r \in RecoverableSpans(m), r.at # {}, NEW c, c.at = r.at
  PROVE  Good(m, Found(<<c>>, Rest(m, <<r>>)))
<1>1. PICK rest : rest = Rest(m, <<r>>)
  OBVIOUS
<1>2. rest \in SUBSET DOMAIN m /\ r.at \cap rest = {}
  <2>1. r \in Range(<<r>>)
    BY DEF Range
  <2>2. r.at \in SUBSET (r.from .. r.to)
    BY DEF RecoverableSpans
  <2> QED
    BY <1>1, <2>1, <2>2 DEF Rest
<1>3. c.at # {} /\ c.at \in SUBSET DOMAIN m /\ c.at \cap Masked(m) = {} /\ c.at \cap rest = {}
  BY <1>2 DEF RecoverableSpans
<1>4. PICK q : q = <<c>>
  OBVIOUS
<1>5. DOMAIN q = {1} /\ q[1] = c /\ q \in Seq(Range(q))
  BY <1>4 DEF Range
<1>6. PICK f : f = Found(q, rest)
  OBVIOUS
<1>7. f.calls = q /\ f.left = rest
  BY <1>6 DEF Found
<1>8. Good(m, f)
  BY <1>2, <1>3, <1>5, <1>7 DEF Good, Clean, Uncovered, Apart
<1> QED
  BY <1>1, <1>4, <1>6, <1>8

\* A dialect of tags finds good calls.
LEMMA TaggedGood ==
  ASSUME NEW T, NEW m \in Seq(T), NEW tag, NEW aliases, NEW payload, NEW attributes,
         ReadsInPlace(m, payload, attributes)
  PROVE  Good(m, Tagged(m, tag, aliases, payload, attributes))
<1>1. PICK starts, ends : /\ starts = Tags(m, "open", {tag})
                          /\ ends = [i \in DOMAIN m |-> NextOf(Tags(m, "close", {tag}), i)]
  OBVIOUS
<1>2. starts \in SUBSET DOMAIN m /\ Ahead(m, starts, ends) /\ starts \cap Masked(m) = {}
  <2>1. starts \in SUBSET DOMAIN m /\ starts \cap Masked(m) = {}
    BY <1>1 DEF Tags, Unmasked
  <2>2. PICK n \in Nat : n = Len(m) /\ DOMAIN m = 1 .. n
    OBVIOUS
  <2>4. PICK closing : closing = Tags(m, "close", {tag})
    OBVIOUS
  <2>5. closing \in SUBSET (1 .. n)
    BY <2>2, <2>4 DEF Tags, Unmasked
  <2>3. \A i \in starts : ends[i] = 0 \/ (ends[i] \in Nat /\ i < ends[i] /\ ends[i] <= n + 1)
    <3> SUFFICES ASSUME NEW i \in starts
                 PROVE  ends[i] = 0 \/ (ends[i] \in Nat /\ i < ends[i] /\ ends[i] <= n + 1)
      OBVIOUS
    <3>1. i \in 1 .. n
      BY <2>1, <2>2
    <3>2. PICK e : e = NextOf(closing, i)
      OBVIOUS
    <3>3. e = 0 \/ (e \in 1 .. n /\ i < e)
      BY <2>5, <3>1, <3>2, NextIs
    <3>4. ends[i] = e
      BY <1>1, <2>1, <2>4, <3>2
    <3> QED
      BY <3>3, <3>4
  <2> QED
    BY <2>1, <2>2, <2>3 DEF Ahead
<1>3. PICK spans : spans = Spans(m, starts, ends)
  OBVIOUS
<1>4. spans \in Seq(SpanSet(m, starts, ends)) /\ SpansPlaced(m, spans)
  BY <1>2, <1>3, SpansAre
<1>5. PICK n \in Nat : DOMAIN spans = 1 .. n
  BY <1>4
<1>6. \A s \in DOMAIN spans : spans[s].from \notin Masked(m)
  <2>1. \A s \in DOMAIN spans : spans[s] \in SpanSet(m, starts, ends)
    BY <1>4
  <2> QED
    BY <1>2, <2>1 DEF SpanSet
<1> DEFINE Said(s) == IF payload[Solid(m, s.from, s.to)] = NoCall THEN attributes[s.from]
                      ELSE payload[Solid(m, s.from, s.to)]
           Firsts == {r \in FirstRecovered(m, tag, aliases) : r.at # {}}
<1>7. PICK read : read = [s \in DOMAIN spans |-> Said(spans[s])]
  OBVIOUS
<1>8. Good(m, Found(Spoken(read), Rest(m, spans)))
  <2>1. DOMAIN read = 1 .. n
    BY <1>5, <1>7
  <2>2. \A s \in 1 .. n :
           read[s] \in {payload[Solid(m, spans[s].from, spans[s].to)], attributes[spans[s].from]}
    BY <1>5, <1>7
  <2> QED
    BY <1>4, <1>5, <1>6, <2>1, <2>2, EnvelopesGood
<1>9. PICK firsts : firsts = Firsts
  OBVIOUS
<1>10. PICK r : r = CHOOSE s \in firsts : TRUE
  OBVIOUS
<1>11. ASSUME firsts # {} PROVE Good(m, Found(<<payload[r.at]>>, Rest(m, <<r>>)))
  <2>1. r \in firsts
    BY <1>10, <1>11
  <2>2. r \in Recovered(m, {tag} \union aliases) /\ r.at # {}
    BY <1>9, <2>1 DEF FirstRecovered
  <2>3. r \in RecoverableSpans(m)
    BY <2>2, RecoveredIn
  <2>4. PICK c : c = payload[r.at]
    OBVIOUS
  <2>5. c.at = r.at
    BY <2>3, <2>4 DEF RecoverableSpans, ReadsInPlace
  <2> QED
    BY <2>2, <2>3, <2>4, <2>5, RecoveryGood
<1>12. Tagged(m, tag, aliases, payload, attributes) =
         IF spans # <<>> THEN Found(Spoken(read), Rest(m, spans))
         ELSE IF firsts # {} THEN Found(<<payload[r.at]>>, Rest(m, <<r>>))
         ELSE Nothing(m)
  BY <1>1, <1>3, <1>7, <1>9, <1>10 DEF Tagged
<1> QED
  BY <1>8, <1>11, <1>12, NothingGood

\* of the envelope,
LEMMA EnvelopeGood ==
  ASSUME NEW T, NEW m \in Seq(T)
  PROVE  Good(m, EnvelopeExtract(m))
<1>1. PICK payload, attributes :
         /\ payload = [at \in SUBSET DOMAIN m |-> FieldsOf(m, at)]
         /\ attributes = [i \in DOMAIN m |-> IF m[i].call = "none" THEN NoCall ELSE AttributesOf(m, i)]
  OBVIOUS
<1>2. ReadsInPlace(m, payload, attributes)
  <2>1. \A at \in SUBSET DOMAIN m : payload[at].at = at /\ (at = {} => payload[at] = NoCall)
    BY <1>1, FieldsAt
  <2>2. \A i \in DOMAIN m : AttributesOf(m, i).at = {i}
    BY DEF AttributesOf, NoCall
  <2> QED
    BY <1>1, <2>1, <2>2 DEF ReadsInPlace
<1>3. Good(m, Tagged(m, "tool_call", EnvelopeAliases, payload, attributes))
  BY <1>2, TaggedGood
<1> QED
  BY <1>1, <1>3 DEF EnvelopeExtract

\* of Hermes and of Qwen.
LEMMA NormalizedTagsGood ==
  ASSUME NEW T, NEW m \in Seq(T)
  PROVE  Good(m, HermesExtract(m)) /\ Good(m, QwenExtract(m))
<1>1. PICK payload, attributes : /\ payload = [at \in SUBSET DOMAIN m |-> Normalized(m, at)]
                                 /\ attributes = [i \in DOMAIN m |-> NoCall]
  OBVIOUS
<1>2. ReadsInPlace(m, payload, attributes)
  BY <1>1, NormalizedAt DEF ReadsInPlace
<1>3. /\ Good(m, Tagged(m, "tool_call", EnvelopeAliases, payload, attributes))
      /\ Good(m, Tagged(m, "tool", EnvelopeAliases, payload, attributes))
  BY <1>2, TaggedGood
<1> QED
  BY <1>1, <1>3 DEF HermesExtract, QwenExtract

\* Every registered parser finds clean calls, and every one but that of whole
\* messages leaves code fences alone; what has no parser finds nothing.
LEMMA ExtractClean ==
  ASSUME NEW T, NEW m \in Seq(T), NEW parser \in Parsers \union {"none"}
  PROVE  /\ Clean(m, Extract(parser, m))
         /\ parser # "whole_message_json" => Uncovered(m, Extract(parser, m))
         /\ parser = "whole_message_json" => WholeOf(m, Extract(parser, m))
         /\ parser \in {"native_structured", "none"} => Extract(parser, m).calls = <<>>
<1>1. CASE parser = "tool_call_envelope"
  <2>1. Extract(parser, m) = EnvelopeExtract(m)
    BY <1>1 DEF Extract
  <2> QED
    BY <1>1, <2>1, EnvelopeGood DEF Good
<1>2. CASE parser = "hermes"
  <2>1. Extract(parser, m) = HermesExtract(m)
    BY <1>2 DEF Extract
  <2> QED
    BY <1>2, <2>1, NormalizedTagsGood DEF Good
<1>3. CASE parser = "qwen"
  <2>1. Extract(parser, m) = QwenExtract(m)
    BY <1>3 DEF Extract
  <2> QED
    BY <1>3, <2>1, NormalizedTagsGood DEF Good
<1>4. CASE parser = "mistral"
  <2>1. Extract(parser, m) = MistralExtract(m)
    BY <1>4 DEF Extract
  <2> QED
    BY <1>4, <2>1, MistralGood DEF Good
<1>5. CASE parser = "deepseek"
  <2>1. Extract(parser, m) = DeepSeekExtract(m)
    BY <1>5 DEF Extract
  <2> QED
    BY <1>5, <2>1, DeepSeekGood DEF Good
<1>6. CASE parser = "llama"
  <2>1. Extract(parser, m) = LlamaExtract(m)
    BY <1>6 DEF Extract
  <2> QED
    BY <1>6, <2>1, LlamaGood DEF Good
<1>7. CASE parser = "generic_balanced_json"
  <2>1. Extract(parser, m) = GenericExtract(m)
    BY <1>7 DEF Extract
  <2> QED
    BY <1>7, <2>1, GenericGood DEF Good
<1>8. CASE parser = "whole_message_json"
  <2>1. Extract(parser, m) = WholeExtract(m)
    BY <1>8 DEF Extract
  <2> QED
    BY <1>8, <2>1, WholeClean
<1>9. CASE parser \in {"native_structured", "none"}
  <2>1. Extract(parser, m) = Nothing(m)
    BY <1>9 DEF Extract
  <2> QED
    BY <1>9, <2>1, NothingGood DEF Good
<1> QED
  BY <1>1, <1>2, <1>3, <1>4, <1>5, <1>6, <1>7, <1>8, <1>9 DEF Parsers

\* What holds between the readings: of the constants,
ReadingTypeOK ==
  /\ written \in Seq(Range(written)) /\ invocation.parser \in Parsers \union {"none"}
  /\ invocation.strategies \in Seq(Range(invocation.strategies))
  /\ \A i \in DOMAIN invocation.strategies : invocation.strategies[i].parser \in Parsers
  /\ next \in 1 .. Len(invocation.strategies) + 1
  /\ IsFiniteSet(reported) /\ \A n \in reported : n.at = {}

\* of how far the reading is,
ReadingOrder ==
  /\ reading \in {"planned", "primary", "merging", "done"}
  /\ reading # "done" => merged = <<>>
  /\ reading = "planned" => next = 1 /\ finding.calls = <<>>
  /\ reading = "primary" => invocation.parser \notin {"native_structured", "none"} /\ invocation.mode # "disabled"
  /\ reading = "merging" => invocation.mode # "disabled"

\* and of what is found: the calls are clean, and in a code fence only if they
\* are the whole message.
FindingClean ==
  /\ Clean(written, finding)
  /\ Uncovered(written, finding) \/
       (finding.left = {} /\ (invocation.parser = "whole_message_json" \/ next > 1))

ExtractInv == ReadingTypeOK /\ ReadingOrder /\ FindingClean /\ Trusted /\ Reported

\* What is in a fence, by what is open up to it, is masked.
LEMMA FencedMasked ==
  ASSUME NEW T, NEW m \in Seq(T), NEW i \in DOMAIN m, Cardinality({j \in 1..i : m[j].is = "fence"}) % 2 = 1
  PROVE  i \in Masked(m)
<1>1. PICK fences : fences = {j \in DOMAIN m : m[j].is = "fence"}
  OBVIOUS
<1>2. CASE i \in fences
  BY <1>1, <1>2 DEF Masked
<1>3. CASE i \notin fences
  <2>1. {j \in 1 .. i : m[j].is = "fence"} = {j \in fences : j < i}
    BY <1>1, <1>3
  <2>2. Cardinality({j \in fences : j < i}) % 2 = 1
    BY <2>1
  <2> QED
    BY <1>1, <2>2 DEF Masked
<1> QED
  BY <1>2, <1>3

\* The candidates are sound as long as it holds.
LEMMA ExtractInvSound ==
  ASSUME ExtractInv
  PROVE  CandidatesSound /\ ReadOnce
<1>1. CandidatesSound
  BY DEF ExtractInv, CandidatesSound
<1>2. /\ written \in Seq(Range(written)) /\ Clean(written, finding)
      /\ Uncovered(written, finding) \/
           (finding.left = {} /\ (invocation.parser = "whole_message_json" \/ next > 1))
  BY DEF ExtractInv, ReadingTypeOK, FindingClean
<1>3. PICK read : read = [c \in DOMAIN finding.calls |-> finding.calls[c].at]
  OBVIOUS
<1>4. DOMAIN read = DOMAIN finding.calls /\ \A c \in DOMAIN read : read[c] = finding.calls[c].at
  BY <1>3
<1> DEFINE Fenced(i) == Cardinality({j \in 1..i : written[j].is = "fence"}) % 2 = 1
<1>5. ASSUME NEW c \in DOMAIN read, NEW i \in read[c], Fenced(i)
      PROVE  finding.left = {} /\ (invocation.parser = "whole_message_json" \/ next > 1)
  <2>1. i \in DOMAIN written
    BY <1>2, <1>4 DEF Clean
  <2>2. i \in Masked(written)
    BY <1>2, <1>5, <2>1, FencedMasked
  <2>3. ~ Uncovered(written, finding)
    BY <1>4, <2>2 DEF Uncovered
  <2> QED
    BY <1>2, <2>3
<1>6. \A c \in DOMAIN read : read[c] \intersect finding.left = {}
  BY <1>2, <1>4 DEF Clean
<1>7. \A c, d \in DOMAIN read : c # d => read[c] \intersect read[d] = {}
  BY <1>2, <1>4 DEF Clean, Apart
<1>8. ReadOnce
  <2> HIDE DEF Fenced
  <2>1. \A c \in DOMAIN read : (\E i \in read[c] : Fenced(i)) =>
           finding.left = {} /\ (invocation.parser = "whole_message_json" \/ next > 1)
    BY <1>5
  <2> DEFINE R == [c \in DOMAIN finding.calls |-> finding.calls[c].at]
  <2>2. read = R
    BY <1>3
  <2> HIDE DEF R
  <2>3. /\ \A c \in DOMAIN R : (\E i \in R[c] : Fenced(i)) =>
              finding.left = {} /\ (invocation.parser = "whole_message_json" \/ next > 1)
        /\ \A c \in DOMAIN R : R[c] \intersect finding.left = {}
        /\ \A c, d \in DOMAIN R : c # d => R[c] \intersect R[d] = {}
    BY <1>6, <1>7, <2>1, <2>2
  <2> QED
    BY <2>3 DEF ReadOnce, R, Fenced
<1> QED
  BY <1>1, <1>8

\* What is found stays clean while nothing else is.
LEMMA FoundStays ==
  ASSUME FindingClean, written' = written, finding' = finding, invocation' = invocation,
         next' = next \/ next' > 1
  PROVE  FindingClean'
<1>1. PICK m, r : m = written /\ r = finding
  OBVIOUS
<1>2. /\ Clean(m, r)
      /\ Uncovered(m, r) \/ (r.left = {} /\ (invocation.parser = "whole_message_json" \/ next > 1))
  BY <1>1 DEF FindingClean
<1>3. written' = m /\ finding' = r
  BY <1>1
<1>4. Clean(written', finding')
  BY <1>2, <1>3
<1>5. Uncovered(written', finding') \/
        (finding'.left = {} /\ (invocation'.parser = "whole_message_json" \/ next' > 1))
  BY <1>2, <1>3
<1> QED
  BY <1>4, <1>5 DEF FindingClean

\* It holds before anything is read,
LEMMA ExtractInvInit ==
  ASSUME ExtractionInit
  PROVE  ExtractInv
<1>1. /\ written = <<>> /\ reported = {} /\ next = 1 /\ merged = <<>> /\ reading = "planned"
      /\ finding = Nothing(<<>>) /\ invocation = Unplanned
  BY DEF ExtractionInit
<1>2. Good(<<>>, Nothing(<<>>)) /\ Nothing(<<>>).calls = <<>>
  BY NothingGood
<1>3. ReadingTypeOK
  BY <1>1, FS_EmptySet DEF ReadingTypeOK, Unplanned, Range
<1>4. ReadingOrder
  BY <1>1, <1>2 DEF ReadingOrder
<1>5. FindingClean
  BY <1>1, <1>2 DEF FindingClean, Good
<1>6. Trusted /\ Reported
  BY <1>1, <1>2 DEF Trusted, Reported, Unplanned
<1> QED
  BY <1>3, <1>4, <1>5, <1>6 DEF ExtractInv

\* when the primary parser has read,
LEMMA PrimaryKeeps ==
  ASSUME ExtractInv, Primary
  PROVE  ExtractInv'
<1>1. /\ reading = "planned" /\ next = 1 /\ merged = <<>> /\ next' = 1 /\ merged' = <<>>
      /\ written' \in Messages /\ reported' \in Natives
      /\ finding' = IF invocation'.mode = "disabled" THEN Nothing(written')
                    ELSE Extract(invocation'.parser, written')
      /\ reading' = IF invocation'.mode = "disabled" THEN "done"
                    ELSE IF invocation'.parser \in {"native_structured", "none"} THEN "merging" ELSE "primary"
  BY DEF ExtractInv, ReadingOrder, Primary
<1>2. PICK p \in Plans : /\ invocation'.parser = p.parser /\ invocation'.strategies = p.strategies
                         /\ invocation'.mode = p.mode
  BY DEF Primary
<1>3. ReadingTypeOK'
  <2>1. written' \in Seq(Range(written')) /\ IsFiniteSet(reported') /\ \A n \in reported' : n.at = {}
    BY <1>1, ExtractionAssumption
  <2>2. /\ invocation'.parser \in Parsers \union {"none"}
        /\ invocation'.strategies \in Seq(Range(invocation'.strategies))
        /\ \A i \in DOMAIN invocation'.strategies : invocation'.strategies[i].parser \in Parsers
    BY <1>2, ExtractionAssumption
  <2>3. 1 \in 1 .. Len(invocation'.strategies) + 1
    BY <2>2
  <2> QED
    BY <1>1, <2>1, <2>2, <2>3 DEF ReadingTypeOK
<1>4. PICK m, parser, r : m = written' /\ parser = invocation'.parser /\ r = Extract(parser, m)
  OBVIOUS
<1>5. /\ Clean(m, r) /\ (parser # "whole_message_json" => Uncovered(m, r))
      /\ (parser = "whole_message_json" => WholeOf(m, r))
      /\ (parser \in {"native_structured", "none"} => r.calls = <<>>)
  <2>1. m \in Seq(Range(m)) /\ parser \in Parsers \union {"none"}
    BY <1>3, <1>4 DEF ReadingTypeOK
  <2> QED
    BY <1>4, <2>1, ExtractClean
<1>6. CASE invocation'.mode = "disabled"
  <2>1. Good(m, finding') /\ finding'.calls = <<>> /\ reading' = "done"
    BY <1>1, <1>4, <1>6, NothingGood
  <2>2. ReadingOrder'
    BY <1>1, <2>1 DEF ReadingOrder
  <2>3. FindingClean'
    BY <1>4, <2>1 DEF FindingClean, Good
  <2>4. Trusted' /\ Reported'
    BY <1>1, <1>6, <2>1 DEF Trusted, Reported
  <2> QED
    BY <1>3, <2>2, <2>3, <2>4 DEF ExtractInv
<1>7. CASE invocation'.mode # "disabled"
  <2>1. finding' = r /\ reading' \in {"merging", "primary"}
    BY <1>1, <1>4, <1>7
  <2>2. ReadingOrder'
    BY <1>1, <1>7, <2>1 DEF ReadingOrder
  <2>3. FindingClean'
    <3>1. parser = "whole_message_json" => r.left = {} \/ Uncovered(m, r)
      BY <1>5 DEF WholeOf, Uncovered
    <3>2. Clean(written', finding')
      BY <1>4, <1>5, <2>1
    <3>3. Uncovered(written', finding') \/
            (finding'.left = {} /\ (invocation'.parser = "whole_message_json" \/ next' > 1))
      BY <1>4, <1>5, <2>1, <3>1
    <3> QED
      BY <3>2, <3>3 DEF FindingClean
  <2>4. Trusted'
    BY <1>1, <1>4, <1>5, <1>7, <2>1 DEF Trusted
  <2>5. Reported'
    BY <2>1 DEF Reported
  <2> QED
    BY <1>3, <2>2, <2>3, <2>4, <2>5 DEF ExtractInv
<1> QED
  BY <1>6, <1>7

\* when a fallback strategy has,
LEMMA FallbackKeeps ==
  ASSUME ExtractInv, Fallback
  PROVE  ExtractInv'
<1>1. /\ reading = "primary"
      /\ invocation' = invocation /\ written' = written /\ reported' = reported /\ merged' = merged
  BY DEF Fallback
<1>2. /\ merged = <<>> /\ invocation.mode # "disabled" /\ invocation.parser \notin {"native_structured", "none"}
  BY <1>1 DEF ExtractInv, ReadingOrder
<1>3. CASE finding.calls # <<>> \/ next > Len(invocation.strategies)
  <2>1. reading' = "merging" /\ next' = next /\ finding' = finding
    BY <1>3 DEF Fallback
  <2>2. ReadingTypeOK'
    BY <1>1, <2>1 DEF ExtractInv, ReadingTypeOK
  <2>3. ReadingOrder'
    BY <1>1, <1>2, <2>1 DEF ReadingOrder
  <2>4. FindingClean'
    BY <1>1, <2>1, FoundStays DEF ExtractInv
  <2>5. Trusted'
    BY <1>1, <2>1 DEF ExtractInv, Trusted
  <2>6. Reported'
    BY <2>1 DEF Reported
  <2> QED
    BY <2>2, <2>3, <2>4, <2>5, <2>6 DEF ExtractInv
<1>4. CASE ~ (finding.calls # <<>> \/ next > Len(invocation.strategies))
  <2>1. PICK s, found : s = invocation.strategies[next] /\ found = Extract(s.parser, written)
    OBVIOUS
  <2>2. /\ finding' = IF Allowed(s, found) THEN found ELSE finding
        /\ next' = next + 1 /\ reading' = "primary"
    BY <1>1, <1>4, <2>1 DEF Fallback
  <2>3. /\ finding.calls = <<>> /\ next \in DOMAIN invocation.strategies /\ s.parser \in Parsers
        /\ next + 1 \in 1 .. Len(invocation.strategies) + 1 /\ next \in Nat /\ next >= 1
    BY <1>4, <2>1 DEF ExtractInv, ReadingTypeOK
  <2>4. /\ Clean(written, found) /\ (s.parser # "whole_message_json" => Uncovered(written, found))
        /\ (s.parser = "whole_message_json" => WholeOf(written, found))
    <3>1. written \in Seq(Range(written)) /\ s.parser \in Parsers \union {"none"}
      BY <2>3 DEF ExtractInv, ReadingTypeOK
    <3> QED
      BY <2>1, <3>1, ExtractClean
  <2>5. ReadingTypeOK'
    BY <1>1, <2>2, <2>3 DEF ExtractInv, ReadingTypeOK
  <2>6. ReadingOrder'
    BY <1>1, <1>2, <2>2 DEF ReadingOrder
  <2>7. CASE ~ Allowed(s, found)
    <3>1. finding' = finding
      BY <2>2, <2>7
    <3>2. FindingClean'
      <4>1. next' > 1
        BY <2>2, <2>3
      <4> QED
        BY <1>1, <3>1, <4>1, FoundStays DEF ExtractInv
    <3>3. Trusted'
      BY <1>1, <1>2, <2>3, <3>1 DEF Trusted
    <3>4. Reported'
      BY <2>2 DEF Reported
    <3> QED
      BY <2>5, <2>6, <3>2, <3>3, <3>4 DEF ExtractInv
  <2>8. CASE Allowed(s, found)
    <3>1. finding' = found
      BY <2>2, <2>8
    <3>2. FindingClean'
      <4>1. next' > 1
        BY <2>2, <2>3
      <4>2. s.parser = "whole_message_json" => found.left = {} \/ Uncovered(written, found)
        BY <2>4 DEF WholeOf, Uncovered
      <4>3. PICK m : m = written
        OBVIOUS
      <4>4. Clean(m, found) /\ (Uncovered(m, found) \/ found.left = {})
        BY <2>4, <4>2, <4>3
      <4>5. written' = m
        BY <1>1, <4>3
      <4> QED
        BY <3>1, <4>1, <4>4, <4>5 DEF FindingClean
    <3>3. /\ invocation.choice \in s.modes /\ (s.skip => reported = {}) /\ found.calls # <<>>
          /\ invocation.choice = "named" => found.calls[1].tool = Named
          /\ (s.parser = "whole_message_json" /\ invocation.choice = "auto") =>
               invocation.nonce /\ found.calls[1].nonce
      BY <2>8 DEF Allowed, AllowedUnverified
    <3>4. (s.parser = "whole_message_json" /\ invocation.choice = "auto") => \E i \in DOMAIN written :
             invocation.nonce /\ written[i].is = "object" /\ written[i].nonce
      BY <2>4, <3>3 DEF WholeOf
    <3>5. Trusted'
      <4>1. s = invocation'.strategies[next' - 1]
        BY <1>1, <2>1, <2>2, <2>3
      <4>2. invocation.choice = "named" => finding'.calls[1].tool = Named
        BY <3>1, <3>3
      <4> QED
        BY <1>1, <1>2, <3>3, <3>4, <4>1, <4>2 DEF Trusted, Named
    <3>6. Reported'
      BY <2>2 DEF Reported
    <3> QED
      BY <2>5, <2>6, <3>2, <3>5, <3>6 DEF ExtractInv
  <2> QED
    BY <2>7, <2>8
<1> QED
  BY <1>3, <1>4

\* and when what the backend reports is merged in, each call of it once.
LEMMA MergeKeeps ==
  ASSUME ExtractInv, MergeNative
  PROVE  ExtractInv'
<1>1. /\ reading = "merging" /\ reading' = "done"
      /\ invocation' = invocation /\ written' = written /\ reported' = reported
      /\ next' = next /\ finding' = finding
  BY DEF MergeNative
<1>2. ReadingTypeOK'
  BY <1>1 DEF ExtractInv, ReadingTypeOK
<1>3. ReadingOrder'
  BY <1>1 DEF ReadingOrder
<1>4. FindingClean'
  BY <1>1, FoundStays DEF ExtractInv
<1>5. Trusted'
  <2>1. invocation.mode # "disabled"
    BY <1>1 DEF ExtractInv, ReadingOrder
  <2> QED
    BY <1>1, <2>1 DEF ExtractInv, Trusted
<1>6. Reported'
  <2>1. IsFiniteSet(reported) /\ \A n \in reported : n.at = {}
    BY DEF ExtractInv, ReadingTypeOK
  <2>2. PICK q : q = SetToSeq(reported)
    OBVIOUS
  <2>3. /\ q \in Seq(reported) /\ \A i, j \in DOMAIN q : q[i] = q[j] => i = j
        /\ \A x \in reported : \E i \in DOMAIN q : q[i] = x
    BY <2>1, <2>2, Listed
  <2>4. PICK echoes : echoes = {c \in Range(finding.calls) : Echo(c)}
    OBVIOUS
  <2>5. PICK calls : calls = finding.calls
    OBVIOUS
  <2>6. /\ calls \in Seq(Range(calls)) /\ Apart(calls) /\ \A c \in DOMAIN calls : calls[c].at # {}
    BY <2>5 DEF ExtractInv, FindingClean, Clean
  <2>7. PICK n \in Nat : DOMAIN calls = 1 .. n
    BY <2>6
  <2>8. PICK t : t = Dropping(calls, echoes)
    OBVIOUS
  <2>9. t \in Seq(Range(calls) \ echoes)
    BY <2>6, <2>7, <2>8, DroppingKeeps
  <2>10. \A x \in Range(calls) : x.at # {}
    BY <2>6 DEF Range
  <2>11. \A i \in DOMAIN t : t[i] \notin reported
    <3>1. \A i \in DOMAIN t : t[i] \in Range(calls)
      BY <2>9
    <3> QED
      BY <2>1, <2>10, <3>1
  <2>12. PICK b : b = q \o t
    OBVIOUS
  <2>13. merged' = b
    BY <2>2, <2>4, <2>5, <2>8, <2>12 DEF MergeNative
  <2>14. ASSUME NEW x \in reported PROVE Cardinality({i \in DOMAIN b : b[i] = x}) = 1
    <3>1. PICK k \in DOMAIN q : q[k] = x
      BY <2>3
    <3>2. PICK D, E : D = reported /\ E = Range(calls) \ echoes
      OBVIOUS
    <3>3. q \in Seq(D) /\ t \in Seq(E)
      BY <2>3, <2>9, <3>2
    <3>4. /\ DOMAIN b = 1 .. (Len(q) + Len(t)) /\ Len(q) \in Nat /\ Len(t) \in Nat
          /\ DOMAIN q = 1 .. Len(q) /\ DOMAIN t = 1 .. Len(t)
          /\ \A i \in DOMAIN q : b[i] = q[i]
          /\ \A i \in DOMAIN b : i \notin DOMAIN q => i - Len(q) \in DOMAIN t /\ b[i] = t[i - Len(q)]
      BY <2>12, <3>3
    <3>5. k \in DOMAIN b /\ b[k] = x
      BY <3>1, <3>4
    <3>6. ASSUME NEW i \in DOMAIN b, b[i] = x PROVE i = k
      <4>1. CASE i \in DOMAIN q
        BY <2>3, <3>1, <3>4, <3>6, <4>1
      <4>2. CASE i \notin DOMAIN q
        BY <2>11, <3>4, <3>6, <4>2
      <4> QED
        BY <4>1, <4>2
    <3>7. {i \in DOMAIN b : b[i] = x} = {k}
      BY <3>5, <3>6
    <3> QED
      BY <3>7, FS_Singleton
  <2>15. \A x \in reported : Cardinality({i \in DOMAIN b : b[i] = x}) = 1
    BY <2>14
  <2> QED
    BY <1>1, <2>13, <2>15 DEF Reported
<1> QED
  BY <1>2, <1>3, <1>4, <1>5, <1>6 DEF ExtractInv

\* Every step keeps it.
LEMMA ExtractInvStep ==
  ASSUME ExtractInv, [ExtractionNext]_extractionVars
  PROVE  ExtractInv'
<1>1. CASE UNCHANGED extractionVars
  <2>1. /\ reading' = reading /\ invocation' = invocation /\ written' = written /\ reported' = reported
        /\ next' = next /\ finding' = finding /\ merged' = merged
    BY <1>1 DEF extractionVars
  <2>2. ReadingTypeOK'
    BY <2>1 DEF ExtractInv, ReadingTypeOK
  <2>3. ReadingOrder'
    BY <2>1 DEF ExtractInv, ReadingOrder
  <2>4. FindingClean'
    BY <2>1, FoundStays DEF ExtractInv
  <2>5. Trusted'
    BY <2>1 DEF ExtractInv, Trusted
  <2>6. Reported'
    BY <2>1 DEF ExtractInv, Reported
  <2> QED
    BY <2>2, <2>3, <2>4, <2>5, <2>6 DEF ExtractInv
<1> QED
  BY <1>1, PrimaryKeeps, FallbackKeeps, MergeKeeps DEF ExtractionNext

=============================================================================
