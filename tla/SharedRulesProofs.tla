------------------------- MODULE SharedRulesProofs -------------------------
(***************************************************************************)
(* The rules the tiers share, for every value of their constants: the caps *)
(* on the size of a file (FileLimits), and the slugs and paths (Naming)    *)
(* for texts of every length. What Naming computes it computes with folds; *)
(* the facts about folds, about induction on numbers and sequences, and    *)
(* about the greatest of some positions come before their use.             *)
(***************************************************************************)
EXTENDS FileLimits, Naming, FiniteSetTheorems, TLAPS

(***************************************************************************)
(* The caps on the size of a file                                          *)
(***************************************************************************)

\* The text of a smaller file is no longer, and has no more lines.
LEMMA EncodingGrows ==
    ASSUME NEW m \in Nat, NEW n \in Nat, m <= n
    PROVE  /\ Base64(m) \in Nat /\ Newlines(m) \in Nat
           /\ Base64(m) <= Base64(n) /\ Newlines(m) <= Newlines(n)
  <1>1. (m + 2) \div 3 \in Nat /\ (n + 2) \div 3 \in Nat /\ (m + 2) \div 3 <= (n + 2) \div 3
    OBVIOUS
  <1>2. Base64(m) \in Nat /\ Base64(n) \in Nat /\ Base64(m) <= Base64(n)
    BY <1>1 DEF Base64
  <1>3. /\ (Base64(m) + 75) \div 76 \in Nat /\ (Base64(n) + 75) \div 76 \in Nat
        /\ (Base64(m) + 75) \div 76 <= (Base64(n) + 75) \div 76
    BY <1>2
  <1> QED  BY <1>2, <1>3 DEF Newlines

\* request_body_limit admits every file up to the cap: the text of a file of at
\* most max_file_bytes, unwrapped or in lines of 76 characters whose newlines
\* JSON writes as two, in an envelope of at most 64 KiB, is within the limit.
THEOREM LimitAdmitsCap ==
    ASSUME NEW n \in Nat, NEW cap \in Nat, n <= cap, NEW room \in Nat, room <= 64 * 1024
    PROVE  /\ Base64(n) + room <= RequestBodyLimit(cap)
           /\ Base64(n) + Newlines(n) + room <= RequestBodyLimit(cap)
  <1>1. RequestBodyLimit(cap) = Base64(cap) + Newlines(cap) + 64 * 1024
    BY DEF RequestBodyLimit, Base64, Newlines
  <1>2. Base64(cap) \in Nat /\ Newlines(cap) \in Nat
    BY EncodingGrows
  <1>3. /\ Base64(n) \in Nat /\ Newlines(n) \in Nat
        /\ Base64(n) <= Base64(cap) /\ Newlines(n) <= Newlines(cap)
    BY EncodingGrows
  <1> QED  BY <1>1, <1>2, <1>3

\* What is known of an upload at each point of its way.
Passed ==
    /\ via = "put" => at \notin {"gate", "tool"}
    /\ at \in {"backend", "staging", "stored"} => (via = "mcp" => size <= McpCap)
    /\ at \in {"gate", "tool", "backend"} => received = 0
    /\ at = "staging" => received <= size /\ received <= UploadCap

\* The inductive invariant of an upload.
Inv == TypeOK /\ Passed /\ OutcomeBySize

\* It holds at the start ...
LEMMA InitInv == Init => Inv
  BY Sizes DEF Init, Inv, TypeOK, Passed, OutcomeBySize

\* The MCP server's limit on the body refuses no file its cap allows.
LEMMA GateRefusesLarge ==
    ASSUME Inv, GateRefuses PROVE size > McpCap
  <1> SUFFICES ASSUME size <= McpCap PROVE FALSE
    BY Sizes DEF Inv, TypeOK
  <1>1. /\ Base64(size) + envelope <= RequestBodyLimit(McpCap)
        /\ Base64(size) + Newlines(size) + envelope <= RequestBodyLimit(McpCap)
    BY LimitAdmitsCap, Sizes DEF Inv, TypeOK
  <1>2. Base64(size) \in Nat /\ Newlines(size) \in Nat /\ RequestBodyLimit(McpCap) \in Nat
    <2>1. Base64(size) \in Nat /\ Newlines(size) \in Nat
      BY EncodingGrows DEF Inv, TypeOK
    <2>2. Base64(McpCap) \in Nat /\ Newlines(McpCap) \in Nat
      BY EncodingGrows, Sizes
    <2>3. RequestBodyLimit(McpCap) = Base64(McpCap) + Newlines(McpCap) + 64 * 1024
      BY DEF RequestBodyLimit, Base64, Newlines
    <2> QED  BY <2>1, <2>2, <2>3
  <1>3. ContentLength <= RequestBodyLimit(McpCap)
    BY <1>1, <1>2 DEF ContentLength, Inv, TypeOK
  <1>4. ContentLength \in Nat
    BY <1>2 DEF ContentLength, Inv, TypeOK
  <1> QED  BY <1>2, <1>3, <1>4 DEF GateRefuses

\* ... and every step keeps it.
LEMMA StepInv == Inv /\ [Next]_vars => Inv'
  <1> SUFFICES ASSUME Inv, [Next]_vars PROVE Inv'
    OBVIOUS
  <1> USE Sizes
  <1>1. CASE GateAdmits
    BY <1>1 DEF Inv, TypeOK, Passed, OutcomeBySize, GateAdmits, Go, Fits
  <1>2. CASE GateRefuses
    <2>1. size > McpCap
      BY <1>2, GateRefusesLarge
    <2> QED  BY <1>2, <2>1 DEF Inv, TypeOK, Passed, OutcomeBySize, GateRefuses, Go, Fits
  <1>3. CASE ToolSends
    BY <1>3 DEF Inv, TypeOK, Passed, OutcomeBySize, ToolSends, Go, Fits
  <1>4. CASE ToolRefuses
    BY <1>4 DEF Inv, TypeOK, Passed, OutcomeBySize, ToolRefuses, Go, Fits
  <1>5. CASE BackendOpens
    BY <1>5 DEF Inv, TypeOK, Passed, OutcomeBySize, BackendOpens, Go, Fits
  <1>6. CASE BackendRefuses
    BY <1>6 DEF Inv, TypeOK, Passed, OutcomeBySize, BackendRefuses, DeclaredFits, Go, Fits
  <1>7. CASE \E n \in 1 .. MaxChunk : StageChunk(n) \/ StageRefuses(n)
    <2>1. PICK n \in 1 .. MaxChunk : StageChunk(n) \/ StageRefuses(n)
      BY <1>7
    <2>2. CASE StageChunk(n)
      BY <2>2 DEF Inv, TypeOK, Passed, OutcomeBySize, StageChunk, TooLong, Go, Fits
    <2>3. CASE StageRefuses(n)
      BY <2>3 DEF Inv, TypeOK, Passed, OutcomeBySize, StageRefuses, TooLong, Go, Fits
    <2> QED  BY <2>1, <2>2, <2>3
  <1>8. CASE Stored
    BY <1>8 DEF Inv, TypeOK, Passed, OutcomeBySize, Stored, Go, Fits
  <1>9. CASE UNCHANGED vars
    BY <1>9 DEF Inv, TypeOK, Passed, OutcomeBySize, vars, Fits
  <1> QED  BY <1>1, <1>2, <1>3, <1>4, <1>5, <1>6, <1>7, <1>8, <1>9 DEF Next

\* For all caps, an upload is stored or refused by its size alone.
THEOREM CapsAreSharp == Spec => []OutcomeBySize
  <1>1. Inv => OutcomeBySize
    BY DEF Inv
  <1> QED  BY <1>1, InitInv, StepInv, PTL DEF Spec

\* The state of an upload is always of its type.
THEOREM LimitsTypeCorrect == Spec => []TypeOK
  <1>1. Inv => TypeOK
    BY DEF Inv
  <1> QED  BY <1>1, InitInv, StepInv, PTL DEF Spec

(***************************************************************************)
(* Induction, and folds                                                    *)
(***************************************************************************)

\* A set of numbers that has 0, and with each number the next, has all: otherwise the
\* numbers of it below one that is missing could be paired with fewer of them.
LEMMA NatSetInduction ==
    ASSUME NEW S, 0 \in S, \A n \in Nat : n \in S => n + 1 \in S
    PROVE  Nat \subseteq S
<1> SUFFICES ASSUME NEW k \in Nat, k \notin S PROVE FALSE
  OBVIOUS
<1> DEFINE A == {n \in 0 .. k : n \in S}
           next == [n \in A |-> n + 1]
<1>1. IsFiniteSet(0 .. k)
  BY FS_Interval
<1>2. IsFiniteSet(A) /\ IsFiniteSet(A \ {0}) /\ Cardinality(A \ {0}) = Cardinality(A) - 1 /\ Cardinality(A) \in Nat
  <2>1. IsFiniteSet(A) /\ 0 \in A
    BY <1>1, FS_Subset
  <2> HIDE DEF A
  <2> QED BY <2>1, FS_RemoveElement, FS_CardinalityType
<1>3. next \in Injection(A, A \ {0})
  BY DEF Injection, IsInjective
<1> HIDE DEF A, next
<1>4. Cardinality(A) <= Cardinality(A \ {0})
  BY <1>2, <1>3, FS_Injection DEF ExistsInjection
<1> QED BY <1>2, <1>4

\* Every set of sequences that has the empty one, and with each sequence those one longer, has all.
LEMMA SeqInduction ==
    ASSUME NEW Y, NEW Q, <<>> \in Q, \A w \in Seq(Y), y \in Y : w \in Q => Append(w, y) \in Q
    PROVE  Seq(Y) \subseteq Q
<1> DEFINE S == {n \in Nat : \A w \in Seq(Y) : Len(w) = n => w \in Q}
<1>1. 0 \in S
  <2>1. \A w \in Seq(Y) : Len(w) = 0 => w = <<>>
    OBVIOUS
  <2> QED BY <2>1
<1>2. ASSUME NEW n \in Nat, n \in S PROVE n + 1 \in S
  <2> SUFFICES ASSUME NEW w \in Seq(Y), Len(w) = n + 1 PROVE w \in Q
    OBVIOUS
  <2> DEFINE v == SubSeq(w, 1, n)
  <2>1. v \in Seq(Y) /\ Len(v) = n /\ w[n + 1] \in Y
    OBVIOUS
  <2>2. w = Append(v, w[n + 1])
    OBVIOUS
  <2>3. v \in Q
    BY <1>2, <2>1
  <2> HIDE DEF v
  <2> QED BY <2>1, <2>2, <2>3
<1> HIDE DEF S
<1>3. Nat \subseteq S
  BY <1>1, <1>2, NatSetInduction
<1> QED BY <1>3 DEF S

\* The greatest of the first numbers.
LEMMA MaxIs ==
    ASSUME NEW n \in Nat, NEW S \in SUBSET (1 .. n), n \in S
    PROVE  Max(S) = n
<1>1. n \in S /\ \A y \in S : n >= y
  OBVIOUS
<1>2. \A x \in S : (\A y \in S : x >= y) => x = n
  OBVIOUS
<1> QED BY <1>1, <1>2 DEF Max

\* Some positions have a greatest one.
LEMMA MaxExists ==
    ASSUME NEW n \in Nat, NEW S \in SUBSET (1 .. n), S # {}
    PROVE  \E x \in S : \A y \in S : x >= y
<1> DEFINE P == {m \in Nat : S \cap 1 .. m # {} => \E x \in S \cap 1 .. m : \A y \in S \cap 1 .. m : x >= y}
<1>1. 0 \in P
  OBVIOUS
<1>2. ASSUME NEW m \in Nat, m \in P PROVE m + 1 \in P
  <2>1. CASE m + 1 \in S
    <3>1. m + 1 \in S \cap 1 .. m + 1 /\ \A y \in S \cap 1 .. m + 1 : m + 1 >= y
      BY <2>1
    <3> QED BY <3>1
  <2>2. CASE m + 1 \notin S
    <3>1. S \cap 1 .. m + 1 = S \cap 1 .. m
      BY <2>2
    <3> QED BY <1>2, <3>1
  <2> QED BY <2>1, <2>2
<1> HIDE DEF P
<1>3. n \in P
  BY <1>1, <1>2, NatSetInduction
<1>4. S \cap 1 .. n = S
  OBVIOUS
<1> QED BY <1>3, <1>4 DEF P

\* The greatest of some positions is one.
LEMMA MaxIn ==
    ASSUME NEW n \in Nat, NEW S \in SUBSET (1 .. n), S # {}
    PROVE  Max(S) \in S
BY MaxExists DEF Max

\* The last of some positions is one of them, and its element one of the sequence's.
LEMMA LastOf ==
    ASSUME NEW Y, NEW w \in Seq(Y), NEW S \in SUBSET (1 .. Len(w)), S # {}
    PROVE  w[Max(S)] \in Y /\ S \ {Max(S)} \in SUBSET (1 .. Len(w))
<1>1. Len(w) \in Nat
  OBVIOUS
<1>2. Max(S) \in S
  BY <1>1, MaxIn
<1>3. Max(S) \in 1 .. Len(w)
  BY <1>2
<1>4. w[Max(S)] \in Y
  BY <1>3
<1> QED BY <1>4

\* A step from values in X and elements of Y to values in X, and a value to start from.
IsStep(X, Y, step, base) == step \in [X \X Y -> X] /\ base \in X

\* f of a set of positions is the fold of the elements there, as long as it stays within X.
Folds(f, X, Y, step, base, w) ==
    /\ IsStep(X, Y, step, base) /\ w \in Seq(Y)
    /\ f[{}] = base
    /\ \A S \in SUBSET (1 .. Len(w)) :
           S # {} /\ f[S \ {Max(S)}] \in X => f[S] = step[<<f[S \ {Max(S)}], w[Max(S)]>>]

\* There is such a function, with values in X.
LEMMA FoldExists ==
    ASSUME NEW X, NEW Y, NEW step, NEW base, IsStep(X, Y, step, base), NEW w \in Seq(Y)
    PROVE  \E f \in [SUBSET (1 .. Len(w)) -> X] : Folds(f, X, Y, step, base, w)
<1>0. step \in [X \X Y -> X] /\ base \in X
  BY DEF IsStep
<1> DEFINE Ok(f, n) == /\ f \in [SUBSET (1 .. n) -> X]
                       /\ f[{}] = base
                       /\ \A S \in SUBSET (1 .. n) : S # {} => f[S] = step[<<f[S \ {Max(S)}], w[Max(S)]>>]
           P == {n \in Nat : n <= Len(w) => \E f : Ok(f, n)}
<1>1. 0 \in P
  <2> DEFINE f == [S \in {{}} |-> base]
  <2>0. SUBSET (1 .. 0) = {{}}
    OBVIOUS
  <2>1. f \in [{{}} -> X] /\ f[{}] = base
    BY <1>0
  <2> HIDE DEF f
  <2>2. Ok(f, 0)
    BY <2>0, <2>1
  <2> QED BY <2>2
<1>2. ASSUME NEW n \in Nat, n \in P PROVE n + 1 \in P
  <2>a. n + 1 <= Len(w) => \E f : Ok(f, n + 1)
   <3> SUFFICES ASSUME n + 1 <= Len(w) PROVE \E f : Ok(f, n + 1)
    OBVIOUS
   <3>0. \E f : Ok(f, n)
    <4> HIDE DEF Ok
    <4> QED BY <1>2
   <3>1. PICK g : Ok(g, n)
    BY <3>0
   <3> DEFINE f == [S \in SUBSET (1 .. n + 1) |->
                     IF n + 1 \in S THEN step[<<g[S \ {n + 1}], w[n + 1]>>] ELSE g[S]]
   <3>2. w[n + 1] \in Y
    OBVIOUS
   <3>3. g \in [SUBSET (1 .. n) -> X] /\ \A S \in SUBSET (1 .. n + 1) : S \ {n + 1} \in SUBSET (1 .. n)
    BY <3>1
   <3>4. \A S \in SUBSET (1 .. n + 1) : n + 1 \notin S => S \in SUBSET (1 .. n)
    OBVIOUS
   <3>5. f \in [SUBSET (1 .. n + 1) -> X]
    BY <1>0, <3>2, <3>3, <3>4
   <3>6. f[{}] = base
    BY <1>0, <3>1
   <3>7. ASSUME NEW S \in SUBSET (1 .. n + 1), S # {}
        PROVE  f[S] = step[<<f[S \ {Max(S)}], w[Max(S)]>>]
    <4>1. CASE n + 1 \in S
      <5>1. Max(S) = n + 1
        BY <4>1, MaxIs
      <5>2. S \ {n + 1} \in SUBSET (1 .. n + 1) /\ n + 1 \notin S \ {n + 1}
        OBVIOUS
      <5>3. f[S \ {n + 1}] = g[S \ {n + 1}]
        BY <5>2
      <5> QED BY <4>1, <5>1, <5>3
    <4>2. CASE n + 1 \notin S
      <5>1. S \in SUBSET (1 .. n)
        BY <4>2
      <5>2. S \ {Max(S)} \in SUBSET (1 .. n + 1) /\ n + 1 \notin S \ {Max(S)}
        BY <5>1, <4>2
      <5>3. f[S] = g[S] /\ f[S \ {Max(S)}] = g[S \ {Max(S)}]
        BY <4>2, <5>2
      <5>4. g[S] = step[<<g[S \ {Max(S)}], w[Max(S)]>>]
        BY <3>1, <3>7, <5>1
      <5> QED BY <5>3, <5>4
    <4> QED BY <4>1, <4>2
   <3> HIDE DEF f
   <3>8. Ok(f, n + 1)
    BY <3>5, <3>6, <3>7
   <3> QED BY <3>8
  <2> HIDE DEF Ok
  <2> QED BY <2>a
<1> HIDE DEF Ok, P
<1>3. Nat \subseteq P
  BY <1>1, <1>2, NatSetInduction
<1>4. PICK f : Ok(f, Len(w))
  BY <1>3 DEF P
<1>5. f \in [SUBSET (1 .. Len(w)) -> X] /\ Folds(f, X, Y, step, base, w)
  BY <1>4 DEF Folds, Ok
<1> QED BY <1>5

\* Two that fold the same sequence, or one of them a longer one, agree on what they share.
LEMMA FoldUnique ==
    ASSUME NEW X, NEW Y, NEW step, NEW base, NEW v, NEW w, NEW f, NEW g,
           Folds(g, X, Y, step, base, v), Folds(f, X, Y, step, base, w),
           Len(w) <= Len(v), \A i \in 1 .. Len(w) : v[i] = w[i]
    PROVE  g[1 .. Len(w)] = f[1 .. Len(w)] /\ f[1 .. Len(w)] \in X
<1>0. /\ v \in Seq(Y) /\ w \in Seq(Y) /\ step \in [X \X Y -> X] /\ base \in X
      /\ f[{}] = base /\ g[{}] = base
  BY DEF Folds, IsStep
<1> DEFINE P == {n \in Nat : n <= Len(w) => g[1 .. n] = f[1 .. n] /\ f[1 .. n] \in X}
<1>1. 0 \in P
  <2>1. 1 .. 0 = {}
    OBVIOUS
  <2> QED BY <1>0, <2>1
<1>2. ASSUME NEW n \in Nat, n \in P PROVE n + 1 \in P
  <2> SUFFICES ASSUME n + 1 <= Len(w) PROVE g[1 .. n + 1] = f[1 .. n + 1] /\ f[1 .. n + 1] \in X
    OBVIOUS
  <2> DEFINE S == 1 .. n + 1
  <2>0. n + 1 \in S
    OBVIOUS
  <2>1. S \in SUBSET (1 .. Len(w)) /\ S \in SUBSET (1 .. Len(v)) /\ S # {}
    <3>1. n + 1 <= Len(w) /\ n + 1 <= Len(v) /\ Len(v) \in Nat /\ Len(w) \in Nat
      BY <1>0
    <3>2. S \subseteq 1 .. Len(w) /\ S \subseteq 1 .. Len(v)
      BY <3>1
    <3> QED BY <2>0, <3>2
  <2>2. Max(S) = n + 1
    BY MaxIs
  <2>3. S \ {n + 1} = 1 .. n
    OBVIOUS
  <2>4. v[n + 1] = w[n + 1] /\ w[n + 1] \in Y
    BY <1>0
  <2>5. f[1 .. n] \in X /\ g[1 .. n] = f[1 .. n]
    BY <1>2, <1>0
  <2> HIDE DEF S
  <2>6. f[S] = step[<<f[1 .. n], w[n + 1]>>]
    <3>1. S # {} /\ f[S \ {Max(S)}] \in X => f[S] = step[<<f[S \ {Max(S)}], w[Max(S)]>>]
      BY <2>1 DEF Folds
    <3> QED BY <2>1, <2>2, <2>3, <2>5, <3>1
  <2>7. g[S] = step[<<g[1 .. n], v[n + 1]>>]
    <3>1. S # {} /\ g[S \ {Max(S)}] \in X => g[S] = step[<<g[S \ {Max(S)}], v[Max(S)]>>]
      BY <2>1 DEF Folds
    <3> QED BY <2>1, <2>2, <2>3, <2>5, <3>1
  <2> QED BY <1>0, <2>4, <2>5, <2>6, <2>7 DEF S
<1> HIDE DEF P
<1>3. Nat \subseteq P
  BY <1>1, <1>2, NatSetInduction
<1>4. Len(w) \in Nat
  BY <1>0
<1> QED BY <1>3, <1>4 DEF P

\* The fold of w by a step given as a function.
Folded(X, Y, step, base, w) ==
    (CHOOSE f \in [SUBSET (1 .. Len(w)) -> X] : Folds(f, X, Y, step, base, w))[1 .. Len(w)]

\* A function that folds w has the fold as its value.
LEMMA FoldedIs ==
    ASSUME NEW X, NEW Y, NEW step, NEW base, NEW w, NEW g, Folds(g, X, Y, step, base, w)
    PROVE  g[1 .. Len(w)] = Folded(X, Y, step, base, w)
<1> DEFINE F == CHOOSE f \in [SUBSET (1 .. Len(w)) -> X] : Folds(f, X, Y, step, base, w)
<1>1. IsStep(X, Y, step, base) /\ w \in Seq(Y)
  BY DEF Folds
<1>2. Folds(F, X, Y, step, base, w)
  BY <1>1, FoldExists
<1>3. Folded(X, Y, step, base, w) = F[1 .. Len(w)]
  BY DEF Folded
<1> HIDE DEF F
<1>4. Len(w) <= Len(w) /\ \A i \in 1 .. Len(w) : w[i] = w[i]
  BY <1>1
<1>5. g[1 .. Len(w)] = F[1 .. Len(w)]
  BY <1>2, <1>4, FoldUnique
<1> QED BY <1>3, <1>5

\* The fold of the empty sequence, and of one with an element more.
LEMMA FoldedFacts ==
    ASSUME NEW X, NEW Y, NEW step, NEW base, IsStep(X, Y, step, base)
    PROVE  /\ Folded(X, Y, step, base, <<>>) = base
           /\ \A w \in Seq(Y) : Folded(X, Y, step, base, w) \in X
           /\ \A w \in Seq(Y), y \in Y :
                  Folded(X, Y, step, base, Append(w, y)) = step[<<Folded(X, Y, step, base, w), y>>]
<1>1. ASSUME NEW w \in Seq(Y)
      PROVE  \E f : /\ Folds(f, X, Y, step, base, w)
                    /\ f[1 .. Len(w)] = Folded(X, Y, step, base, w)
                    /\ f[1 .. Len(w)] \in X
  <2>1. PICK f \in [SUBSET (1 .. Len(w)) -> X] : Folds(f, X, Y, step, base, w)
    BY FoldExists
  <2>2. 1 .. Len(w) \in SUBSET (1 .. Len(w))
    OBVIOUS
  <2>3. f[1 .. Len(w)] \in X
    BY <2>1, <2>2
  <2> QED BY <2>1, <2>3, FoldedIs
<1>2. Folded(X, Y, step, base, <<>>) = base
  <2>1. <<>> \in Seq(Y) /\ Len(<<>>) = 0 /\ 1 .. 0 = {}
    OBVIOUS
  <2> QED BY <1>1, <2>1 DEF Folds
<1>3. ASSUME NEW w \in Seq(Y), NEW y \in Y
      PROVE  Folded(X, Y, step, base, Append(w, y)) = step[<<Folded(X, Y, step, base, w), y>>]
  <2>0. PICK v : v = Append(w, y)
    OBVIOUS
  <2>1. v \in Seq(Y) /\ Len(v) = Len(w) + 1 /\ v[Len(w) + 1] = y /\ \A i \in 1 .. Len(w) : v[i] = w[i]
    BY <2>0
  <2>2. PICK n \in Nat : n = Len(w)
    OBVIOUS
  <2>3. PICK S : S = 1 .. n + 1
    OBVIOUS
  <2>4. n + 1 \in S /\ S \in SUBSET (1 .. n + 1) /\ S \ {n + 1} = 1 .. n
    BY <2>3
  <2>5. Max(S) = n + 1
    BY <2>4, MaxIs
  <2>6. PICK f : /\ Folds(f, X, Y, step, base, w)
                 /\ f[1 .. n] = Folded(X, Y, step, base, w)
                 /\ f[1 .. n] \in X
    BY <1>1, <2>2
  <2>7. PICK g : /\ Folds(g, X, Y, step, base, v)
                 /\ g[S] = Folded(X, Y, step, base, v)
    BY <1>1, <2>1, <2>2, <2>3
  <2>8. g[1 .. n] = f[1 .. n]
    <3>1. Len(w) <= Len(v)
      BY <2>1
    <3> QED BY <2>1, <2>2, <2>6, <2>7, <3>1, FoldUnique
  <2>9. g[S] = step[<<g[1 .. n], y>>]
    <3>1. S \in SUBSET (1 .. Len(v)) /\ S # {} /\ v[n + 1] = y
      BY <2>1, <2>2, <2>3, <2>4
    <3>2. g[S \ {Max(S)}] \in X
      BY <2>4, <2>5, <2>6, <2>8
    <3>3. g[S] = step[<<g[S \ {Max(S)}], v[Max(S)]>>]
      BY <2>7, <3>1, <3>2 DEF Folds
    <3> QED BY <2>4, <2>5, <3>1, <3>3
  <2> QED BY <2>0, <2>6, <2>7, <2>8, <2>9
<1>4. ASSUME NEW w \in Seq(Y) PROVE Folded(X, Y, step, base, w) \in X
  BY <1>1
<1> QED BY <1>2, <1>3, <1>4

\* The same, one fact at a time: the empty sequence ...
LEMMA FoldedStart ==
    ASSUME NEW X, NEW Y, NEW step, NEW base, IsStep(X, Y, step, base)
    PROVE  Folded(X, Y, step, base, <<>>) = base
BY FoldedFacts

\* ... the value of a fold ...
LEMMA FoldedIn ==
    ASSUME NEW X, NEW Y, NEW step, NEW base, IsStep(X, Y, step, base), NEW w \in Seq(Y)
    PROVE  Folded(X, Y, step, base, w) \in X
BY FoldedFacts

\* ... and an element more.
LEMMA FoldedAppend ==
    ASSUME NEW X, NEW Y, NEW step, NEW base, IsStep(X, Y, step, base), NEW w \in Seq(Y), NEW y \in Y
    PROVE  Folded(X, Y, step, base, Append(w, y)) = step[<<Folded(X, Y, step, base, w), y>>]
BY FoldedFacts

(***************************************************************************)
(* The folds of Naming                                                     *)
(***************************************************************************)
USE DEF Alnum

\* Texts; texts of letters and hyphens; lists of parts, never empty; the places a walk arrives at.
Str == Seq(Classes)
Slugged == Seq({"a", "e", "-"})
Parts == {p \in Seq(Str) : p # <<>>}
Places == Seq(Str) \cup {Outside}

\* The step of Ascii, from what is out and a character to what is out then.
AsciiStep == [p \in Str \X Classes |->
    IF p[2] = "W" THEN p[1] ELSE Append(p[1], IF p[2] = "A" THEN "a" ELSE IF p[2] = "e'" THEN "e" ELSE p[2])]

\* It is a step on texts ...
LEMMA AsciiSteps == IsStep(Str, Classes, AsciiStep, <<>>)
  BY DEF IsStep, AsciiStep, Str, Classes

\* ... and Ascii its fold.
LEMMA AsciiIs ==
    ASSUME NEW w \in Seq(Classes)
    PROVE  Ascii(w) = Folded(Str, Classes, AsciiStep, <<>>, w)
<1> DEFINE next(x, y) ==
             IF y = "W" THEN x ELSE Append(x, IF y = "A" THEN "a" ELSE IF y = "e'" THEN "e" ELSE y)
           Eq(f) == f = [S \in SUBSET DOMAIN w |->
                           IF S = {} THEN <<>> ELSE next(f[S \ {Max(S)}], w[Max(S)])]
           iter == CHOOSE f : Eq(f)
<1>1. Ascii(w) = iter[DOMAIN w]
  BY DEF Ascii, FoldLeft, MapThenFoldSet
<1>2. \A x \in Str, y \in Classes : AsciiStep[<<x, y>>] = next(x, y)
  BY DEF AsciiStep
<1>3. IsStep(Str, Classes, AsciiStep, <<>>) /\ DOMAIN w = 1 .. Len(w)
  BY AsciiSteps
<1> HIDE DEF next
<1>4. \A S \in SUBSET (1 .. Len(w)) : S # {} => w[Max(S)] \in Classes /\ S \ {Max(S)} \in SUBSET (1 .. Len(w))
  BY LastOf
<1>5. \E f : Eq(f)
  <2>1. PICK f \in [SUBSET (1 .. Len(w)) -> Str] : Folds(f, Str, Classes, AsciiStep, <<>>, w)
    BY <1>3, FoldExists
  <2>2. \A S \in SUBSET (1 .. Len(w)) :
           f[S] = IF S = {} THEN <<>> ELSE next(f[S \ {Max(S)}], w[Max(S)])
    <3> SUFFICES ASSUME NEW S \in SUBSET (1 .. Len(w)), S # {}
                 PROVE  f[S] = next(f[S \ {Max(S)}], w[Max(S)])
      BY <2>1 DEF Folds
    <3>1. f[S \ {Max(S)}] \in Str /\ w[Max(S)] \in Classes
      BY <1>4, <2>1
    <3> QED BY <1>2, <2>1, <3>1 DEF Folds
  <2>3. Eq(f)
    BY <1>3, <2>1, <2>2
  <2> QED BY <2>3
<1>6. Eq(iter)
  BY <1>5
<1> HIDE DEF iter
<1>7. Folds(iter, Str, Classes, AsciiStep, <<>>, w)
  <2>1. iter[{}] = <<>>
    BY <1>3, <1>6
  <2>2. ASSUME NEW S \in SUBSET (1 .. Len(w)), S # {}, iter[S \ {Max(S)}] \in Str
        PROVE  iter[S] = AsciiStep[<<iter[S \ {Max(S)}], w[Max(S)]>>]
    <3>1. iter[S] = next(iter[S \ {Max(S)}], w[Max(S)])
      BY <1>3, <1>6, <2>2
    <3> QED BY <1>2, <1>4, <2>2, <3>1
  <2> QED BY <1>3, <2>1, <2>2 DEF Folds
<1>8. iter[1 .. Len(w)] = Folded(Str, Classes, AsciiStep, <<>>, w)
  BY <1>7, FoldedIs
<1> QED BY <1>1, <1>3, <1>8

\* The step of Spelled.
SpelledStep == [p \in Str \X Classes |->
    IF p[2] \in {"a", "A"} THEN Append(p[1], "a")
    ELSE IF p[2] \in {"e", "e'"} THEN Append(p[1], "e") ELSE p[1]]

\* It is a step on texts ...
LEMMA SpelledSteps == IsStep(Str, Classes, SpelledStep, <<>>)
  BY DEF IsStep, SpelledStep, Str, Classes

\* ... and Spelled its fold.
LEMMA SpelledIs ==
    ASSUME NEW w \in Seq(Classes)
    PROVE  Spelled(w) = Folded(Str, Classes, SpelledStep, <<>>, w)
<1> DEFINE next(x, y) ==
             IF y \in {"a", "A"} THEN Append(x, "a") ELSE IF y \in {"e", "e'"} THEN Append(x, "e") ELSE x
           Eq(f) == f = [S \in SUBSET DOMAIN w |->
                           IF S = {} THEN <<>> ELSE next(f[S \ {Max(S)}], w[Max(S)])]
           iter == CHOOSE f : Eq(f)
<1>1. Spelled(w) = iter[DOMAIN w]
  BY DEF Spelled, FoldLeft, MapThenFoldSet
<1>2. \A x \in Str, y \in Classes : SpelledStep[<<x, y>>] = next(x, y)
  BY DEF SpelledStep
<1>3. IsStep(Str, Classes, SpelledStep, <<>>) /\ DOMAIN w = 1 .. Len(w)
  BY SpelledSteps
<1> HIDE DEF next
<1>4. \A S \in SUBSET (1 .. Len(w)) : S # {} => w[Max(S)] \in Classes /\ S \ {Max(S)} \in SUBSET (1 .. Len(w))
  BY LastOf
<1>5. \E f : Eq(f)
  <2>1. PICK f \in [SUBSET (1 .. Len(w)) -> Str] : Folds(f, Str, Classes, SpelledStep, <<>>, w)
    BY <1>3, FoldExists
  <2>2. \A S \in SUBSET (1 .. Len(w)) :
           f[S] = IF S = {} THEN <<>> ELSE next(f[S \ {Max(S)}], w[Max(S)])
    <3> SUFFICES ASSUME NEW S \in SUBSET (1 .. Len(w)), S # {}
                 PROVE  f[S] = next(f[S \ {Max(S)}], w[Max(S)])
      BY <2>1 DEF Folds
    <3>1. f[S \ {Max(S)}] \in Str /\ w[Max(S)] \in Classes
      BY <1>4, <2>1
    <3> QED BY <1>2, <2>1, <3>1 DEF Folds
  <2>3. Eq(f)
    BY <1>3, <2>1, <2>2
  <2> QED BY <2>3
<1>6. Eq(iter)
  BY <1>5
<1> HIDE DEF iter
<1>7. Folds(iter, Str, Classes, SpelledStep, <<>>, w)
  <2>1. iter[{}] = <<>>
    BY <1>3, <1>6
  <2>2. ASSUME NEW S \in SUBSET (1 .. Len(w)), S # {}, iter[S \ {Max(S)}] \in Str
        PROVE  iter[S] = SpelledStep[<<iter[S \ {Max(S)}], w[Max(S)]>>]
    <3>1. iter[S] = next(iter[S \ {Max(S)}], w[Max(S)])
      BY <1>3, <1>6, <2>2
    <3> QED BY <1>2, <1>4, <2>2, <3>1
  <2> QED BY <1>3, <2>1, <2>2 DEF Folds
<1>8. iter[1 .. Len(w)] = Folded(Str, Classes, SpelledStep, <<>>, w)
  BY <1>7, FoldedIs
<1> QED BY <1>1, <1>3, <1>8

\* The step of Hyphenated.
HyphenStep == [p \in Slugged \X Classes |->
    IF p[2] \in Alnum THEN Append(p[1], p[2])
             ELSE IF p[1] # <<>> /\ Last(p[1]) = "-" THEN p[1] ELSE Append(p[1], "-")]

\* Its values are texts of letters and hyphens ...
LEMMA HyphenatedSteps == IsStep(Slugged, Classes, HyphenStep, <<>>)
  BY DEF IsStep, HyphenStep, Slugged

\* ... and Hyphenated is its fold.
LEMMA HyphenatedIs ==
    ASSUME NEW w \in Seq(Classes)
    PROVE  Hyphenated(w) = Folded(Slugged, Classes, HyphenStep, <<>>, w)
<1> DEFINE next(x, y) ==
             IF y \in Alnum THEN Append(x, y)
             ELSE IF x # <<>> /\ Last(x) = "-" THEN x ELSE Append(x, "-")
           Eq(f) == f = [S \in SUBSET DOMAIN w |->
                           IF S = {} THEN <<>> ELSE next(f[S \ {Max(S)}], w[Max(S)])]
           iter == CHOOSE f : Eq(f)
<1>1. Hyphenated(w) = iter[DOMAIN w]
  BY DEF Hyphenated, FoldLeft, MapThenFoldSet
<1>2. \A x \in Slugged, y \in Classes : HyphenStep[<<x, y>>] = next(x, y)
  BY DEF HyphenStep
<1>3. IsStep(Slugged, Classes, HyphenStep, <<>>) /\ DOMAIN w = 1 .. Len(w)
  BY HyphenatedSteps
<1> HIDE DEF next
<1>4. \A S \in SUBSET (1 .. Len(w)) : S # {} => w[Max(S)] \in Classes /\ S \ {Max(S)} \in SUBSET (1 .. Len(w))
  BY LastOf
<1>5. \E f : Eq(f)
  <2>1. PICK f \in [SUBSET (1 .. Len(w)) -> Slugged] : Folds(f, Slugged, Classes, HyphenStep, <<>>, w)
    BY <1>3, FoldExists
  <2>2. \A S \in SUBSET (1 .. Len(w)) :
           f[S] = IF S = {} THEN <<>> ELSE next(f[S \ {Max(S)}], w[Max(S)])
    <3> SUFFICES ASSUME NEW S \in SUBSET (1 .. Len(w)), S # {}
                 PROVE  f[S] = next(f[S \ {Max(S)}], w[Max(S)])
      BY <2>1 DEF Folds
    <3>1. f[S \ {Max(S)}] \in Slugged /\ w[Max(S)] \in Classes
      BY <1>4, <2>1
    <3> QED BY <1>2, <2>1, <3>1 DEF Folds
  <2>3. Eq(f)
    BY <1>3, <2>1, <2>2
  <2> QED BY <2>3
<1>6. Eq(iter)
  BY <1>5
<1> HIDE DEF iter
<1>7. Folds(iter, Slugged, Classes, HyphenStep, <<>>, w)
  <2>1. iter[{}] = <<>>
    BY <1>3, <1>6
  <2>2. ASSUME NEW S \in SUBSET (1 .. Len(w)), S # {}, iter[S \ {Max(S)}] \in Slugged
        PROVE  iter[S] = HyphenStep[<<iter[S \ {Max(S)}], w[Max(S)]>>]
    <3>1. iter[S] = next(iter[S \ {Max(S)}], w[Max(S)])
      BY <1>3, <1>6, <2>2
    <3> QED BY <1>2, <1>4, <2>2, <3>1
  <2> QED BY <1>3, <2>1, <2>2 DEF Folds
<1>8. iter[1 .. Len(w)] = Folded(Slugged, Classes, HyphenStep, <<>>, w)
  BY <1>7, FoldedIs
<1> QED BY <1>1, <1>3, <1>8

\* The step of Split.
SplitStep == [p \in Parts \X Classes |->
    IF p[2] = "/" THEN Append(p[1], <<>>) ELSE [p[1] EXCEPT ![Len(p[1])] = Append(@, p[2])]]

\* It goes from parts to parts ...
LEMMA SplitSteps == IsStep(Parts, Classes, SplitStep, << <<>> >>)
<1>1. << <<>> >> \in Parts
  BY DEF Parts, Str
<1>2. ASSUME NEW p \in Parts, NEW c \in Classes
      PROVE  Append(p, <<>>) \in Parts /\ [p EXCEPT ![Len(p)] = Append(@, c)] \in Parts
  <2>1. p \in Seq(Str) /\ Len(p) \in 1 .. Len(p) /\ p[Len(p)] \in Str
    BY DEF Parts
  <2>2. Append(p[Len(p)], c) \in Str /\ <<>> \in Str
    BY <2>1 DEF Str
  <2>3. [p EXCEPT ![Len(p)] = Append(p[Len(p)], c)] \in Seq(Str) /\ Len([p EXCEPT ![Len(p)] = Append(p[Len(p)], c)]) = Len(p)
    BY <2>1, <2>2
  <2>4. Append(p, <<>>) \in Seq(Str) /\ Append(p, <<>>) # <<>>
    BY <2>1, <2>2
  <2> QED BY <2>1, <2>3, <2>4 DEF Parts
<1> QED BY <1>1, <1>2 DEF IsStep, SplitStep

\* ... and Split is its fold.
LEMMA SplitIs ==
    ASSUME NEW w \in Seq(Classes)
    PROVE  Split(w) = Folded(Parts, Classes, SplitStep, << <<>> >>, w)
<1> DEFINE next(x, y) ==
             IF y = "/" THEN Append(x, <<>>) ELSE [x EXCEPT ![Len(x)] = Append(@, y)]
           Eq(f) == f = [S \in SUBSET DOMAIN w |->
                           IF S = {} THEN << <<>> >> ELSE next(f[S \ {Max(S)}], w[Max(S)])]
           iter == CHOOSE f : Eq(f)
<1>1. Split(w) = iter[DOMAIN w]
  BY DEF Split, FoldLeft, MapThenFoldSet
<1>2. \A x \in Parts, y \in Classes : SplitStep[<<x, y>>] = next(x, y)
  BY DEF SplitStep
<1>3. IsStep(Parts, Classes, SplitStep, << <<>> >>) /\ DOMAIN w = 1 .. Len(w)
  BY SplitSteps
<1> HIDE DEF next
<1>4. \A S \in SUBSET (1 .. Len(w)) : S # {} => w[Max(S)] \in Classes /\ S \ {Max(S)} \in SUBSET (1 .. Len(w))
  BY LastOf
<1>5. \E f : Eq(f)
  <2>1. PICK f \in [SUBSET (1 .. Len(w)) -> Parts] : Folds(f, Parts, Classes, SplitStep, << <<>> >>, w)
    BY <1>3, FoldExists
  <2>2. \A S \in SUBSET (1 .. Len(w)) :
           f[S] = IF S = {} THEN << <<>> >> ELSE next(f[S \ {Max(S)}], w[Max(S)])
    <3> SUFFICES ASSUME NEW S \in SUBSET (1 .. Len(w)), S # {}
                 PROVE  f[S] = next(f[S \ {Max(S)}], w[Max(S)])
      BY <2>1 DEF Folds
    <3>1. f[S \ {Max(S)}] \in Parts /\ w[Max(S)] \in Classes
      BY <1>4, <2>1
    <3> QED BY <1>2, <2>1, <3>1 DEF Folds
  <2>3. Eq(f)
    BY <1>3, <2>1, <2>2
  <2> QED BY <2>3
<1>6. Eq(iter)
  BY <1>5
<1> HIDE DEF iter
<1>7. Folds(iter, Parts, Classes, SplitStep, << <<>> >>, w)
  <2>1. iter[{}] = << <<>> >>
    BY <1>3, <1>6
  <2>2. ASSUME NEW S \in SUBSET (1 .. Len(w)), S # {}, iter[S \ {Max(S)}] \in Parts
        PROVE  iter[S] = SplitStep[<<iter[S \ {Max(S)}], w[Max(S)]>>]
    <3>1. iter[S] = next(iter[S \ {Max(S)}], w[Max(S)])
      BY <1>3, <1>6, <2>2
    <3> QED BY <1>2, <1>4, <2>2, <3>1
  <2> QED BY <1>3, <2>1, <2>2 DEF Folds
<1>8. iter[1 .. Len(w)] = Folded(Parts, Classes, SplitStep, << <<>> >>, w)
  BY <1>7, FoldedIs
<1> QED BY <1>1, <1>3, <1>8

\* The step of a walk, from a place along a segment.
WalkStep == [p \in Places \X Str |->
    IF p[1] = Outside THEN Outside
             ELSE IF p[2] \in {<<>>, <<".">>} THEN p[1]
             ELSE IF p[2] = <<".", ".">> THEN (IF p[1] = <<>> THEN Outside ELSE Front(p[1]))
             ELSE Append(p[1], p[2])]

\* It goes from place to place ...
LEMMA WalkOfSteps == IsStep(Places, Str, WalkStep, <<>>)
<1>1. ASSUME NEW p \in Places, NEW e \in Str, p # Outside
      PROVE  Append(p, e) \in Places /\ (p # <<>> => Front(p) \in Places)
  <2>1. p \in Seq(Str)
    BY <1>1 DEF Places
  <2>2. p # <<>> => Front(p) \in Seq(Str)
    BY <2>1 DEF Front
  <2> QED BY <2>1, <2>2 DEF Places
<1>2. <<>> \in Places /\ Outside \in Places
  BY DEF Places
<1> QED BY <1>1, <1>2 DEF IsStep, WalkStep

\* ... and WalkOf is its fold.
LEMMA WalkOfIs ==
    ASSUME NEW w \in Seq(Str)
    PROVE  WalkOf(w) = Folded(Places, Str, WalkStep, <<>>, w)
<1> DEFINE next(x, y) ==
             IF x = Outside THEN Outside
             ELSE IF y \in {<<>>, <<".">>} THEN x
             ELSE IF y = <<".", ".">> THEN (IF x = <<>> THEN Outside ELSE Front(x))
             ELSE Append(x, y)
           Eq(f) == f = [S \in SUBSET DOMAIN w |->
                           IF S = {} THEN <<>> ELSE next(f[S \ {Max(S)}], w[Max(S)])]
           iter == CHOOSE f : Eq(f)
<1>1. WalkOf(w) = iter[DOMAIN w]
  BY DEF WalkOf, FoldLeft, MapThenFoldSet
<1>2. \A x \in Places, y \in Str : WalkStep[<<x, y>>] = next(x, y)
  BY DEF WalkStep
<1>3. IsStep(Places, Str, WalkStep, <<>>) /\ DOMAIN w = 1 .. Len(w)
  BY WalkOfSteps
<1> HIDE DEF next
<1>4. \A S \in SUBSET (1 .. Len(w)) : S # {} => w[Max(S)] \in Str /\ S \ {Max(S)} \in SUBSET (1 .. Len(w))
  BY LastOf
<1>5. \E f : Eq(f)
  <2>1. PICK f \in [SUBSET (1 .. Len(w)) -> Places] : Folds(f, Places, Str, WalkStep, <<>>, w)
    BY <1>3, FoldExists
  <2>2. \A S \in SUBSET (1 .. Len(w)) :
           f[S] = IF S = {} THEN <<>> ELSE next(f[S \ {Max(S)}], w[Max(S)])
    <3> SUFFICES ASSUME NEW S \in SUBSET (1 .. Len(w)), S # {}
                 PROVE  f[S] = next(f[S \ {Max(S)}], w[Max(S)])
      BY <2>1 DEF Folds
    <3>1. f[S \ {Max(S)}] \in Places /\ w[Max(S)] \in Str
      BY <1>4, <2>1
    <3> QED BY <1>2, <2>1, <3>1 DEF Folds
  <2>3. Eq(f)
    BY <1>3, <2>1, <2>2
  <2> QED BY <2>3
<1>6. Eq(iter)
  BY <1>5
<1> HIDE DEF iter
<1>7. Folds(iter, Places, Str, WalkStep, <<>>, w)
  <2>1. iter[{}] = <<>>
    BY <1>3, <1>6
  <2>2. ASSUME NEW S \in SUBSET (1 .. Len(w)), S # {}, iter[S \ {Max(S)}] \in Places
        PROVE  iter[S] = WalkStep[<<iter[S \ {Max(S)}], w[Max(S)]>>]
    <3>1. iter[S] = next(iter[S \ {Max(S)}], w[Max(S)])
      BY <1>3, <1>6, <2>2
    <3> QED BY <1>2, <1>4, <2>2, <3>1
  <2> QED BY <1>3, <2>1, <2>2 DEF Folds
<1>8. iter[1 .. Len(w)] = Folded(Places, Str, WalkStep, <<>>, w)
  BY <1>7, FoldedIs
<1> QED BY <1>1, <1>3, <1>8

\* Ascii of the empty text, its type, and a character more.
LEMMA AsciiLaws ==
    /\ Ascii(<<>>) = <<>>
    /\ \A w \in Str : Ascii(w) \in Str
    /\ \A w \in Str, y \in Classes :
          Ascii(Append(w, y)) =
              IF y = "W" THEN Ascii(w) ELSE Append(Ascii(w), IF y = "A" THEN "a" ELSE IF y = "e'" THEN "e" ELSE y)
<1>1. IsStep(Str, Classes, AsciiStep, <<>>)
  BY AsciiSteps
<1>2. <<>> \in Seq(Classes) /\ \A w \in Seq(Classes), y \in Classes : Append(w, y) \in Seq(Classes)
  OBVIOUS
<1>3. Ascii(<<>>) = <<>>
  BY <1>1, <1>2, AsciiIs, FoldedStart
<1>4. ASSUME NEW w \in Seq(Classes) PROVE Ascii(w) \in Str
  BY <1>1, AsciiIs, FoldedIn
<1>5. ASSUME NEW w \in Seq(Classes), NEW y \in Classes PROVE Ascii(Append(w, y)) = AsciiStep[<<Ascii(w), y>>]
  <2>1. Ascii(w) = Folded(Str, Classes, AsciiStep, <<>>, w)
    BY AsciiIs
  <2>2. Ascii(Append(w, y)) = Folded(Str, Classes, AsciiStep, <<>>, Append(w, y))
    BY <1>2, AsciiIs
  <2> QED BY <1>1, <2>1, <2>2, FoldedAppend
<1>6. ASSUME NEW w \in Seq(Classes), NEW y \in Classes
      PROVE  Ascii(Append(w, y)) =
              IF y = "W" THEN Ascii(w) ELSE Append(Ascii(w), IF y = "A" THEN "a" ELSE IF y = "e'" THEN "e" ELSE y)
  <2>1. PICK x \in Str : x = Ascii(w)
    BY <1>4
  <2>2. AsciiStep[<<x, y>>] =
              IF y = "W" THEN x ELSE Append(x, IF y = "A" THEN "a" ELSE IF y = "e'" THEN "e" ELSE y)
    BY DEF AsciiStep
  <2> QED BY <1>5, <2>1, <2>2
<1> QED BY <1>3, <1>4, <1>6 DEF Str

\* Spelled of the empty text, its type, and a character more.
LEMMA SpelledLaws ==
    /\ Spelled(<<>>) = <<>>
    /\ \A w \in Str : Spelled(w) \in Str
    /\ \A w \in Str, y \in Classes :
          Spelled(Append(w, y)) =
              IF y \in {"a", "A"} THEN Append(Spelled(w), "a")
              ELSE IF y \in {"e", "e'"} THEN Append(Spelled(w), "e") ELSE Spelled(w)
<1>1. IsStep(Str, Classes, SpelledStep, <<>>)
  BY SpelledSteps
<1>2. <<>> \in Seq(Classes) /\ \A w \in Seq(Classes), y \in Classes : Append(w, y) \in Seq(Classes)
  OBVIOUS
<1>3. Spelled(<<>>) = <<>>
  BY <1>1, <1>2, SpelledIs, FoldedStart
<1>4. ASSUME NEW w \in Seq(Classes) PROVE Spelled(w) \in Str
  BY <1>1, SpelledIs, FoldedIn
<1>5. ASSUME NEW w \in Seq(Classes), NEW y \in Classes PROVE Spelled(Append(w, y)) = SpelledStep[<<Spelled(w), y>>]
  <2>1. Spelled(w) = Folded(Str, Classes, SpelledStep, <<>>, w)
    BY SpelledIs
  <2>2. Spelled(Append(w, y)) = Folded(Str, Classes, SpelledStep, <<>>, Append(w, y))
    BY <1>2, SpelledIs
  <2> QED BY <1>1, <2>1, <2>2, FoldedAppend
<1>6. ASSUME NEW w \in Seq(Classes), NEW y \in Classes
      PROVE  Spelled(Append(w, y)) =
              IF y \in {"a", "A"} THEN Append(Spelled(w), "a")
              ELSE IF y \in {"e", "e'"} THEN Append(Spelled(w), "e") ELSE Spelled(w)
  <2>1. PICK x \in Str : x = Spelled(w)
    BY <1>4
  <2>2. SpelledStep[<<x, y>>] =
              IF y \in {"a", "A"} THEN Append(x, "a") ELSE IF y \in {"e", "e'"} THEN Append(x, "e") ELSE x
    BY DEF SpelledStep
  <2> QED BY <1>5, <2>1, <2>2
<1> QED BY <1>3, <1>4, <1>6 DEF Str

\* Hyphenated of the empty text, its type, and a character more.
LEMMA HyphenLaws ==
    /\ Hyphenated(<<>>) = <<>>
    /\ \A w \in Str : Hyphenated(w) \in Slugged
    /\ \A w \in Str, y \in Classes :
          Hyphenated(Append(w, y)) =
              IF y \in Alnum THEN Append(Hyphenated(w), y)
              ELSE IF Hyphenated(w) # <<>> /\ Last(Hyphenated(w)) = "-" THEN Hyphenated(w) ELSE Append(Hyphenated(w), "-")
<1>1. IsStep(Slugged, Classes, HyphenStep, <<>>)
  BY HyphenatedSteps
<1>2. <<>> \in Seq(Classes) /\ \A w \in Seq(Classes), y \in Classes : Append(w, y) \in Seq(Classes)
  OBVIOUS
<1>3. Hyphenated(<<>>) = <<>>
  BY <1>1, <1>2, HyphenatedIs, FoldedStart
<1>4. ASSUME NEW w \in Seq(Classes) PROVE Hyphenated(w) \in Slugged
  BY <1>1, HyphenatedIs, FoldedIn
<1>5. ASSUME NEW w \in Seq(Classes), NEW y \in Classes PROVE Hyphenated(Append(w, y)) = HyphenStep[<<Hyphenated(w), y>>]
  <2>1. Hyphenated(w) = Folded(Slugged, Classes, HyphenStep, <<>>, w)
    BY HyphenatedIs
  <2>2. Hyphenated(Append(w, y)) = Folded(Slugged, Classes, HyphenStep, <<>>, Append(w, y))
    BY <1>2, HyphenatedIs
  <2> QED BY <1>1, <2>1, <2>2, FoldedAppend
<1>6. ASSUME NEW w \in Seq(Classes), NEW y \in Classes
      PROVE  Hyphenated(Append(w, y)) =
              IF y \in Alnum THEN Append(Hyphenated(w), y)
              ELSE IF Hyphenated(w) # <<>> /\ Last(Hyphenated(w)) = "-" THEN Hyphenated(w) ELSE Append(Hyphenated(w), "-")
  <2>1. PICK x \in Slugged : x = Hyphenated(w)
    BY <1>4
  <2>2. HyphenStep[<<x, y>>] =
              IF y \in Alnum THEN Append(x, y)
              ELSE IF x # <<>> /\ Last(x) = "-" THEN x ELSE Append(x, "-")
    BY DEF HyphenStep
  <2> QED BY <1>5, <2>1, <2>2
<1> QED BY <1>3, <1>4, <1>6 DEF Str

\* Split of the empty text, its type, and a character more.
LEMMA SplitLaws ==
    /\ Split(<<>>) = << <<>> >>
    /\ \A w \in Str : Split(w) \in Parts
    /\ \A w \in Str, y \in Classes :
          Split(Append(w, y)) =
              IF y = "/" THEN Append(Split(w), <<>>) ELSE [Split(w) EXCEPT ![Len(Split(w))] = Append(@, y)]
<1>1. IsStep(Parts, Classes, SplitStep, << <<>> >>)
  BY SplitSteps
<1>2. <<>> \in Seq(Classes) /\ \A w \in Seq(Classes), y \in Classes : Append(w, y) \in Seq(Classes)
  OBVIOUS
<1>3. Split(<<>>) = << <<>> >>
  BY <1>1, <1>2, SplitIs, FoldedStart
<1>4. ASSUME NEW w \in Seq(Classes) PROVE Split(w) \in Parts
  BY <1>1, SplitIs, FoldedIn
<1>5. ASSUME NEW w \in Seq(Classes), NEW y \in Classes PROVE Split(Append(w, y)) = SplitStep[<<Split(w), y>>]
  <2>1. Split(w) = Folded(Parts, Classes, SplitStep, << <<>> >>, w)
    BY SplitIs
  <2>2. Split(Append(w, y)) = Folded(Parts, Classes, SplitStep, << <<>> >>, Append(w, y))
    BY <1>2, SplitIs
  <2> QED BY <1>1, <2>1, <2>2, FoldedAppend
<1>6. ASSUME NEW w \in Seq(Classes), NEW y \in Classes
      PROVE  Split(Append(w, y)) =
              IF y = "/" THEN Append(Split(w), <<>>) ELSE [Split(w) EXCEPT ![Len(Split(w))] = Append(@, y)]
  <2>1. PICK x \in Parts : x = Split(w)
    BY <1>4
  <2>2. SplitStep[<<x, y>>] =
              IF y = "/" THEN Append(x, <<>>) ELSE [x EXCEPT ![Len(x)] = Append(@, y)]
    BY DEF SplitStep
  <2> QED BY <1>5, <2>1, <2>2
<1> QED BY <1>3, <1>4, <1>6 DEF Str

\* A walk along nothing, where walks arrive, and a segment more.
LEMMA WalkLaws ==
    /\ WalkOf(<<>>) = <<>>
    /\ \A w \in Seq(Str) : WalkOf(w) \in Places
    /\ \A w \in Seq(Str), y \in Str :
          WalkOf(Append(w, y)) =
              IF WalkOf(w) = Outside THEN Outside
              ELSE IF y \in {<<>>, <<".">>} THEN WalkOf(w)
              ELSE IF y = <<".", ".">> THEN (IF WalkOf(w) = <<>> THEN Outside ELSE Front(WalkOf(w)))
              ELSE Append(WalkOf(w), y)
<1>1. IsStep(Places, Str, WalkStep, <<>>)
  BY WalkOfSteps
<1>2. <<>> \in Seq(Str) /\ \A w \in Seq(Str), y \in Str : Append(w, y) \in Seq(Str)
  OBVIOUS
<1>3. WalkOf(<<>>) = <<>>
  BY <1>1, <1>2, WalkOfIs, FoldedStart
<1>4. ASSUME NEW w \in Seq(Str) PROVE WalkOf(w) \in Places
  BY <1>1, WalkOfIs, FoldedIn
<1>5. ASSUME NEW w \in Seq(Str), NEW y \in Str PROVE WalkOf(Append(w, y)) = WalkStep[<<WalkOf(w), y>>]
  <2>1. WalkOf(w) = Folded(Places, Str, WalkStep, <<>>, w)
    BY WalkOfIs
  <2>2. WalkOf(Append(w, y)) = Folded(Places, Str, WalkStep, <<>>, Append(w, y))
    BY <1>2, WalkOfIs
  <2> QED BY <1>1, <2>1, <2>2, FoldedAppend
<1>6. ASSUME NEW w \in Seq(Str), NEW y \in Str
      PROVE  WalkOf(Append(w, y)) =
              IF WalkOf(w) = Outside THEN Outside
              ELSE IF y \in {<<>>, <<".">>} THEN WalkOf(w)
              ELSE IF y = <<".", ".">> THEN (IF WalkOf(w) = <<>> THEN Outside ELSE Front(WalkOf(w)))
              ELSE Append(WalkOf(w), y)
  <2>1. PICK x \in Places : x = WalkOf(w)
    BY <1>4
  <2>2. WalkStep[<<x, y>>] =
              IF x = Outside THEN Outside
              ELSE IF y \in {<<>>, <<".">>} THEN x
              ELSE IF y = <<".", ".">> THEN (IF x = <<>> THEN Outside ELSE Front(x))
              ELSE Append(x, y)
    BY DEF WalkStep
  <2> QED BY <1>5, <2>1, <2>2
<1> QED BY <1>3, <1>4, <1>6

\* The step of Join, and Join's fold with the first part given.
JoinStep == [p \in Str \X Str |-> p[1] \o <<"/">> \o p[2]]
Joined(b, w) == FoldLeft(LAMBDA s, part : s \o <<"/">> \o part, b, w)

\* It is the fold of that step.
LEMMA JoinedIs ==
    ASSUME NEW b \in Str, NEW w \in Seq(Str)
    PROVE  Joined(b, w) = Folded(Str, Str, JoinStep, b, w) /\ IsStep(Str, Str, JoinStep, b)
<1> DEFINE next(x, y) == x \o <<"/">> \o y
           Eq(f) == f = [S \in SUBSET DOMAIN w |->
                           IF S = {} THEN b ELSE next(f[S \ {Max(S)}], w[Max(S)])]
           iter == CHOOSE f : Eq(f)
<1>1. Joined(b, w) = iter[DOMAIN w]
  BY DEF Joined, FoldLeft, MapThenFoldSet
<1>2. \A x \in Str, y \in Str : JoinStep[<<x, y>>] = next(x, y)
  BY DEF JoinStep
<1>3. IsStep(Str, Str, JoinStep, b) /\ DOMAIN w = 1 .. Len(w)
  <2>1. \A x \in Str, y \in Str : x \o <<"/">> \o y \in Str
    BY DEF Str, Classes
  <2> QED BY <2>1 DEF IsStep, JoinStep
<1> HIDE DEF next
<1>4. \A S \in SUBSET (1 .. Len(w)) : S # {} => w[Max(S)] \in Str /\ S \ {Max(S)} \in SUBSET (1 .. Len(w))
  BY LastOf
<1>5. \E f : Eq(f)
  <2>1. PICK f \in [SUBSET (1 .. Len(w)) -> Str] : Folds(f, Str, Str, JoinStep, b, w)
    BY <1>3, FoldExists
  <2>2. \A S \in SUBSET (1 .. Len(w)) :
           f[S] = IF S = {} THEN b ELSE next(f[S \ {Max(S)}], w[Max(S)])
    <3> SUFFICES ASSUME NEW S \in SUBSET (1 .. Len(w)), S # {}
                 PROVE  f[S] = next(f[S \ {Max(S)}], w[Max(S)])
      BY <2>1 DEF Folds
    <3>1. f[S \ {Max(S)}] \in Str /\ w[Max(S)] \in Str
      BY <1>4, <2>1
    <3> QED BY <1>2, <2>1, <3>1 DEF Folds
  <2>3. Eq(f)
    BY <1>3, <2>1, <2>2
  <2> QED BY <2>3
<1>6. Eq(iter)
  BY <1>5
<1> HIDE DEF iter
<1>7. Folds(iter, Str, Str, JoinStep, b, w)
  <2>1. iter[{}] = b
    BY <1>3, <1>6
  <2>2. ASSUME NEW S \in SUBSET (1 .. Len(w)), S # {}, iter[S \ {Max(S)}] \in Str
        PROVE  iter[S] = JoinStep[<<iter[S \ {Max(S)}], w[Max(S)]>>]
    <3>1. iter[S] = next(iter[S \ {Max(S)}], w[Max(S)])
      BY <1>3, <1>6, <2>2
    <3> QED BY <1>2, <1>4, <2>2, <3>1
  <2> QED BY <1>3, <2>1, <2>2 DEF Folds
<1>8. iter[1 .. Len(w)] = Folded(Str, Str, JoinStep, b, w)
  BY <1>7, FoldedIs
<1> QED BY <1>1, <1>3, <1>8

\* Join of one part, and of one part more.
\* Join of one part, its type, and a part more.
LEMMA JoinLaws ==
    /\ \A x \in Str : Join(<<x>>) = x
    /\ \A p \in Parts : Join(p) \in Str
    /\ \A p \in Parts, x \in Str : Join(Append(p, x)) = Join(p) \o <<"/">> \o x
<1>1. <<>> \in Seq(Str) /\ \A w \in Seq(Str), x \in Str : Append(w, x) \in Seq(Str)
  OBVIOUS
<1>2. ASSUME NEW b \in Str PROVE Joined(b, <<>>) = b
  BY <1>1, JoinedIs, FoldedStart
<1>3. ASSUME NEW b \in Str, NEW w \in Seq(Str) PROVE Joined(b, w) \in Str
  BY JoinedIs, FoldedIn
<1>4. ASSUME NEW b \in Str, NEW w \in Seq(Str), NEW x \in Str
      PROVE  Joined(b, Append(w, x)) = Joined(b, w) \o <<"/">> \o x
  <2>1. Joined(b, Append(w, x)) = Folded(Str, Str, JoinStep, b, Append(w, x))
    BY <1>1, JoinedIs
  <2>2. Joined(b, w) = Folded(Str, Str, JoinStep, b, w) /\ IsStep(Str, Str, JoinStep, b)
    BY JoinedIs
  <2>3. Joined(b, Append(w, x)) = JoinStep[<<Joined(b, w), x>>]
    BY <2>1, <2>2, FoldedAppend
  <2>4. PICK y \in Str : y = Joined(b, w)
    BY <1>3
  <2>5. JoinStep[<<y, x>>] = y \o <<"/">> \o x
    BY DEF JoinStep
  <2> QED BY <2>3, <2>4, <2>5
<1>5. \A p : p # <<>> => Join(p) = Joined(Head(p), Tail(p))
  BY DEF Join, Joined
<1>6. ASSUME NEW x \in Str PROVE Join(<<x>>) = x
  <2>1. <<x>> # <<>> /\ Head(<<x>>) = x /\ Tail(<<x>>) = <<>>
    OBVIOUS
  <2> QED BY <1>2, <1>5, <2>1
<1>7. ASSUME NEW p \in Parts PROVE Head(p) \in Str /\ Tail(p) \in Seq(Str) /\ p # <<>>
  BY DEF Parts
<1>8. ASSUME NEW p \in Parts, NEW x \in Str PROVE Join(Append(p, x)) = Join(p) \o <<"/">> \o x
  <2>1. Append(p, x) # <<>> /\ Head(Append(p, x)) = Head(p) /\ Tail(Append(p, x)) = Append(Tail(p), x)
    BY DEF Parts
  <2>2. Join(Append(p, x)) = Joined(Head(p), Append(Tail(p), x))
    BY <1>5, <2>1
  <2>3. Join(p) = Joined(Head(p), Tail(p))
    BY <1>5, <1>7
  <2>4. Joined(Head(p), Append(Tail(p), x)) = Joined(Head(p), Tail(p)) \o <<"/">> \o x
    BY <1>4, <1>7
  <2> QED BY <2>2, <2>3, <2>4
<1>9. ASSUME NEW p \in Parts PROVE Join(p) \in Str
  <2>1. Join(p) = Joined(Head(p), Tail(p))
    BY <1>5, <1>7
  <2>2. Joined(Head(p), Tail(p)) \in Str
    BY <1>3, <1>7
  <2> QED BY <2>1, <2>2
<1> QED BY <1>6, <1>8, <1>9

(***************************************************************************)
(* Splitting and joining                                                   *)
(***************************************************************************)

\* The last part, and another in its place.
LEMMA LastPart ==
    ASSUME NEW p \in Parts
    PROVE  \E f \in Seq(Str), x \in Str :
              /\ p = Append(f, x) /\ p[Len(p)] = x
              /\ \A z \in Str : [p EXCEPT ![Len(p)] = z] = Append(f, z)
<1> DEFINE f == SubSeq(p, 1, Len(p) - 1)
<1>1. p \in Seq(Str) /\ Len(p) \in Nat /\ Len(p) >= 1
  BY DEF Parts
<1>2. f \in Seq(Str) /\ Len(f) = Len(p) - 1 /\ \A i \in 1 .. Len(p) - 1 : f[i] = p[i]
  BY <1>1
<1>3. p[Len(p)] \in Str
  BY <1>1
<1> HIDE DEF f
<1>4. p = Append(f, p[Len(p)])
  BY <1>1, <1>2, <1>3
<1>5. ASSUME NEW z \in Str PROVE [p EXCEPT ![Len(p)] = z] = Append(f, z)
  <2>1. PICK a, b : a = [p EXCEPT ![Len(p)] = z] /\ b = Append(f, z)
    OBVIOUS
  <2>2. a \in Seq(Str) /\ Len(a) = Len(p) /\ a[Len(p)] = z /\ \A i \in 1 .. Len(p) - 1 : a[i] = p[i]
    BY <1>1, <2>1
  <2>3. b \in Seq(Str) /\ Len(b) = Len(p) /\ b[Len(p)] = z /\ \A i \in 1 .. Len(p) - 1 : b[i] = p[i]
    BY <1>1, <1>2, <2>1
  <2>4. \A i \in 1 .. Len(a) : a[i] = b[i]
    <3> SUFFICES ASSUME NEW i \in 1 .. Len(a) PROVE a[i] = b[i]
      OBVIOUS
    <3>1. i = Len(p) \/ i \in 1 .. Len(p) - 1
      BY <1>1, <2>2
    <3> QED BY <2>2, <2>3, <3>1
  <2>5. a = b
    BY <2>2, <2>3, <2>4
  <2> QED BY <2>1, <2>5
<1> QED BY <1>2, <1>3, <1>4, <1>5

\* One character more, with the last part at hand.
LEMMA SplitMore ==
    ASSUME NEW s \in Str, NEW c \in Classes, c # "/"
    PROVE  \E f \in Seq(Str), x \in Str : Split(s) = Append(f, x) /\ Split(Append(s, c)) = Append(f, Append(x, c))
<1>1. Split(s) \in Parts
  BY SplitLaws
<1>2. PICK f \in Seq(Str), x \in Str :
         /\ Split(s) = Append(f, x) /\ Split(s)[Len(Split(s))] = x
         /\ \A z \in Str : [Split(s) EXCEPT ![Len(Split(s))] = z] = Append(f, z)
  BY <1>1, LastPart
<1>3. Append(x, c) \in Str
  BY DEF Str
<1>4. Split(Append(s, c)) = [Split(s) EXCEPT ![Len(Split(s))] = Append(@, c)]
  BY SplitLaws
<1>5. Split(Append(s, c)) = [Split(s) EXCEPT ![Len(Split(s))] = Append(x, c)]
  BY <1>2, <1>4
<1>6. [Split(s) EXCEPT ![Len(Split(s))] = Append(x, c)] = Append(f, Append(x, c))
  BY <1>2, <1>3
<1>7. Split(s) = Append(f, x) /\ Split(Append(s, c)) = Append(f, Append(x, c))
  BY <1>2, <1>5, <1>6
<1> QED BY <1>7

\* What was appended, and what it was appended to.
LEMMA AppendSame ==
    ASSUME NEW Y, NEW f \in Seq(Y), NEW g \in Seq(Y), NEW x \in Y, NEW y \in Y, Append(f, x) = Append(g, y)
    PROVE  f = g /\ x = y
<1>1. PICK h : h = Append(f, x) /\ h = Append(g, y)
  OBVIOUS
<1>2. Len(h) = Len(f) + 1 /\ h[Len(f) + 1] = x /\ \A i \in 1 .. Len(f) : h[i] = f[i]
  BY <1>1
<1>3. Len(h) = Len(g) + 1 /\ h[Len(g) + 1] = y /\ \A i \in 1 .. Len(g) : h[i] = g[i]
  BY <1>1
<1>4. Len(f) = Len(g) /\ Len(f) \in Nat
  BY <1>2, <1>3
<1>5. \A i \in 1 .. Len(f) : f[i] = g[i]
  BY <1>2, <1>3, <1>4
<1> QED BY <1>2, <1>3, <1>4, <1>5

\* What texts are closed under.
LEMMA StrFacts ==
    /\ <<>> \in Str /\ <<"/">> \in Str
    /\ \A s \in Str, c \in Classes : Append(s, c) \in Str
    /\ \A s, t \in Str : s \o t \in Str
    /\ "/" \in Classes
BY DEF Str, Classes

\* A slash parts a text into the parts before it and those behind it.
LEMMA SplitConcat ==
    ASSUME NEW s \in Str, NEW t \in Str
    PROVE  Split(s \o <<"/">> \o t) = Split(s) \o Split(t)
<1>1. PICK u \in Str : u = s \o <<"/">>
  BY StrFacts
<1>2. PICK a \in Parts : a = Split(s)
  BY SplitLaws
<1> DEFINE Q == {v \in Str : Split(u \o v) = a \o Split(v)}
<1>3. <<>> \in Q
  <2>1. u = Append(s, "/") /\ u \o <<>> = u
    BY <1>1 DEF Str
  <2>2. Split(u) = Append(a, <<>>)
    BY <1>2, <2>1, SplitLaws, StrFacts
  <2>3. Append(a, <<>>) = a \o << <<>> >>
    BY DEF Parts
  <2> QED BY <2>1, <2>2, <2>3, SplitLaws, StrFacts
<1>4. ASSUME NEW v \in Seq(Classes), NEW c \in Classes, v \in Q PROVE Append(v, c) \in Q
  <2>0. v \in Str /\ Append(v, c) \in Str /\ u \o v \in Str
    BY StrFacts DEF Str
  <2>1. u \o Append(v, c) = Append(u \o v, c)
    BY DEF Str
  <2>2. Split(u \o v) = a \o Split(v)
    BY <1>4
  <2>3. CASE c = "/"
    <3>1. Split(Append(u \o v, c)) = Append(a \o Split(v), <<>>)
      BY <2>0, <2>2, <2>3, SplitLaws
    <3>2. Split(Append(v, c)) = Append(Split(v), <<>>)
      BY <2>0, <2>3, SplitLaws
    <3>3. PICK b \in Seq(Str) : b = Split(v)
      BY <2>0, SplitLaws DEF Parts
    <3>4. Append(a \o b, <<>>) = a \o Append(b, <<>>)
      <4>1. PICK z \in Str : z = <<>>
        BY StrFacts
      <4>2. a \in Seq(Str)
        BY DEF Parts
      <4>3. Append(a \o b, z) = a \o Append(b, z)
        BY <3>3, <4>2
      <4> QED BY <4>1, <4>3
    <3> QED BY <2>0, <2>1, <3>1, <3>2, <3>3, <3>4
  <2>4. CASE c # "/"
    <3>1. PICK f \in Seq(Str), x \in Str : Split(v) = Append(f, x) /\ Split(Append(v, c)) = Append(f, Append(x, c))
      BY <2>0, <2>4, SplitMore
    <3>2. PICK g \in Seq(Str), y \in Str :
             Split(u \o v) = Append(g, y) /\ Split(Append(u \o v, c)) = Append(g, Append(y, c))
      BY <2>0, <2>4, SplitMore
    <3>3. a \in Seq(Str)
      BY DEF Parts
    <3>4. PICK k \in Seq(Str) : k = a \o f
      <4>1. a \o f \in Seq(Str)
        BY <3>3
      <4> QED BY <4>1
    <3>5. Append(g, y) = Append(k, x)
      <4>1. a \o Append(f, x) = Append(a \o f, x)
        BY <3>3
      <4> QED BY <2>2, <3>1, <3>2, <3>4, <4>1
    <3>6. g = a \o f /\ y = x
      <4>1. g = k /\ y = x
        BY <3>5, AppendSame
      <4> QED BY <3>4, <4>1
    <3>7. a \o Append(f, Append(x, c)) = Append(a \o f, Append(x, c))
      <4>1. Append(x, c) \in Str
        BY StrFacts
      <4> QED BY <3>3, <4>1
    <3> QED BY <2>0, <2>1, <3>1, <3>2, <3>6, <3>7
  <2> QED BY <2>3, <2>4
<1> HIDE DEF Q
<1>5. t \in Q
  <2>1. Seq(Classes) \subseteq Q
    BY <1>3, <1>4, SeqInduction
  <2> QED BY <2>1 DEF Str
<1> QED BY <1>1, <1>2, <1>5 DEF Q

\* Join undoes Split.
LEMMA JoinSplit ==
    ASSUME NEW s \in Str
    PROVE  Join(Split(s)) = s
<1> DEFINE Q == {v \in Str : Join(Split(v)) = v}
<1>1. <<>> \in Q
  BY SplitLaws, JoinLaws, StrFacts
<1>2. ASSUME NEW v \in Seq(Classes), NEW c \in Classes, v \in Q PROVE Append(v, c) \in Q
  <2>0. v \in Str /\ Append(v, c) \in Str /\ Join(Split(v)) = v /\ Split(v) \in Parts
    BY <1>2, StrFacts, SplitLaws DEF Str
  <2>1. CASE c = "/"
    <3>1. Split(Append(v, c)) = Append(Split(v), <<>>)
      BY <2>0, <2>1, SplitLaws
    <3>2. Join(Append(Split(v), <<>>)) = v \o <<"/">> \o <<>>
      BY <2>0, JoinLaws, StrFacts
    <3>3. v \o <<"/">> \o <<>> = Append(v, c)
      BY <2>0, <2>1 DEF Str
    <3> QED BY <2>0, <3>1, <3>2, <3>3
  <2>2. CASE c # "/"
    <3>1. PICK f \in Seq(Str), x \in Str : Split(v) = Append(f, x) /\ Split(Append(v, c)) = Append(f, Append(x, c))
      BY <2>0, <2>2, SplitMore
    <3>2. Append(x, c) \in Str
      BY StrFacts
    <3>3. CASE f = <<>>
      <4>1. Append(f, x) = <<x>> /\ Append(f, Append(x, c)) = <<Append(x, c)>>
        BY <3>3
      <4>2. v = x
        BY <2>0, <3>1, <4>1, JoinLaws
      <4> QED BY <2>0, <3>1, <3>2, <4>1, <4>2, JoinLaws
    <3>4. CASE f # <<>>
      <4>1. f \in Parts
        BY <3>4 DEF Parts
      <4>2. PICK j \in Str : j = Join(f)
        BY <4>1, JoinLaws
      <4>3. v = j \o <<"/">> \o x
        BY <2>0, <3>1, <4>1, <4>2, JoinLaws
      <4>4. Join(Append(f, Append(x, c))) = j \o <<"/">> \o Append(x, c)
        BY <3>2, <4>1, <4>2, JoinLaws
      <4>5. j \o <<"/">> \o Append(x, c) = Append(j \o <<"/">> \o x, c)
        <5>1. PICK k \in Str : k = j \o <<"/">>
          BY StrFacts
        <5>2. k \o Append(x, c) = Append(k \o x, c)
          BY DEF Str
        <5> QED BY <5>1, <5>2
      <4> QED BY <2>0, <3>1, <4>3, <4>4, <4>5
    <3> QED BY <3>3, <3>4
  <2> QED BY <2>1, <2>2
<1> HIDE DEF Q
<1>3. Seq(Classes) \subseteq Q
  BY <1>1, <1>2, SeqInduction
<1> QED BY <1>3 DEF Q, Str

\* A text without a slash is one part.
LEMMA SplitPlain ==
    ASSUME NEW s \in Str, \A i \in 1 .. Len(s) : s[i] # "/"
    PROVE  Split(s) = <<s>>
<1> DEFINE Q == {v \in Str : (\A i \in 1 .. Len(v) : v[i] # "/") => Split(v) = <<v>>}
<1>1. <<>> \in Q
  BY SplitLaws, StrFacts
<1>2. ASSUME NEW v \in Seq(Classes), NEW c \in Classes, v \in Q PROVE Append(v, c) \in Q
  <2>0. v \in Str /\ Append(v, c) \in Str
    BY StrFacts DEF Str
  <2>1. (\A i \in 1 .. Len(Append(v, c)) : Append(v, c)[i] # "/") => Split(Append(v, c)) = <<Append(v, c)>>
    <3> SUFFICES ASSUME \A i \in 1 .. Len(Append(v, c)) : Append(v, c)[i] # "/"
                 PROVE  Split(Append(v, c)) = <<Append(v, c)>>
      OBVIOUS
    <3>1. Len(v) \in Nat /\ Len(Append(v, c)) = Len(v) + 1 /\ Append(v, c)[Len(v) + 1] = c
          /\ \A i \in 1 .. Len(v) : Append(v, c)[i] = v[i]
      OBVIOUS
    <3>2. c # "/"
      <4>1. Len(v) + 1 \in 1 .. Len(Append(v, c))
        BY <3>1
      <4> QED BY <3>1, <4>1
    <3>3. \A i \in 1 .. Len(v) : v[i] # "/"
      <4> SUFFICES ASSUME NEW i \in 1 .. Len(v) PROVE v[i] # "/"
        OBVIOUS
      <4>1. i \in 1 .. Len(Append(v, c))
        BY <3>1
      <4> QED BY <3>1, <4>1
    <3>4. Split(v) = <<v>>
      BY <1>2, <3>3
    <3>5. PICK f \in Seq(Str), x \in Str : Split(v) = Append(f, x) /\ Split(Append(v, c)) = Append(f, Append(x, c))
      BY <2>0, <3>2, SplitMore
    <3>6. f = <<>> /\ x = v
      BY <3>4, <3>5
    <3> QED BY <3>5, <3>6
  <2> HIDE DEF Q
  <2> QED BY <2>0, <2>1 DEF Q
<1> HIDE DEF Q
<1>3. Seq(Classes) \subseteq Q
  BY <1>1, <1>2, SeqInduction
<1> QED BY <1>3 DEF Q, Str

(***************************************************************************)
(* Walking                                                                 *)
(***************************************************************************)

\* The place outside the site's folder is no list of segments.
LEMMA OutsideIs == Outside \notin Seq(Str)
<1>1. "invalid" \notin Classes
  BY DEF Classes
<1>2. Invalid \notin Str
  <2>1. Len(Invalid) = 1 /\ Invalid[1] = "invalid"
    BY DEF Invalid
  <2> HIDE DEF Invalid
  <2>2. SUFFICES ASSUME Invalid \in Seq(Classes) PROVE FALSE
    BY DEF Str
  <2>3. Invalid[1] \in Classes
    BY <2>1, <2>2
  <2> QED BY <1>1, <2>1, <2>3
<1>3. Len(Outside) = 1 /\ Outside[1] = Invalid
  BY DEF Outside
<1> HIDE DEF Outside
<1>4. SUFFICES ASSUME Outside \in Seq(Str) PROVE FALSE
  OBVIOUS
<1>5. Outside[1] \in Str
  BY <1>3, <1>4
<1> QED BY <1>2, <1>3, <1>5

\* A walk along plain names arrives where they say.
LEMMA WalkPlain ==
    ASSUME NEW w \in Seq(Str), \A i \in 1 .. Len(w) : w[i] \notin {<<>>, <<".">>, <<".", ".">>}
    PROVE  WalkOf(w) = w
<1> DEFINE Plain(v) == \A i \in 1 .. Len(v) : v[i] \notin {<<>>, <<".">>, <<".", ".">>}
           Q == {v \in Seq(Str) : Plain(v) => WalkOf(v) = v}
<1>1. <<>> \in Q
  BY WalkLaws
<1>2. ASSUME NEW v \in Seq(Str), NEW x \in Str, v \in Q PROVE Append(v, x) \in Q
  <2>0. Append(v, x) \in Seq(Str)
    OBVIOUS
  <2>1. ASSUME Plain(Append(v, x)) PROVE WalkOf(Append(v, x)) = Append(v, x)
    <3>1. Len(v) \in Nat /\ Len(Append(v, x)) = Len(v) + 1 /\ Append(v, x)[Len(v) + 1] = x
          /\ \A i \in 1 .. Len(v) : Append(v, x)[i] = v[i]
      OBVIOUS
    <3>2. x \notin {<<>>, <<".">>, <<".", ".">>}
      <4>1. Len(v) + 1 \in 1 .. Len(Append(v, x))
        BY <3>1
      <4>2. Append(v, x)[Len(v) + 1] \notin {<<>>, <<".">>, <<".", ".">>}
        BY <2>1, <4>1
      <4> QED BY <3>1, <4>2
    <3>3. Plain(v)
      <4> SUFFICES ASSUME NEW i \in 1 .. Len(v) PROVE v[i] \notin {<<>>, <<".">>, <<".", ".">>}
        OBVIOUS
      <4>1. i \in 1 .. Len(Append(v, x))
        BY <3>1
      <4> QED BY <2>1, <3>1, <4>1
    <3>4. WalkOf(v) = v
      BY <1>2, <3>3
    <3>5. WalkOf(v) # Outside
      BY <3>4, OutsideIs
    <3> QED BY <3>2, <3>4, <3>5, WalkLaws
  <2> HIDE DEF Plain
  <2> QED BY <2>0, <2>1
<1> HIDE DEF Q
<1>3. Seq(Str) \subseteq Q
  BY <1>1, <1>2, SeqInduction
<1> QED BY <1>3 DEF Q

\* Two walks that have met go on together.
LEMMA WalkMore ==
    ASSUME NEW u \in Seq(Str), NEW v \in Seq(Str), WalkOf(u) = WalkOf(v), NEW x \in Str
    PROVE  WalkOf(Append(u, x)) = WalkOf(Append(v, x))
<1>1. IsStep(Places, Str, WalkStep, <<>>)
  BY WalkOfSteps
<1>2. ASSUME NEW w \in Seq(Str) PROVE WalkOf(Append(w, x)) = WalkStep[<<WalkOf(w), x>>]
  <2>0. Append(w, x) \in Seq(Str)
    OBVIOUS
  <2>1. PICK t \in Seq(Str) : t = Append(w, x)
    BY <2>0
  <2>2. WalkOf(t) = Folded(Places, Str, WalkStep, <<>>, t) /\ WalkOf(w) = Folded(Places, Str, WalkStep, <<>>, w)
    BY WalkOfIs
  <2>3. Folded(Places, Str, WalkStep, <<>>, Append(w, x)) = WalkStep[<<Folded(Places, Str, WalkStep, <<>>, w), x>>]
    BY <1>1, FoldedAppend
  <2> QED BY <2>1, <2>2, <2>3
<1>3. WalkOf(Append(u, x)) = WalkStep[<<WalkOf(u), x>>] /\ WalkOf(Append(v, x)) = WalkStep[<<WalkOf(v), x>>]
  BY <1>2
<1> QED BY <1>3

\* An empty segment is a step on the spot.
LEMMA WalkEmpty ==
    ASSUME NEW u \in Seq(Str)
    PROVE  WalkOf(Append(u, <<>>)) = WalkOf(u)
<1>1. PICK z \in Str : z = <<>>
  BY StrFacts
<1>2. WalkOf(Append(u, z)) = IF WalkOf(u) = Outside THEN Outside
                             ELSE IF z \in {<<>>, <<".">>} THEN WalkOf(u)
                             ELSE IF z = <<".", ".">> THEN (IF WalkOf(u) = <<>> THEN Outside ELSE Front(WalkOf(u)))
                             ELSE Append(WalkOf(u), z)
  BY WalkLaws
<1>3. z \in {<<>>, <<".">>}
  BY <1>1
<1>4. PICK h : h = WalkOf(u)
  OBVIOUS
<1>5. WalkOf(Append(u, z)) = IF h = Outside THEN Outside ELSE h
  BY <1>2, <1>3, <1>4
<1>6. WalkOf(Append(u, z)) = h
  BY <1>5
<1> QED BY <1>1, <1>4, <1>6

\* An empty segment in front changes no walk.
LEMMA WalkEmptyFirst ==
    ASSUME NEW z \in Str, z = <<>>, NEW e \in Seq(Str), e = <<z>>, NEW w \in Seq(Str)
    PROVE  WalkOf(e \o w) = WalkOf(w)
<1> DEFINE Q == {v \in Seq(Str) : WalkOf(e \o v) = WalkOf(v)}
<1>0. <<>> \in Seq(Str)
  OBVIOUS
<1>2. <<>> \in Q
  <2>1. e \o <<>> = Append(<<>>, z)
    OBVIOUS
  <2>2. WalkOf(Append(<<>>, z)) = WalkOf(<<>>)
    BY <1>0, WalkEmpty
  <2> QED BY <1>0, <2>1, <2>2
<1>3. ASSUME NEW v \in Seq(Str), NEW x \in Str, v \in Q PROVE Append(v, x) \in Q
  <2>1. e \o v \in Seq(Str) /\ Append(v, x) \in Seq(Str) /\ e \o Append(v, x) = Append(e \o v, x)
    OBVIOUS
  <2>2. WalkOf(e \o v) = WalkOf(v)
    BY <1>3
  <2>3. PICK u \in Seq(Str) : u = e \o v
    BY <2>1
  <2>4. WalkOf(Append(u, x)) = WalkOf(Append(v, x))
    BY <2>2, <2>3, WalkMore
  <2> QED BY <2>1, <2>3, <2>4
<1> HIDE DEF Q
<1>4. Seq(Str) \subseteq Q
  BY <1>2, <1>3, SeqInduction
<1> QED BY <1>4 DEF Q

\* A slash at either end changes no walk.
LEMMA WalkSlash ==
    ASSUME NEW s \in Str
    PROVE  Walk(<<"/">> \o s) = Walk(s) /\ Walk(Append(s, "/")) = Walk(s)
<1>1. PICK p \in Seq(Str) : p = Split(s)
  BY SplitLaws DEF Parts
<1>2. PICK z \in Str : z = <<>>
  BY StrFacts
<1>3. PICK e \in Seq(Str) : e = <<z>>
  <2>1. <<z>> \in Seq(Str)
    OBVIOUS
  <2> QED BY <2>1
<1>4. Split(<<"/">> \o s) = e \o p
  <2>1. Split(z \o <<"/">> \o s) = Split(z) \o Split(s)
    BY SplitConcat
  <2>2. Split(z) = e
    BY <1>2, <1>3, SplitLaws
  <2>3. z \o <<"/">> = <<"/">>
    BY <1>2
  <2> QED BY <1>1, <2>1, <2>2, <2>3
<1>5. Split(Append(s, "/")) = Append(p, z)
  BY <1>1, <1>2, SplitLaws, StrFacts
<1>6. WalkOf(Append(p, z)) = WalkOf(p)
  BY <1>2, WalkEmpty
<1>7. WalkOf(e \o p) = WalkOf(p)
  BY <1>2, <1>3, WalkEmptyFirst
<1> QED BY <1>1, <1>4, <1>5, <1>6, <1>7 DEF Walk

\* Sequences with the same elements in the same places are the same.
LEMMA SameSeq ==
    ASSUME NEW Y, NEW u \in Seq(Y), NEW v \in Seq(Y), Len(u) = Len(v), \A i \in 1 .. Len(u) : u[i] = v[i]
    PROVE  u = v
OBVIOUS

\* Nor do the slashes in front ...
LEMMA WalkFront ==
    ASSUME NEW s \in Str, NEW k \in 0 .. Len(s), \A i \in 1 .. k : s[i] = "/"
    PROVE  Walk(SubSeq(s, k + 1, Len(s))) = Walk(s)
<1>1. Len(s) \in Nat /\ s \in Seq(Classes)
  BY DEF Str
<1> DEFINE S == {n \in Nat : n <= k => Walk(SubSeq(s, n + 1, Len(s))) = Walk(s)}
<1>2. 0 \in S
  <2>1. SubSeq(s, 0 + 1, Len(s)) = s
    BY <1>1
  <2> HIDE DEF S
  <2> QED BY <2>1 DEF S
<1>3. ASSUME NEW n \in Nat, n \in S PROVE n + 1 \in S
  <2> SUFFICES ASSUME n + 1 <= k PROVE Walk(SubSeq(s, (n + 1) + 1, Len(s))) = Walk(s)
    OBVIOUS
  <2>1. PICK t : t = SubSeq(s, (n + 1) + 1, Len(s))
    OBVIOUS
  <2>2. t \in Str /\ Len(t) = Len(s) - (n + 1) /\ \A i \in 1 .. Len(t) : t[i] = s[i + (n + 1)]
    BY <1>1, <2>1 DEF Str
  <2>3. PICK u : u = SubSeq(s, n + 1, Len(s))
    OBVIOUS
  <2>4. u \in Str /\ Len(u) = Len(s) - n /\ \A i \in 1 .. Len(u) : u[i] = s[i + n]
    BY <1>1, <2>3 DEF Str
  <2>5. s[n + 1] = "/"
    BY <1>1
  <2>6. u = <<"/">> \o t
    <3>1. PICK v : v = <<"/">> \o t
      OBVIOUS
    <3>2. v \in Str /\ Len(v) = Len(t) + 1 /\ v[1] = "/" /\ \A i \in 2 .. Len(t) + 1 : v[i] = t[i - 1]
      BY <2>2, <3>1, StrFacts DEF Str
    <3>3. ASSUME NEW i \in 1 .. Len(u) PROVE u[i] = v[i]
      <4>1. CASE i = 1
        BY <1>1, <2>4, <2>5, <3>2, <4>1
      <4>2. CASE i # 1
        <5>1. i \in 2 .. Len(t) + 1 /\ i - 1 \in 1 .. Len(t) /\ (i - 1) + (n + 1) = i + n
          BY <1>1, <2>2, <2>4, <4>2
        <5> QED BY <2>2, <2>4, <3>2, <5>1
      <4> QED BY <4>1, <4>2
    <3>4. Len(u) = Len(v)
      BY <1>1, <2>2, <2>4, <3>2
    <3>5. u = v
      BY <2>4, <3>2, <3>3, <3>4, SameSeq DEF Str
    <3> QED BY <3>1, <3>5
  <2>7. Walk(u) = Walk(s)
    BY <1>3, <2>3
  <2>8. Walk(<<"/">> \o t) = Walk(t)
    BY <2>2, WalkSlash
  <2> QED BY <2>1, <2>6, <2>7, <2>8
<1> HIDE DEF S
<1>4. k \in S
  BY <1>1, <1>2, <1>3, NatSetInduction
<1> QED BY <1>1, <1>4 DEF S

\* ... and those at the end.
LEMMA WalkBack ==
    ASSUME NEW s \in Str, NEW k \in 0 .. Len(s), \A i \in k + 1 .. Len(s) : s[i] = "/"
    PROVE  Walk(SubSeq(s, 1, k)) = Walk(s)
<1>1. Len(s) \in Nat /\ s \in Seq(Classes)
  BY DEF Str
<1> DEFINE S == {n \in Nat : n <= Len(s) - k => Walk(SubSeq(s, 1, Len(s) - n)) = Walk(s)}
<1>2. 0 \in S
  <2>1. SubSeq(s, 1, Len(s) - 0) = s
    BY <1>1
  <2> QED BY <2>1
<1>3. ASSUME NEW n \in Nat, n \in S PROVE n + 1 \in S
  <2> SUFFICES ASSUME n + 1 <= Len(s) - k PROVE Walk(SubSeq(s, 1, Len(s) - (n + 1))) = Walk(s)
    OBVIOUS
  <2>1. PICK t : t = SubSeq(s, 1, Len(s) - (n + 1))
    OBVIOUS
  <2>2. t \in Str /\ Len(t) = Len(s) - (n + 1) /\ \A i \in 1 .. Len(t) : t[i] = s[i]
    BY <1>1, <2>1 DEF Str
  <2>3. PICK u : u = SubSeq(s, 1, Len(s) - n)
    OBVIOUS
  <2>4. u \in Str /\ Len(u) = Len(s) - n /\ \A i \in 1 .. Len(u) : u[i] = s[i]
    BY <1>1, <2>3 DEF Str
  <2>5. s[Len(s) - n] = "/"
    BY <1>1
  <2>6. u = Append(t, "/")
    <3>1. PICK v : v = Append(t, "/")
      OBVIOUS
    <3>2. v \in Str /\ Len(v) = Len(t) + 1 /\ v[Len(t) + 1] = "/" /\ \A i \in 1 .. Len(t) : v[i] = t[i]
      BY <2>2, <3>1, StrFacts DEF Str
    <3>3. ASSUME NEW i \in 1 .. Len(u) PROVE u[i] = v[i]
      <4>1. CASE i = Len(u)
        <5>1. i = Len(s) - n /\ i = Len(t) + 1
          BY <1>1, <2>2, <2>4, <4>1
        <5> QED BY <2>4, <2>5, <3>2, <5>1
      <4>2. CASE i # Len(u)
        <5>1. i \in 1 .. Len(t)
          BY <1>1, <2>2, <2>4, <4>2
        <5> QED BY <2>2, <2>4, <3>2, <5>1
      <4> QED BY <4>1, <4>2
    <3>4. Len(u) = Len(v)
      BY <1>1, <2>2, <2>4, <3>2
    <3>5. u = v
      BY <2>4, <3>2, <3>3, <3>4, SameSeq DEF Str
    <3> QED BY <3>1, <3>5
  <2>7. Walk(u) = Walk(s)
    BY <1>1, <1>3, <2>3
  <2>8. Walk(Append(t, "/")) = Walk(t)
    BY <2>2, WalkSlash
  <2> QED BY <2>1, <2>6, <2>7, <2>8
<1> HIDE DEF S
<1>4. Len(s) - k \in S
  BY <1>1, <1>2, <1>3, NatSetInduction
<1>5. Len(s) - (Len(s) - k) = k
  BY <1>1
<1> QED BY <1>1, <1>4, <1>5 DEF S

(***************************************************************************)
(* Stripping                                                               *)
(***************************************************************************)

\* The least and the greatest of some positions.
LEMMA Ends ==
    ASSUME NEW n \in Nat, NEW S \in SUBSET (1 .. n), S # {}
    PROVE  \E a, b \in S : \A i \in S : a <= i /\ i <= b
<1>1. PICK b \in S : \A i \in S : b >= i
  <2> DEFINE b == Max(S)
  <2>1. b \in S
    BY MaxIn
  <2>2. \E x \in S : \A y \in S : x >= y
    BY MaxExists
  <2>3. \A i \in S : b >= i
    BY <2>2 DEF Max
  <2> QED BY <2>1, <2>3
<1>2. PICK a \in S : \A i \in S : a <= i
  <2> DEFINE T == {n + 1 - i : i \in S}
  <2>1. T \in SUBSET (1 .. n) /\ T # {}
    OBVIOUS
  <2>2. PICK x \in T : \A y \in T : x >= y
    BY <2>1, MaxExists
  <2>3. PICK a \in S : x = n + 1 - a
    BY <2>2
  <2>4. \A i \in S : a <= i
    <3> SUFFICES ASSUME NEW i \in S PROVE a <= i
      OBVIOUS
    <3>1. n + 1 - i \in T
      OBVIOUS
    <3>2. x >= n + 1 - i
      BY <2>2, <3>1
    <3>3. a \in 1 .. n /\ i \in 1 .. n
      OBVIOUS
    <3> QED BY <2>3, <3>2, <3>3
  <2> QED BY <2>4
<1>3. \A i \in S : a <= i /\ i <= b
  <2>1. \A i \in S : i \in 1 .. n
    OBVIOUS
  <2>2. b \in 1 .. n
    OBVIOUS
  <2> QED BY <1>1, <1>2, <2>1, <2>2
<1> QED BY <1>3

\* What stripping leaves: nothing, or all from the first other character to the last.
LEMMA StrippedIs ==
    ASSUME NEW s \in Str, NEW c
    PROVE  \/ Stripped(s, c) = <<>> /\ \A i \in 1 .. Len(s) : s[i] = c
           \/ \E a \in 1 .. Len(s), b \in 1 .. Len(s) :
                  /\ a <= b /\ s[a] # c /\ s[b] # c
                  /\ \A i \in 1 .. Len(s) : i < a \/ i > b => s[i] = c
                  /\ Stripped(s, c) = SubSeq(s, a, b)
<1> DEFINE kept == {i \in DOMAIN s : s[i] # c}
<1>1. Len(s) \in Nat /\ DOMAIN s = 1 .. Len(s) /\ kept \in SUBSET (1 .. Len(s))
  BY DEF Str
<1>2. Stripped(s, c) = IF kept = {} THEN <<>>
                       ELSE SubSeq(s, CHOOSE i \in kept : \A j \in kept : i <= j, CHOOSE i \in kept : \A j \in kept : i >= j)
  BY DEF Stripped
<1>3. CASE kept = {}
  BY <1>1, <1>2, <1>3
<1>4. CASE kept # {}
  <2>0. \A i \in kept : i \in 1 .. Len(s) /\ s[i] # c
    BY <1>1
  <2>00. \A i \in 1 .. Len(s) : i \notin kept => s[i] = c
    BY <1>1
  <2> HIDE DEF kept
  <2>1. PICK x, y \in kept : \A i \in kept : x <= i /\ i <= y
    BY <1>1, <1>4, Ends
  <2>2. PICK a : a = CHOOSE i \in kept : \A j \in kept : i <= j
    OBVIOUS
  <2>3. PICK b : b = CHOOSE i \in kept : \A j \in kept : i >= j
    OBVIOUS
  <2>4. a \in kept /\ \A j \in kept : a <= j
    BY <2>1, <2>2
  <2>5. b \in kept /\ \A j \in kept : b >= j
    <3>1. \A i \in kept : y >= i
      BY <2>0, <2>1
    <3> QED BY <2>1, <2>3, <3>1
  <2>6. a \in 1 .. Len(s) /\ b \in 1 .. Len(s) /\ a <= b /\ s[a] # c /\ s[b] # c
    BY <2>0, <2>4, <2>5
  <2>7. \A i \in 1 .. Len(s) : i < a \/ i > b => s[i] = c
    <3> SUFFICES ASSUME NEW i \in 1 .. Len(s), i < a \/ i > b PROVE s[i] = c
      OBVIOUS
    <3>1. i \notin kept
      BY <2>0, <2>4, <2>5, <2>6
    <3> QED BY <2>00, <3>1
  <2>8. Stripped(s, c) = SubSeq(s, a, b)
    BY <1>2, <1>4, <2>2, <2>3
  <2> QED BY <2>6, <2>7, <2>8
<1> QED BY <1>3, <1>4

\* Part of a text.
LEMMA PartOf ==
    ASSUME NEW Y, NEW s \in Seq(Y), NEW a \in Nat, NEW b \in Nat, 1 <= a, a <= b + 1, b <= Len(s)
    PROVE  /\ SubSeq(s, a, b) \in Seq(Y) /\ Len(SubSeq(s, a, b)) = b + 1 - a
           /\ \A i \in 1 .. b + 1 - a : SubSeq(s, a, b)[i] = s[i + a - 1]
OBVIOUS

\* A text with other characters at both ends stays as it is.
LEMMA StrippedSame ==
    ASSUME NEW s \in Str, NEW c, s # <<>> => s[1] # c /\ s[Len(s)] # c
    PROVE  Stripped(s, c) = s
<1>1. Len(s) \in Nat /\ s \in Seq(Classes)
  BY DEF Str
<1>2. CASE s = <<>>
  <2>1. {i \in DOMAIN s : s[i] # c} = {}
    BY <1>2
  <2> QED BY <1>2, <2>1 DEF Stripped
<1>3. CASE s # <<>>
  <2>1. 1 \in 1 .. Len(s) /\ Len(s) \in 1 .. Len(s)
    BY <1>1, <1>3
  <2>2. PICK a \in 1 .. Len(s), b \in 1 .. Len(s) :
            /\ a <= b /\ s[a] # c /\ s[b] # c
            /\ \A i \in 1 .. Len(s) : i < a \/ i > b => s[i] = c
            /\ Stripped(s, c) = SubSeq(s, a, b)
    BY <1>3, <2>1, StrippedIs
  <2>3. a = 1
    BY <1>1, <1>3, <2>1, <2>2
  <2>4. b = Len(s)
    BY <1>1, <1>3, <2>1, <2>2
  <2>5. SubSeq(s, 1, Len(s)) = s
    BY <1>1
  <2> QED BY <2>2, <2>3, <2>4, <2>5
<1> QED BY <1>2, <1>3

\* t is the part of s behind its first n characters, or the beginning of it.
PartAt(t, s, n) == \A i \in 1 .. Len(t) : i + n \in 1 .. Len(s) /\ t[i] = s[i + n]

\* What is left is a text of the same characters, with others than c at its ends.
LEMMA StrippedKeeps ==
    ASSUME NEW s \in Str, NEW c
    PROVE  /\ Stripped(s, c) \in Str /\ Len(Stripped(s, c)) <= Len(s)
           /\ \A i \in 1 .. Len(Stripped(s, c)) : \E j \in 1 .. Len(s) : Stripped(s, c)[i] = s[j]
           /\ \E n \in Nat : PartAt(Stripped(s, c), s, n)
           /\ Stripped(s, c) # <<>> => Stripped(s, c)[1] # c /\ Stripped(s, c)[Len(Stripped(s, c))] # c
<1>1. Len(s) \in Nat /\ s \in Seq(Classes)
  BY DEF Str
<1>2. PICK t : t = Stripped(s, c)
  OBVIOUS
<1>3. /\ t \in Str /\ Len(t) <= Len(s)
      /\ \E n \in Nat : \A i \in 1 .. Len(t) : i + n \in 1 .. Len(s) /\ t[i] = s[i + n]
      /\ t # <<>> => t[1] # c /\ t[Len(t)] # c
  <2>1. CASE t = <<>>
    <3>1. t \in Str /\ Len(t) = 0 /\ 1 .. Len(t) = {} /\ 0 \in Nat
      BY <2>1, StrFacts
    <3> QED BY <1>1, <2>1, <3>1
  <2>2. CASE t # <<>>
    <3>1. PICK a \in 1 .. Len(s), b \in 1 .. Len(s) :
              a <= b /\ s[a] # c /\ s[b] # c /\ t = SubSeq(s, a, b)
      BY <1>2, <2>2, StrippedIs
    <3>2. a \in Nat /\ b \in Nat /\ 1 <= a /\ a <= b + 1 /\ b <= Len(s)
      BY <1>1, <3>1
    <3>3. t \in Seq(Classes) /\ Len(t) = b + 1 - a /\ \A i \in 1 .. b + 1 - a : t[i] = s[i + a - 1]
      BY <1>1, <3>1, <3>2, PartOf
    <3>4. t[1] = s[a] /\ t[Len(t)] = s[b]
      <4>1. 1 \in 1 .. b + 1 - a /\ b + 1 - a \in 1 .. b + 1 - a /\ 1 + a - 1 = a /\ (b + 1 - a) + a - 1 = b
        BY <3>1, <3>2
      <4> QED BY <3>3, <4>1
    <3>5. a - 1 \in Nat /\ \A i \in 1 .. Len(t) : i + (a - 1) \in 1 .. Len(s) /\ t[i] = s[i + (a - 1)]
      <4>1. a - 1 \in Nat
        BY <3>2
      <4>2. ASSUME NEW i \in 1 .. Len(t) PROVE i + (a - 1) \in 1 .. Len(s) /\ t[i] = s[i + (a - 1)]
        <5>1. i \in 1 .. b + 1 - a /\ i + a - 1 = i + (a - 1) /\ i + (a - 1) \in 1 .. Len(s)
          BY <1>1, <3>2, <3>3
        <5> QED BY <3>3, <5>1
      <4> QED BY <4>1, <4>2
    <3>6. Len(t) <= Len(s)
      BY <1>1, <3>2, <3>3
    <3> QED BY <3>1, <3>3, <3>4, <3>5, <3>6 DEF Str
  <2> QED BY <2>1, <2>2
<1>4. \A i \in 1 .. Len(t) : \E j \in 1 .. Len(s) : t[i] = s[j]
  <2>1. PICK n \in Nat : \A i \in 1 .. Len(t) : i + n \in 1 .. Len(s) /\ t[i] = s[i + n]
    BY <1>3
  <2> QED BY <2>1
<1>5. \E n \in Nat : PartAt(t, s, n)
  BY <1>3 DEF PartAt
<1> QED BY <1>2, <1>3, <1>4, <1>5

\* The slashes around a path lead nowhere.
LEMMA WalkStripped ==
    ASSUME NEW s \in Str
    PROVE  Walk(Stripped(s, "/")) = Walk(s)
<1>1. Len(s) \in Nat /\ s \in Seq(Classes)
  BY DEF Str
<1>2. CASE Stripped(s, "/") = <<>> /\ \A i \in 1 .. Len(s) : s[i] = "/"
  <2>1. SubSeq(s, 1, 0) = <<>>
    BY <1>1
  <2>2. 0 \in 0 .. Len(s) /\ \A i \in 0 + 1 .. Len(s) : s[i] = "/"
    BY <1>1, <1>2
  <2>3. Walk(SubSeq(s, 1, 0)) = Walk(s)
    BY <2>2, WalkBack
  <2> QED BY <1>2, <2>1, <2>3
<1>3. ASSUME NEW a \in 1 .. Len(s), NEW b \in 1 .. Len(s), a <= b,
             \A i \in 1 .. Len(s) : i < a \/ i > b => s[i] = "/",
             Stripped(s, "/") = SubSeq(s, a, b)
      PROVE  Walk(Stripped(s, "/")) = Walk(s)
  <2>1. PICK u : u = SubSeq(s, 1, b)
    OBVIOUS
  <2>2. u \in Str /\ Len(u) = b /\ \A i \in 1 .. b : u[i] = s[i]
    <3>1. b + 1 - 1 = b /\ \A i \in 1 .. b : i + 1 - 1 = i
      BY <1>1
    <3>2. u \in Seq(Classes) /\ Len(u) = b + 1 - 1 /\ \A i \in 1 .. b + 1 - 1 : u[i] = s[i + 1 - 1]
      BY <1>1, <2>1, PartOf
    <3> QED BY <3>1, <3>2 DEF Str
  <2>3. Walk(u) = Walk(s)
    <3>1. b \in 0 .. Len(s) /\ \A i \in b + 1 .. Len(s) : s[i] = "/"
      BY <1>1, <1>3
    <3> QED BY <2>1, <3>1, WalkBack
  <2>4. PICK k \in 0 .. Len(u) : k = a - 1
    BY <1>1, <1>3, <2>2
  <2>5. \A i \in 1 .. k : u[i] = "/"
    <3> SUFFICES ASSUME NEW i \in 1 .. k PROVE u[i] = "/"
      OBVIOUS
    <3>1. i \in 1 .. b /\ i < a /\ i \in 1 .. Len(s)
      BY <1>1, <1>3, <2>2, <2>4
    <3> QED BY <1>3, <2>2, <3>1
  <2>6. Walk(SubSeq(u, k + 1, Len(u))) = Walk(u)
    BY <2>2, <2>5, WalkFront
  <2>7. SubSeq(u, k + 1, Len(u)) = SubSeq(s, a, b)
    <3>1. PICK v, w : v = SubSeq(u, k + 1, Len(u)) /\ w = SubSeq(s, a, b)
      OBVIOUS
    <3>2. k + 1 = a /\ a \in Nat /\ b \in Nat /\ 1 <= a /\ a <= b + 1 /\ b <= Len(s) /\ b <= Len(u)
      BY <1>1, <1>3, <2>2, <2>4
    <3>3. v \in Seq(Classes) /\ Len(v) = b + 1 - a /\ \A i \in 1 .. b + 1 - a : v[i] = u[i + a - 1]
      <4>1. u \in Seq(Classes) /\ v = SubSeq(u, a, b)
        BY <2>2, <3>1, <3>2 DEF Str
      <4> QED BY <3>2, <4>1, PartOf
    <3>4. w \in Seq(Classes) /\ Len(w) = b + 1 - a /\ \A i \in 1 .. b + 1 - a : w[i] = s[i + a - 1]
      BY <1>1, <3>1, <3>2, PartOf
    <3>5. \A i \in 1 .. Len(v) : v[i] = w[i]
      <4> SUFFICES ASSUME NEW i \in 1 .. Len(v) PROVE v[i] = w[i]
        OBVIOUS
      <4>1. i \in 1 .. b + 1 - a /\ i + a - 1 \in 1 .. b
        BY <3>2, <3>3
      <4> QED BY <2>2, <3>3, <3>4, <4>1
    <3>6. v = w
      BY <3>3, <3>4, <3>5, SameSeq
    <3> QED BY <3>1, <3>6
  <2> QED BY <1>3, <2>3, <2>6, <2>7
<1> QED BY <1>2, <1>3, StrippedIs

(***************************************************************************)
(* Paths                                                                   *)
(***************************************************************************)

\* A path in the form the tiers accept.
Sound(p) ==
    /\ p \in Str
    /\ \A i \in 1 .. Len(p) : p[i] \notin {"BS", "NL"}
    /\ Len(p) <= PathMaxLength
    /\ \A i \in 1 .. Len(Split(p)) : SegmentOK(Split(p)[i])

\* What validate_site_path accepts is the stripped text, in that form.
LEMMA AcceptedIs ==
    ASSUME NEW s \in Str, ValidateSitePath(s) # Invalid
    PROVE  ValidateSitePath(s) = Stripped(s, "/") /\ Sound(Stripped(s, "/"))
<1>1. PICK p \in Str : p = Stripped(s, "/")
  BY StrippedKeeps
<1>2. Len(s) \in Nat /\ s \in Seq(Classes) /\ DOMAIN s = 1 .. Len(s)
  BY DEF Str
<1>3. Split(p) \in Seq(Str) /\ DOMAIN Split(p) = 1 .. Len(Split(p)) /\ Join(Split(p)) = p
  BY SplitLaws, JoinSplit DEF Parts
<1>4. /\ ~HasAny(s, {"BS", "NL"}) /\ ~(Len(p) > PathMaxLength)
      /\ ~\E i \in DOMAIN Split(p) : ~SegmentOK(Split(p)[i])
      /\ ValidateSitePath(s) = Join(Split(p))
  <2>1. ValidateSitePath(s) =
            IF \/ HasAny(s, {"BS", "NL"})
               \/ Len(p) > PathMaxLength
               \/ \E i \in DOMAIN Split(p) : ~SegmentOK(Split(p)[i])
            THEN Invalid ELSE Join(Split(p))
    BY <1>1 DEF ValidateSitePath
  <2> QED BY <2>1
<1>5. \A i \in 1 .. Len(p) : p[i] \notin {"BS", "NL"}
  <2>1. \A i \in 1 .. Len(p) : \E j \in 1 .. Len(s) : p[i] = s[j]
    <3>1. \A i \in 1 .. Len(Stripped(s, "/")) : \E j \in 1 .. Len(s) : Stripped(s, "/")[i] = s[j]
      BY StrippedKeeps
    <3> QED BY <1>1, <3>1
  <2>2. \A j \in 1 .. Len(s) : s[j] \notin {"BS", "NL"}
    BY <1>2, <1>4 DEF HasAny
  <2> QED BY <2>1, <2>2
<1>6. Len(p) <= PathMaxLength
  <2>1. Len(p) \in Nat /\ PathMaxLength \in Nat
    BY Lengths DEF Str
  <2> QED BY <1>4, <2>1
<1>7. Sound(p)
  BY <1>3, <1>4, <1>5, <1>6 DEF Sound
<1> QED BY <1>1, <1>3, <1>4, <1>7

\* No segment of such a path is empty.
LEMMA SoundSegments ==
    ASSUME NEW p, Sound(p)
    PROVE  /\ Split(p) \in Parts
           /\ \A i \in 1 .. Len(Split(p)) : Split(p)[i] \notin {<<>>, <<".">>, <<".", ".">>}
BY SplitLaws DEF Sound, SegmentOK

\* A slash in a text parts it in two.
LEMMA AtSlash ==
    ASSUME NEW p \in Str, NEW m \in 1 .. Len(p), p[m] = "/"
    PROVE  /\ SubSeq(p, 1, m - 1) \in Str /\ Len(SubSeq(p, 1, m - 1)) = m - 1
           /\ SubSeq(p, m + 1, Len(p)) \in Str /\ Len(SubSeq(p, m + 1, Len(p))) = Len(p) - m
           /\ \A i \in 1 .. m - 1 : SubSeq(p, 1, m - 1)[i] = p[i]
           /\ \A i \in 1 .. Len(p) - m : SubSeq(p, m + 1, Len(p))[i] = p[i + m]
           /\ p = SubSeq(p, 1, m - 1) \o <<"/">> \o SubSeq(p, m + 1, Len(p))
           /\ Split(p) = Split(SubSeq(p, 1, m - 1)) \o Split(SubSeq(p, m + 1, Len(p)))
<1>1. Len(p) \in Nat /\ p \in Seq(Classes) /\ m \in Nat /\ 1 <= m /\ m <= Len(p)
  BY DEF Str
<1>2. PICK s, t : s = SubSeq(p, 1, m - 1) /\ t = SubSeq(p, m + 1, Len(p))
  OBVIOUS
<1>3. s \in Seq(Classes) /\ Len(s) = m - 1 /\ \A i \in 1 .. m - 1 : s[i] = p[i]
  BY <1>1, <1>2
<1>4. t \in Seq(Classes) /\ Len(t) = Len(p) - m /\ \A i \in 1 .. Len(p) - m : t[i] = p[i + m]
  BY <1>1, <1>2
<1>5. p = s \o <<"/">> \o t
  <2>1. PICK u \in Seq(Classes) : u = s \o <<"/">>
    BY <1>3, StrFacts DEF Str
  <2>2. Len(u) = m /\ u[m] = "/" /\ \A i \in 1 .. m - 1 : u[i] = p[i]
    BY <1>1, <1>3, <2>1
  <2>3. PICK v : v = u \o t
    OBVIOUS
  <2>4. v \in Seq(Classes) /\ Len(v) = Len(p) /\ (\A i \in 1 .. m : v[i] = u[i]) /\ (\A i \in m + 1 .. Len(p) : v[i] = t[i - m])
    <3>0. t \in Seq(Classes) /\ u \in Seq(Classes)
      BY <1>4
    <3>1. v \in Seq(Classes) /\ Len(v) = Len(u) + Len(t)
      BY <2>3, <3>0
    <3>2. \A i \in 1 .. Len(u) : v[i] = u[i]
      BY <1>4, <2>1, <2>3
    <3>3. \A i \in Len(u) + 1 .. Len(u) + Len(t) : v[i] = t[i - Len(u)]
      BY <1>4, <2>1, <2>3
    <3>4. Len(u) = m /\ Len(u) + Len(t) = Len(p)
      BY <1>1, <1>4, <2>2
    <3> QED BY <3>1, <3>2, <3>3, <3>4
  <2>5. ASSUME NEW i \in 1 .. Len(p) PROVE p[i] = v[i]
    <3>1. CASE i < m
      <4>1. i \in 1 .. m - 1 /\ i \in 1 .. m
        BY <1>1, <3>1
      <4> QED BY <2>2, <2>4, <4>1
    <3>2. CASE i = m
      <4>1. i \in 1 .. m
        BY <1>1, <3>2
      <4> QED BY <2>2, <2>4, <3>2, <4>1
    <3>3. CASE i > m
      <4>1. i \in m + 1 .. Len(p) /\ i - m \in 1 .. Len(p) - m /\ (i - m) + m = i
        BY <1>1, <3>3
      <4> QED BY <1>4, <2>4, <4>1
    <3> QED BY <1>1, <3>1, <3>2, <3>3
  <2>6. p = v
    BY <1>1, <2>4, <2>5, SameSeq
  <2> QED BY <2>1, <2>3, <2>6
<1>6. Split(s \o <<"/">> \o t) = Split(s) \o Split(t)
  BY <1>3, <1>4, SplitConcat DEF Str
<1> QED BY <1>2, <1>3, <1>4, <1>5, <1>6 DEF Str

\* In an accepted path a slash stands between two names.
LEMMA SoundSlash ==
    ASSUME NEW p, Sound(p), NEW m \in 1 .. Len(p), p[m] = "/"
    PROVE  /\ 1 < m /\ m < Len(p) /\ p[m + 1] # "/"
           /\ Sound(SubSeq(p, 1, m - 1))
<1>0. p \in Str /\ p \in Seq(Classes) /\ Len(p) \in Nat /\ m \in Nat
  BY DEF Sound, Str
<1>1. PICK s, t : s = SubSeq(p, 1, m - 1) /\ t = SubSeq(p, m + 1, Len(p))
  OBVIOUS
<1>2. /\ s \in Str /\ Len(s) = m - 1 /\ \A i \in 1 .. m - 1 : s[i] = p[i]
      /\ t \in Str /\ Len(t) = Len(p) - m /\ \A i \in 1 .. Len(p) - m : t[i] = p[i + m]
      /\ Split(p) = Split(s) \o Split(t)
  BY <1>0, <1>1, AtSlash
<1>3. PICK f, g \in Parts : f = Split(s) /\ g = Split(t) /\ f \o g = Split(p)
  BY <1>2, SplitLaws
<1>4. /\ f \in Seq(Str) /\ g \in Seq(Str) /\ Len(f) \in Nat /\ Len(g) \in Nat /\ Len(f) >= 1 /\ Len(g) >= 1
      /\ Len(Split(p)) = Len(f) + Len(g)
      /\ \A i \in 1 .. Len(f) : f[i] = Split(p)[i]
      /\ \A i \in 1 .. Len(g) : g[i] = Split(p)[i + Len(f)]
  BY <1>3 DEF Parts
<1>5. \A i \in 1 .. Len(f) + Len(g) : SegmentOK(Split(p)[i])
  BY <1>4 DEF Sound
<1>6. /\ \A i \in 1 .. Len(f) : SegmentOK(f[i])
      /\ \A i \in 1 .. Len(g) : SegmentOK(g[i])
  <2>1. ASSUME NEW i \in 1 .. Len(f) PROVE SegmentOK(f[i])
    <3>1. i \in 1 .. Len(f) + Len(g)
      BY <1>4
    <3> QED BY <1>4, <1>5, <3>1
  <2>2. ASSUME NEW i \in 1 .. Len(g) PROVE SegmentOK(g[i])
    <3>1. i + Len(f) \in 1 .. Len(f) + Len(g)
      BY <1>4
    <3> QED BY <1>4, <1>5, <3>1
  <2> QED BY <2>1, <2>2
<1>7. f[1] # <<>> /\ g[1] # <<>>
  <2>1. 1 \in 1 .. Len(f) /\ 1 \in 1 .. Len(g)
    BY <1>4
  <2> QED BY <1>6, <2>1 DEF SegmentOK
<1>8. s # <<>> /\ t # <<>>
  <2>1. s = <<>> => f[1] = <<>>
    BY <1>3, SplitLaws
  <2>2. t = <<>> => g[1] = <<>>
    BY <1>3, SplitLaws
  <2> QED BY <1>7, <2>1, <2>2
<1>9. 1 < m /\ m < Len(p)
  <2>1. Len(s) # 0 /\ Len(t) # 0
    BY <1>2, <1>8 DEF Str
  <2> QED BY <1>0, <1>2, <2>1
<1>10. p[m + 1] # "/"
  <2>1. SUFFICES ASSUME p[m + 1] = "/" PROVE FALSE
    OBVIOUS
  <2>2. 1 \in 1 .. Len(t) /\ t[1] = "/"
    <3>1. 1 \in 1 .. Len(p) - m /\ 1 + m = m + 1
      BY <1>0, <1>9
    <3> QED BY <1>2, <2>1, <3>1
  <2>3. PICK v, w : v = SubSeq(t, 1, 1 - 1) /\ w = SubSeq(t, 1 + 1, Len(t))
    OBVIOUS
  <2>4. v \in Str /\ Len(v) = 1 - 1 /\ w \in Str /\ Split(t) = Split(v) \o Split(w)
    BY <1>2, <2>2, <2>3, AtSlash
  <2>5. v = <<>>
    BY <2>4 DEF Str
  <2>6. Split(v) = << <<>> >>
    BY <2>5, SplitLaws
  <2>7. g[1] = <<>>
    <3>1. PICK x, y \in Parts : x = Split(v) /\ y = Split(w)
      BY <2>4, SplitLaws
    <3>2. g = x \o y /\ x \in Seq(Str) /\ y \in Seq(Str) /\ Len(x) >= 1
      BY <1>3, <2>4, <3>1 DEF Parts
    <3>3. g[1] = x[1]
      BY <3>2
    <3> QED BY <2>6, <3>1, <3>3
  <2> QED BY <1>7, <2>7
<1>11. Sound(s)
  <2>1. ASSUME NEW i \in 1 .. Len(s) PROVE s[i] \notin {"BS", "NL"}
    <3>1. i \in 1 .. m - 1 /\ i \in 1 .. Len(p)
      BY <1>0, <1>2
    <3> QED BY <1>2, <3>1 DEF Sound
  <2>2. Len(s) <= PathMaxLength
    BY <1>0, <1>2, Lengths DEF Sound
  <2> QED BY <1>2, <1>3, <1>6, <2>1, <2>2 DEF Sound
<1> QED BY <1>1, <1>9, <1>10, <1>11

\* An accepted path is accepted as itself.
LEMMA SoundAccepted ==
    ASSUME NEW p, Sound(p)
    PROVE  p # <<>> /\ ValidateSitePath(p) = p
<1>0. p \in Str /\ p \in Seq(Classes) /\ Len(p) \in Nat /\ DOMAIN p = 1 .. Len(p)
  BY DEF Sound, Str
<1>1. p # <<>>
  <2>1. p = <<>> => Split(p)[1] = <<>> /\ 1 \in 1 .. Len(Split(p))
    BY SplitLaws
  <2> QED BY <2>1, SoundSegments
<1>2. p[1] # "/" /\ p[Len(p)] # "/"
  <2>1. 1 \in 1 .. Len(p) /\ Len(p) \in 1 .. Len(p)
    BY <1>0, <1>1
  <2>2. p[1] # "/"
    BY <1>0, <2>1, SoundSlash
  <2>3. p[Len(p)] # "/"
    BY <1>0, <2>1, SoundSlash
  <2> QED BY <2>2, <2>3
<1>3. Stripped(p, "/") = p
  BY <1>0, <1>2, StrippedSame
<1>4. ~HasAny(p, {"BS", "NL"})
  BY <1>0 DEF HasAny, Sound
<1>5. ~(Len(p) > PathMaxLength)
  BY <1>0, Lengths DEF Sound
<1>6. ~\E i \in DOMAIN Split(p) : ~SegmentOK(Split(p)[i])
  <2>1. DOMAIN Split(p) = 1 .. Len(Split(p))
    BY SoundSegments DEF Parts
  <2> QED BY <2>1 DEF Sound
<1>7. ValidateSitePath(p) = Join(Split(p))
  BY <1>3, <1>4, <1>5, <1>6 DEF ValidateSitePath
<1>8. Join(Split(p)) = p
  BY <1>0, JoinSplit
<1> QED BY <1>1, <1>7, <1>8

\* An accepted text has one canonical form (validate_site_path).
LEMMA TextIsCanonical ==
    ASSUME text \in Str
    PROVE  PathsAreCanonical
<1> SUFFICES ASSUME NEW path, path = ValidateSitePath(text), path # Invalid
             PROVE  /\ ValidateSitePath(path) = path
                    /\ Walk(path) = Split(path) /\ Walk(text) = Walk(path)
  BY DEF PathsAreCanonical
<1>1. path = Stripped(text, "/") /\ Sound(path)
  BY AcceptedIs
<1>2. ValidateSitePath(path) = path
  BY <1>1, SoundAccepted
<1>3. Walk(path) = Split(path)
  BY <1>1, SoundSegments, WalkPlain DEF Walk, Parts
<1>4. Walk(text) = Walk(path)
  BY <1>1, WalkStripped
<1> QED BY <1>2, <1>3, <1>4

\* What lies below the first n characters of a path, as of a folder.
LEMMA BelowIs ==
    ASSUME NEW p \in Str, NEW n \in 1 .. Len(p)
    PROVE  BelowFolder(p, SubSeq(p, 1, n)) <=> n + 1 < Len(p) /\ p[n + 1] = "/"
<1>1. Len(p) \in Nat /\ p \in Seq(Classes) /\ n \in Nat /\ 1 <= n /\ n <= Len(p)
  BY DEF Str
<1>2. PICK f : f = SubSeq(p, 1, n)
  OBVIOUS
<1>3. f \in Seq(Classes) /\ Len(f) = n /\ \A i \in 1 .. n : f[i] = p[i]
  BY <1>1, <1>2
<1>4. PICK g : g = f \o <<"/">>
  OBVIOUS
<1>5. g \in Seq(Classes) /\ Len(g) = n + 1 /\ g[n + 1] = "/" /\ \A i \in 1 .. n : g[i] = p[i]
  <2>1. g \in Seq(Classes)
    BY <1>3, <1>4, StrFacts DEF Str
  <2>2. Len(g) = n + 1 /\ g[n + 1] = "/"
    BY <1>1, <1>3, <1>4
  <2>3. \A i \in 1 .. n : g[i] = f[i]
    BY <1>1, <1>3, <1>4
  <2> QED BY <1>3, <2>1, <2>2, <2>3
<1>6. BelowFolder(p, f) <=> n + 1 <= Len(p) /\ g = SubSeq(p, 1, n + 1) /\ g # p
  <2>1. f # <<>>
    BY <1>1, <1>3
  <2>2. SubSeq(g, 1, Len(g)) = g
    BY <1>5
  <2>3. BelowFolder(p, f) <=> Len(g) <= Len(p) /\ SubSeq(g, 1, Len(g)) = SubSeq(p, 1, Len(g)) /\ g # p
    BY <1>4, <2>1 DEF BelowFolder, IsStrictPrefix, IsPrefix
  <2> QED BY <1>5, <2>2, <2>3
<1>7. ASSUME n + 1 <= Len(p), g = SubSeq(p, 1, n + 1), g # p
      PROVE  n + 1 < Len(p) /\ p[n + 1] = "/"
  <2>1. n + 1 # Len(p)
    <3>1. SubSeq(p, 1, Len(p)) = p
      BY <1>1
    <3> QED BY <1>7, <3>1
  <2>2. n + 1 \in 1 .. n + 1
    BY <1>1
  <2>3. SubSeq(p, 1, n + 1)[n + 1] = p[n + 1]
    BY <1>1, <1>7, <2>2
  <2> QED BY <1>1, <1>5, <1>7, <2>1, <2>3
<1>8. ASSUME n + 1 < Len(p), p[n + 1] = "/"
      PROVE  n + 1 <= Len(p) /\ g = SubSeq(p, 1, n + 1) /\ g # p
  <2>1. PICK h : h = SubSeq(p, 1, n + 1)
    OBVIOUS
  <2>2. h \in Seq(Classes) /\ Len(h) = n + 1 /\ \A i \in 1 .. n + 1 : h[i] = p[i]
    BY <1>1, <1>8, <2>1
  <2>3. \A i \in 1 .. Len(g) : g[i] = h[i]
    <3> SUFFICES ASSUME NEW i \in 1 .. Len(g) PROVE g[i] = h[i]
      OBVIOUS
    <3>1. i = n + 1 \/ i \in 1 .. n
      BY <1>1, <1>5
    <3>2. i \in 1 .. n + 1
      BY <1>5
    <3> QED BY <1>5, <1>8, <2>2, <3>1, <3>2
  <2>4. g = h
    BY <1>5, <2>2, <2>3, SameSeq
  <2>5. g # p
    BY <1>1, <1>5, <1>8
  <2> QED BY <1>1, <1>8, <2>1, <2>4, <2>5
<1> QED BY <1>2, <1>6, <1>7, <1>8

\* Nothing lies below a folder whose name is no shorter.
LEMMA BelowLonger ==
    ASSUME NEW q \in Str, NEW f \in Str, f # <<>>, Len(q) <= Len(f)
    PROVE  ~BelowFolder(q, f)
<1>1. Len(f \o <<"/">>) = Len(f) + 1 /\ Len(f) \in Nat /\ Len(q) \in Nat
  BY DEF Str
<1>2. ~(Len(f \o <<"/">>) <= Len(q))
  BY <1>1
<1> QED BY <1>2 DEF BelowFolder, IsStrictPrefix, IsPrefix

\* What lies in the folder itself.
LEMMA DirectlyIs ==
    ASSUME NEW p \in Str, NEW n \in 1 .. Len(p)
    PROVE  DirectlyIn(p, SubSeq(p, 1, n)) <=>
               n + 1 < Len(p) /\ p[n + 1] = "/" /\ \A i \in n + 2 .. Len(p) : p[i] # "/"
<1>1. Len(p) \in Nat /\ p \in Seq(Classes) /\ n \in Nat /\ 1 <= n /\ n <= Len(p)
  BY DEF Str
<1>2. PICK f : f = SubSeq(p, 1, n)
  OBVIOUS
<1>3. f # <<>> /\ Len(f) = n
  BY <1>1, <1>2
<1>4. DirectlyIn(p, f) <=> BelowFolder(p, f) /\ ~HasAny(SubSeq(p, n + 2, Len(p)), {"/"})
  BY <1>3 DEF DirectlyIn
<1>5. ASSUME n + 1 < Len(p)
      PROVE  ~HasAny(SubSeq(p, n + 2, Len(p)), {"/"}) <=> \A i \in n + 2 .. Len(p) : p[i] # "/"
  <2>1. PICK t : t = SubSeq(p, n + 2, Len(p))
    OBVIOUS
  <2>2. t \in Seq(Classes) /\ Len(t) = Len(p) - (n + 1) /\ \A i \in 1 .. Len(p) - (n + 1) : t[i] = p[i + (n + 1)]
    BY <1>1, <1>5, <2>1
  <2>3. HasAny(t, {"/"}) <=> \E i \in 1 .. Len(p) - (n + 1) : p[i + (n + 1)] = "/"
    <3>1. DOMAIN t = 1 .. Len(p) - (n + 1)
      BY <2>2
    <3> QED BY <2>2, <3>1 DEF HasAny
  <2>4. (\E i \in 1 .. Len(p) - (n + 1) : p[i + (n + 1)] = "/") <=> \E i \in n + 2 .. Len(p) : p[i] = "/"
    <3>1. ASSUME NEW i \in n + 2 .. Len(p), p[i] = "/" PROVE \E j \in 1 .. Len(p) - (n + 1) : p[j + (n + 1)] = "/"
      <4>1. i - (n + 1) \in 1 .. Len(p) - (n + 1) /\ (i - (n + 1)) + (n + 1) = i
        BY <1>1
      <4> QED BY <3>1, <4>1
    <3>2. ASSUME NEW j \in 1 .. Len(p) - (n + 1), p[j + (n + 1)] = "/" PROVE \E i \in n + 2 .. Len(p) : p[i] = "/"
      <4>1. j + (n + 1) \in n + 2 .. Len(p)
        BY <1>1
      <4> QED BY <3>2, <4>1
    <3> QED BY <3>1, <3>2
  <2> QED BY <2>1, <2>3, <2>4
<1> QED BY <1>2, <1>4, <1>5, BelowIs

\* The last slash of a text that has one.
LEMMA LastSlashIs ==
    ASSUME NEW p \in Str, Slashes(p) # {}
    PROVE  /\ LastSlash(p) \in 1 .. Len(p) /\ p[LastSlash(p)] = "/"
           /\ \A i \in 1 .. Len(p) : p[i] = "/" => i <= LastSlash(p)
<1>1. Len(p) \in Nat /\ DOMAIN p = 1 .. Len(p)
  BY DEF Str
<1>2. Slashes(p) \in SUBSET (1 .. Len(p)) /\ \A i \in 1 .. Len(p) : i \in Slashes(p) <=> p[i] = "/"
  BY <1>1 DEF Slashes
<1>3. PICK x \in Slashes(p) : \A y \in Slashes(p) : x >= y
  BY <1>1, <1>2, MaxExists
<1>4. \A y \in Slashes(p) : y <= x
  BY <1>1, <1>2, <1>3
<1>5. LastSlash(p) \in Slashes(p) /\ \A y \in Slashes(p) : y <= LastSlash(p)
  BY <1>3, <1>4 DEF LastSlash
<1> QED BY <1>2, <1>5

\* The parts of an accepted path, and where it lies.
LEMMA SoundParts ==
    ASSUME NEW p, Sound(p)
    PROVE  /\ p = IF PathParent(p) = <<>> THEN PathName(p) ELSE PathParent(p) \o <<"/">> \o PathName(p)
           /\ PathParent(p) = <<>> \/ ValidateSitePath(PathParent(p)) = PathParent(p)
           /\ \A n \in 0 .. Len(p) :
                  /\ DirectlyIn(p, SubSeq(p, 1, n)) <=> SubSeq(p, 1, n) = PathParent(p)
                  /\ BelowFolder(p, SubSeq(p, 1, n)) <=>
                         \/ SubSeq(p, 1, n) = PathParent(p)
                         \/ PathParent(p) # <<>> /\ BelowFolder(PathParent(p), SubSeq(p, 1, n))
<1>0. p \in Str /\ p \in Seq(Classes) /\ Len(p) \in Nat /\ DOMAIN p = 1 .. Len(p)
  BY DEF Sound, Str
<1>00. SubSeq(p, 1, 0) = <<>> /\ SubSeq(p, 1, Len(p)) = p
  BY <1>0
<1>01. HasAny(p, {"/"}) <=> Slashes(p) # {}
  BY DEF HasAny, Slashes
<1>02. BelowFolder(p, <<>>)
  BY DEF BelowFolder
<1>03. DirectlyIn(p, <<>>) <=> Slashes(p) = {}
  BY <1>00, <1>01, <1>02 DEF DirectlyIn
<1>1. CASE Slashes(p) = {}
  <2>1. PathParent(p) = <<>> /\ PathName(p) = p
    BY <1>1 DEF PathParent, PathName
  <2>2. \A i \in 1 .. Len(p) : p[i] # "/"
    BY <1>0, <1>1 DEF Slashes
  <2>3. ASSUME NEW n \in 0 .. Len(p)
        PROVE  /\ DirectlyIn(p, SubSeq(p, 1, n)) <=> SubSeq(p, 1, n) = PathParent(p)
               /\ BelowFolder(p, SubSeq(p, 1, n)) <=>
                      \/ SubSeq(p, 1, n) = PathParent(p)
                      \/ PathParent(p) # <<>> /\ BelowFolder(PathParent(p), SubSeq(p, 1, n))
    <3>1. CASE n = 0
      BY <1>00, <1>02, <1>03, <1>1, <2>1, <3>1
    <3>2. CASE n # 0
      <4>1. n \in 1 .. Len(p) /\ SubSeq(p, 1, n) # <<>>
        BY <1>0, <3>2
      <4>2. ~(n + 1 < Len(p) /\ p[n + 1] = "/")
        BY <1>0, <2>2, <4>1
      <4>3. ~BelowFolder(p, SubSeq(p, 1, n)) /\ ~DirectlyIn(p, SubSeq(p, 1, n))
        BY <1>0, <4>1, <4>2, BelowIs, DirectlyIs
      <4> QED BY <2>1, <4>1, <4>3
    <3> QED BY <3>1, <3>2
  <2> QED BY <2>1, <2>3
<1>2. CASE Slashes(p) # {}
  <2>1. PICK m \in 1 .. Len(p) : m = LastSlash(p) /\ p[m] = "/" /\ \A i \in 1 .. Len(p) : p[i] = "/" => i <= m
    BY <1>0, <1>2, LastSlashIs
  <2>2. PICK s, t : s = SubSeq(p, 1, m - 1) /\ t = SubSeq(p, m + 1, Len(p))
    OBVIOUS
  <2>3. PathParent(p) = s /\ PathName(p) = t
    BY <1>2, <2>1, <2>2 DEF PathParent, PathName
  <2>4. s \in Str /\ Len(s) = m - 1 /\ (\A i \in 1 .. m - 1 : s[i] = p[i]) /\ p = s \o <<"/">> \o t
    BY <1>0, <2>1, <2>2, AtSlash
  <2>5. 1 < m /\ m < Len(p) /\ Sound(s)
    BY <2>1, <2>2, SoundSlash
  <2>6. s # <<>> /\ ValidateSitePath(s) = s
    BY <2>5, SoundAccepted
  <2>7. ASSUME NEW n \in 0 .. Len(p)
        PROVE  /\ DirectlyIn(p, SubSeq(p, 1, n)) <=> SubSeq(p, 1, n) = s
               /\ BelowFolder(p, SubSeq(p, 1, n)) <=> SubSeq(p, 1, n) = s \/ BelowFolder(s, SubSeq(p, 1, n))
    <3>1. CASE n = 0
      <4>1. BelowFolder(s, <<>>)
        BY DEF BelowFolder
      <4> QED BY <1>00, <1>02, <1>03, <1>2, <2>6, <3>1, <4>1
    <3>2. CASE n # 0
      <4>1. n \in 1 .. Len(p)
        BY <1>0, <3>2
      <4>2. PICK f : f = SubSeq(p, 1, n)
        OBVIOUS
      <4>3. f \in Str /\ Len(f) = n /\ f # <<>>
        BY <1>0, <4>1, <4>2 DEF Str
      <4>4. f = s <=> n = m - 1
        <5>1. f = s => n = m - 1
          BY <2>4, <4>3
        <5>2. n = m - 1 => f = s
          BY <2>2, <4>2
        <5> QED BY <5>1, <5>2
      <4>5. BelowFolder(p, f) <=> n + 1 < Len(p) /\ p[n + 1] = "/"
        BY <1>0, <4>1, <4>2, BelowIs
      <4>6. DirectlyIn(p, f) <=> n + 1 < Len(p) /\ p[n + 1] = "/" /\ \A i \in n + 2 .. Len(p) : p[i] # "/"
        BY <1>0, <4>1, <4>2, DirectlyIs
      <4>7. CASE n + 1 = m
        <5>1. \A i \in n + 2 .. Len(p) : p[i] # "/"
          BY <1>0, <2>1, <2>5, <4>7
        <5> QED BY <2>1, <2>5, <4>2, <4>4, <4>5, <4>6, <4>7, <5>1
      <4>8. CASE n + 1 > m
        <5>1. ~(n + 1 < Len(p) /\ p[n + 1] = "/")
          BY <1>0, <2>1, <4>1, <4>8
        <5>2. ~BelowFolder(s, f)
          <6>1. Len(s) <= Len(f)
            BY <1>0, <2>1, <2>4, <4>1, <4>3, <4>8
          <6> QED BY <2>4, <4>3, <6>1, BelowLonger
        <5>3. n # m - 1
          BY <1>0, <2>1, <4>1, <4>8
        <5> QED BY <4>2, <4>4, <4>5, <4>6, <5>1, <5>2, <5>3
      <4>9. CASE n + 1 < m
        <5>1. n # m - 1 /\ n \in 1 .. Len(s) /\ n + 1 \in 1 .. Len(p) /\ n + 1 \in 1 .. m - 1
          BY <1>0, <2>1, <2>4, <4>1, <4>9
        <5>2. ~DirectlyIn(p, f)
          <6>1. m \in n + 2 .. Len(p)
            BY <1>0, <2>1, <4>1, <4>9
          <6> QED BY <2>1, <4>6, <6>1
        <5>3. f = SubSeq(s, 1, n)
          <6>1. PICK g : g = SubSeq(s, 1, n)
            OBVIOUS
          <6>2. g \in Seq(Classes) /\ Len(g) = n /\ \A i \in 1 .. n : g[i] = s[i]
            BY <2>4, <5>1, <6>1 DEF Str
          <6>3. \A i \in 1 .. n : f[i] = p[i]
            BY <1>0, <4>1, <4>2
          <6>4. \A i \in 1 .. n : i \in 1 .. m - 1
            BY <1>0, <2>1, <4>1, <4>9
          <6>5. \A i \in 1 .. Len(f) : f[i] = g[i]
            BY <2>4, <4>3, <6>2, <6>3, <6>4
          <6> QED BY <4>3, <6>1, <6>2, <6>5, SameSeq DEF Str
        <5>4. BelowFolder(s, f) <=> n + 1 < Len(s) /\ s[n + 1] = "/"
          BY <2>4, <5>1, <5>3, BelowIs
        <5>5. s[n + 1] = p[n + 1]
          BY <2>4, <5>1
        <5>6. p[n + 1] = "/" => n + 1 # m - 1
          <6>1. p[n + 1] = "/" => p[(n + 1) + 1] # "/"
            BY <5>1, SoundSlash
          <6> QED BY <1>0, <2>1, <4>1, <6>1
        <5>7. p[n + 1] = "/" => n + 1 < Len(s) /\ n + 1 < Len(p)
          BY <1>0, <2>1, <2>4, <4>1, <4>9, <5>6
        <5> QED BY <4>2, <4>4, <4>5, <5>1, <5>2, <5>4, <5>5, <5>7
      <4> QED BY <1>0, <2>1, <4>1, <4>7, <4>8, <4>9
    <3> QED BY <3>1, <3>2
  <2> QED BY <2>3, <2>4, <2>6, <2>7
<1> QED BY <1>1, <1>2

\* An accepted text's parent is the folder it lies in (path_parent, path_name).
LEMMA TextHasParents ==
    ASSUME text \in Str
    PROVE  ParentsAreFolders
<1>1. SUFFICES ASSUME ValidateSitePath(text) # Invalid PROVE ParentsAreFolders
  BY DEF ParentsAreFolders
<1>2. PICK p : p = ValidateSitePath(text)
  OBVIOUS
<1>3. Sound(p)
  BY <1>1, <1>2, AcceptedIs
<1>4. /\ p = IF PathParent(p) = <<>> THEN PathName(p) ELSE PathParent(p) \o <<"/">> \o PathName(p)
      /\ PathParent(p) = <<>> \/ ValidateSitePath(PathParent(p)) = PathParent(p)
      /\ \A n \in 0 .. Len(p) :
             /\ DirectlyIn(p, SubSeq(p, 1, n)) <=> SubSeq(p, 1, n) = PathParent(p)
             /\ BelowFolder(p, SubSeq(p, 1, n)) <=>
                    \/ SubSeq(p, 1, n) = PathParent(p)
                    \/ PathParent(p) # <<>> /\ BelowFolder(PathParent(p), SubSeq(p, 1, n))
  BY <1>3, SoundParts
<1> QED BY <1>2, <1>4 DEF ParentsAreFolders

(***************************************************************************)
(* Slugs                                                                   *)
(***************************************************************************)

\* A text of letters and hyphens with no two hyphens together.
Neat(s) == s \in Slugged /\ \A i \in 1 .. Len(s) - 1 : s[i] \in Alnum \/ s[i + 1] \in Alnum

\* Letters and hyphens are characters.
LEMMA SluggedIn == Slugged \subseteq Str
<1>1. {"a", "e", "-"} \subseteq Classes
  BY DEF Classes
<1> QED BY <1>1 DEF Slugged, Str

\* Hyphenated leaves no two hyphens together.
LEMMA HyphenatedNeat ==
    ASSUME NEW s \in Str
    PROVE  Neat(Hyphenated(s))
<1> DEFINE Q == {v \in Str : Neat(Hyphenated(v))}
<1>1. <<>> \in Q
  <2>1. <<>> \in Slugged /\ Len(<<>>) = 0
    BY DEF Slugged
  <2>2. Neat(<<>>)
    BY <2>1 DEF Neat
  <2> QED BY <2>2, HyphenLaws, StrFacts
<1>2. ASSUME NEW v \in Seq(Classes), NEW c \in Classes, v \in Q PROVE Append(v, c) \in Q
  <2>0. v \in Str /\ Append(v, c) \in Str
    BY StrFacts DEF Str
  <2>1. PICK h : h = Hyphenated(v)
    OBVIOUS
  <2>2. h \in Slugged /\ Neat(h) /\ Len(h) \in Nat
    BY <1>2, <2>0, <2>1, HyphenLaws DEF Slugged
  <2>3. Hyphenated(Append(v, c)) = IF c \in Alnum THEN Append(h, c)
                                   ELSE IF h # <<>> /\ Last(h) = "-" THEN h ELSE Append(h, "-")
    BY <2>0, <2>1, HyphenLaws
  <2>4. ASSUME NEW x \in {"a", "e", "-"}, x \in Alnum \/ h = <<>> \/ Last(h) # "-" PROVE Neat(Append(h, x))
    <3>1. PICK k : k = Append(h, x)
      OBVIOUS
    <3>2. k \in Slugged /\ Len(k) = Len(h) + 1 /\ k[Len(h) + 1] = x /\ \A i \in 1 .. Len(h) : k[i] = h[i]
      BY <2>2, <3>1 DEF Slugged
    <3>3. \A i \in 1 .. Len(h) : h[i] \in {"a", "e", "-"}
      BY <2>2 DEF Slugged
    <3>4. ASSUME NEW i \in 1 .. Len(k) - 1 PROVE k[i] \in Alnum \/ k[i + 1] \in Alnum
      <4>1. i \in 1 .. Len(h)
        BY <2>2, <3>2
      <4>2. CASE i = Len(h)
        <5>1. h # <<>> /\ Last(h) = h[i]
          BY <2>2, <4>1, <4>2 DEF Last
        <5> QED BY <2>4, <3>2, <3>3, <4>1, <4>2, <5>1
      <4>3. CASE i # Len(h)
        <5>1. i \in 1 .. Len(h) - 1 /\ i + 1 \in 1 .. Len(h)
          BY <2>2, <4>1, <4>3
        <5> QED BY <2>2, <3>2, <4>1, <5>1 DEF Neat
      <4> QED BY <4>2, <4>3
    <3> QED BY <3>1, <3>2, <3>4 DEF Neat
  <2>5. Neat(Hyphenated(Append(v, c)))
    <3>1. CASE c \in Alnum
      BY <2>3, <2>4, <3>1
    <3>2. CASE c \notin Alnum /\ h # <<>> /\ Last(h) = "-"
      BY <2>2, <2>3, <3>2
    <3>3. CASE c \notin Alnum /\ ~(h # <<>> /\ Last(h) = "-")
      BY <2>3, <2>4, <3>3
    <3> QED BY <3>1, <3>2, <3>3
  <2> QED BY <2>0, <2>5
<1> HIDE DEF Q
<1>3. Seq(Classes) \subseteq Q
  BY <1>1, <1>2, SeqInduction
<1> QED BY <1>3 DEF Q, Str

\* Letters and hyphens stay as they are ...
LEMMA AsciiSame ==
    ASSUME NEW s \in Slugged
    PROVE  Ascii(s) = s
<1> DEFINE Q == {v \in Slugged : Ascii(v) = v}
<1>1. <<>> \in Q
  BY AsciiLaws DEF Slugged
<1>2. ASSUME NEW v \in Seq({"a", "e", "-"}), NEW c \in {"a", "e", "-"}, v \in Q PROVE Append(v, c) \in Q
  <2>1. v \in Slugged /\ v \in Str /\ Append(v, c) \in Slugged /\ c \in Classes /\ Ascii(v) = v
    BY <1>2, SluggedIn DEF Slugged, Classes
  <2>2. c # "W" /\ c # "A" /\ c # "e'"
    OBVIOUS
  <2>3. Ascii(Append(v, c)) = Append(v, c)
    BY <2>1, <2>2, AsciiLaws
  <2> QED BY <2>1, <2>3
<1> HIDE DEF Q
<1>3. Seq({"a", "e", "-"}) \subseteq Q
  BY <1>1, <1>2, SeqInduction
<1> QED BY <1>3 DEF Q, Slugged

\* ... and so does a neat text of them.
LEMMA HyphenatedSame ==
    ASSUME NEW s, Neat(s)
    PROVE  Hyphenated(s) = s
<1> DEFINE Q == {v \in Slugged : Neat(v) => Hyphenated(v) = v}
<1>1. <<>> \in Q
  BY HyphenLaws DEF Slugged
<1>2. ASSUME NEW v \in Seq({"a", "e", "-"}), NEW c \in {"a", "e", "-"}, v \in Q PROVE Append(v, c) \in Q
  <2>1. v \in Slugged /\ v \in Str /\ Append(v, c) \in Slugged /\ c \in Classes /\ Len(v) \in Nat
    BY SluggedIn DEF Slugged, Classes
  <2>2. ASSUME Neat(Append(v, c)) PROVE Hyphenated(Append(v, c)) = Append(v, c)
    <3>1. PICK k : k = Append(v, c)
      OBVIOUS
    <3>2. Len(k) = Len(v) + 1 /\ k[Len(v) + 1] = c /\ \A i \in 1 .. Len(v) : k[i] = v[i]
      BY <3>1
    <3>3. \A i \in 1 .. Len(k) - 1 : k[i] \in Alnum \/ k[i + 1] \in Alnum
      BY <2>2, <3>1 DEF Neat
    <3>4. Neat(v)
      <4>1. ASSUME NEW i \in 1 .. Len(v) - 1 PROVE v[i] \in Alnum \/ v[i + 1] \in Alnum
        <5>1. i \in 1 .. Len(k) - 1 /\ i \in 1 .. Len(v) /\ i + 1 \in 1 .. Len(v)
          BY <2>1, <3>2
        <5> QED BY <3>2, <3>3, <5>1
      <4> QED BY <2>1, <4>1 DEF Neat
    <3>5. Hyphenated(v) = v
      BY <1>2, <3>4
    <3>6. c \notin Alnum => v = <<>> \/ Last(v) # "-"
      <4>1. SUFFICES ASSUME c \notin Alnum, v # <<>> PROVE Last(v) # "-"
        OBVIOUS
      <4>2. Len(v) \in 1 .. Len(k) - 1 /\ Len(v) \in 1 .. Len(v)
        BY <2>1, <3>2, <4>1
      <4>3. v[Len(v)] \in Alnum
        BY <3>2, <3>3, <4>1, <4>2
      <4> QED BY <4>3 DEF Last
    <3>7. Hyphenated(Append(v, c)) = IF c \in Alnum THEN Append(v, c)
                                     ELSE IF v # <<>> /\ Last(v) = "-" THEN v ELSE Append(v, "-")
      BY <2>1, <3>5, HyphenLaws
    <3> QED BY <3>6, <3>7
  <2> QED BY <2>1, <2>2
<1> HIDE DEF Q
<1>3. Seq({"a", "e", "-"}) \subseteq Q
  BY <1>1, <1>2, SeqInduction
<1> QED BY <1>3 DEF Q, Neat, Slugged

\* A part of a neat text is neat.
LEMMA NeatPart ==
    ASSUME NEW s, Neat(s), NEW t \in Str, NEW n \in Nat, PartAt(t, s, n)
    PROVE  Neat(t)
<1>1. /\ Len(s) \in Nat /\ Len(t) \in Nat /\ t \in Seq(Classes)
      /\ \A i \in 1 .. Len(s) : s[i] \in {"a", "e", "-"}
      /\ \A i \in 1 .. Len(s) - 1 : s[i] \in Alnum \/ s[i + 1] \in Alnum
  BY DEF Neat, Slugged, Str
<1>0. \A i \in 1 .. Len(t) : i + n \in 1 .. Len(s) /\ t[i] = s[i + n]
  BY DEF PartAt
<1>2. \A i \in 1 .. Len(t) : t[i] \in {"a", "e", "-"}
  BY <1>0, <1>1
<1>3. t \in Slugged
  BY <1>1, <1>2 DEF Slugged
<1>4. ASSUME NEW i \in 1 .. Len(t) - 1 PROVE t[i] \in Alnum \/ t[i + 1] \in Alnum
  <2>1. i \in 1 .. Len(t) /\ i + 1 \in 1 .. Len(t)
    BY <1>1
  <2>2. t[i] = s[i + n] /\ t[i + 1] = s[(i + 1) + n] /\ i + n \in 1 .. Len(s) /\ (i + 1) + n \in 1 .. Len(s)
    BY <1>0, <2>1
  <2>3. (i + 1) + n = (i + n) + 1 /\ i + n \in 1 .. Len(s) - 1
    BY <1>1, <2>2
  <2> QED BY <1>1, <2>2, <2>3
<1> QED BY <1>3, <1>4 DEF Neat

\* Stripping hyphens from a neat text leaves one that begins and ends with a letter.
LEMMA NeatStripped ==
    ASSUME NEW s, Neat(s)
    PROVE  /\ Neat(Stripped(s, "-")) /\ Len(Stripped(s, "-")) <= Len(s)
           /\ Stripped(s, "-") # <<>> => Stripped(s, "-")[1] \in Alnum /\ Stripped(s, "-")[Len(Stripped(s, "-"))] \in Alnum
<1>1. s \in Str
  BY SluggedIn DEF Neat
<1>2. PICK t : t = Stripped(s, "-")
  OBVIOUS
<1>3. /\ t \in Str /\ Len(t) <= Len(s)
      /\ \E n \in Nat : PartAt(t, s, n)
      /\ t # <<>> => t[1] # "-" /\ t[Len(t)] # "-"
  <2>1. Stripped(s, "-") \in Str /\ Len(Stripped(s, "-")) <= Len(s)
    BY <1>1, StrippedKeeps
  <2>2. \E n \in Nat : PartAt(Stripped(s, "-"), s, n)
    BY <1>1, StrippedKeeps
  <2>3. Stripped(s, "-") # <<>> => Stripped(s, "-")[1] # "-" /\ Stripped(s, "-")[Len(Stripped(s, "-"))] # "-"
    BY <1>1, StrippedKeeps
  <2> QED BY <1>2, <2>1, <2>2, <2>3
<1>4. Neat(t)
  BY <1>3, NeatPart
<1>5. t # <<>> => t[1] \in Alnum /\ t[Len(t)] \in Alnum
  <2>1. SUFFICES ASSUME t # <<>> PROVE t[1] \in Alnum /\ t[Len(t)] \in Alnum
    OBVIOUS
  <2>2. \A i \in 1 .. Len(t) : t[i] \in {"a", "e", "-"}
    BY <1>4 DEF Neat, Slugged
  <2>3. 1 \in 1 .. Len(t) /\ Len(t) \in 1 .. Len(t)
    BY <1>3, <2>1 DEF Str
  <2> QED BY <1>3, <2>1, <2>2, <2>3
<1> QED BY <1>2, <1>3, <1>4, <1>5

\* The cut of a text to the length of a slug.
Cut(s) == SubSeq(s, 1, IF Len(s) < SlugMaxLength THEN Len(s) ELSE SlugMaxLength)

\* It is a beginning of the text, the whole of it where that is short.
LEMMA CutIs ==
    ASSUME NEW s \in Slugged
    PROVE  /\ Cut(s) \in Slugged /\ Len(Cut(s)) <= SlugMaxLength /\ Len(Cut(s)) <= Len(s)
           /\ \A i \in 1 .. Len(Cut(s)) : Cut(s)[i] = s[i]
           /\ Len(s) <= SlugMaxLength => Cut(s) = s
<1>1. Len(s) \in Nat /\ SlugMaxLength \in Nat /\ s \in Seq({"a", "e", "-"})
  BY Lengths DEF Slugged
<1>2. PICK n \in Nat : n = IF Len(s) < SlugMaxLength THEN Len(s) ELSE SlugMaxLength
  BY <1>1
<1>3. n <= Len(s) /\ n <= SlugMaxLength /\ (Len(s) <= SlugMaxLength => n = Len(s))
  BY <1>1, <1>2
<1>4. PICK t : t = SubSeq(s, 1, n)
  OBVIOUS
<1>5. t \in Seq({"a", "e", "-"}) /\ Len(t) = n /\ \A i \in 1 .. n : t[i] = s[i]
  BY <1>1, <1>3, <1>4
<1>6. Len(s) <= SlugMaxLength => t = s
  BY <1>1, <1>3, <1>4
<1>7. t = Cut(s)
  BY <1>2, <1>4 DEF Cut
<1> QED BY <1>3, <1>5, <1>6, <1>7 DEF Slugged

\* What slug_from_name makes of a name.
LEMMA SlugIs ==
    ASSUME NEW s, SlugFromName(s) # Invalid
    PROVE  SlugFromName(s) = Stripped(Cut(Stripped(Hyphenated(Ascii(s)), "-")), "-") /\ SlugFromName(s) # <<>>
<1>1. PICK whole : whole = Stripped(Hyphenated(Ascii(s)), "-")
  OBVIOUS
<1>2. SlugFromName(s) = IF Stripped(Cut(whole), "-") = <<>> THEN Invalid ELSE Stripped(Cut(whole), "-")
  BY <1>1 DEF SlugFromName, Cut
<1> QED BY <1>1, <1>2

\* A slug of a name: neat, with a letter at both ends, and short enough.
LEMMA SlugShaped ==
    ASSUME NEW s \in Str, SlugFromName(s) # Invalid
    PROVE  /\ Neat(SlugFromName(s)) /\ SlugFromName(s) # <<>> /\ Len(SlugFromName(s)) <= SlugMaxLength
           /\ SlugFromName(s)[1] \in Alnum /\ SlugFromName(s)[Len(SlugFromName(s))] \in Alnum
<1>1. Ascii(s) \in Str
  BY AsciiLaws
<1>2. PICK whole : whole = Stripped(Hyphenated(Ascii(s)), "-")
  OBVIOUS
<1>3. Neat(whole)
  BY <1>1, <1>2, HyphenatedNeat, NeatStripped
<1>4. PICK cut : cut = Cut(whole)
  OBVIOUS
<1>5. Neat(cut) /\ Len(cut) <= SlugMaxLength
  <2>1. whole \in Slugged /\ Len(whole) \in Nat
    BY <1>3 DEF Neat, Slugged
  <2>2. /\ cut \in Slugged /\ Len(cut) <= SlugMaxLength /\ Len(cut) <= Len(whole)
        /\ \A i \in 1 .. Len(cut) : cut[i] = whole[i]
    BY <1>4, <2>1, CutIs
  <2>3. cut \in Str /\ Len(cut) \in Nat
    BY <2>2, SluggedIn DEF Slugged
  <2>4. 0 \in Nat /\ PartAt(cut, whole, 0)
    <3> SUFFICES ASSUME NEW i \in 1 .. Len(cut) PROVE i + 0 \in 1 .. Len(whole) /\ cut[i] = whole[i + 0]
      BY DEF PartAt
    <3>1. i + 0 = i /\ i \in 1 .. Len(whole)
      BY <2>1, <2>2, <2>3
    <3> QED BY <2>2, <3>1
  <2>5. Neat(cut)
    BY <1>3, <2>3, <2>4, NeatPart
  <2> QED BY <2>2, <2>5
<1>6. PICK slug : slug = Stripped(cut, "-")
  OBVIOUS
<1>7. SlugFromName(s) = slug /\ slug # <<>>
  BY <1>2, <1>4, <1>6, SlugIs
<1>8. Neat(slug) /\ Len(slug) <= Len(cut) /\ slug[1] \in Alnum /\ slug[Len(slug)] \in Alnum
  BY <1>5, <1>6, <1>7, NeatStripped
<1>9. Len(slug) <= SlugMaxLength
  BY <1>5, <1>8, Lengths DEF Neat, Slugged
<1> QED BY <1>7, <1>8, <1>9

\* Letters and hyphens, and what is spelled, a character more.
LEMMA SpelledMore ==
    ASSUME NEW w \in Str, NEW c \in {"a", "e", "-"}
    PROVE  Spelled(Append(w, c)) = IF c \in Alnum THEN Append(Spelled(w), c) ELSE Spelled(w)
<1>1. c \in Classes
  BY DEF Classes
<1> QED BY <1>1, SpelledLaws

\* Neither the ASCII form nor the hyphens change what a name spells.
LEMMA SpelledHyphenated ==
    ASSUME NEW s \in Str
    PROVE  Spelled(Hyphenated(Ascii(s))) = Spelled(s)
<1> DEFINE Q == {v \in Str : Spelled(Hyphenated(Ascii(v))) = Spelled(v)}
<1>1. <<>> \in Q
  BY AsciiLaws, HyphenLaws, StrFacts
<1>2. ASSUME NEW v \in Seq(Classes), NEW c \in Classes, v \in Q PROVE Append(v, c) \in Q
  <2>0. v \in Str /\ Append(v, c) \in Str
    BY StrFacts DEF Str
  <2>1. PICK x \in Str : x = Ascii(v)
    BY <2>0, AsciiLaws
  <2>2. PICK h \in Slugged : h = Hyphenated(x)
    BY HyphenLaws
  <2>3. h \in Str /\ Spelled(h) = Spelled(v)
    BY <1>2, <2>1, <2>2, SluggedIn
  <2>4. CASE c = "W"
    <3>1. Ascii(Append(v, c)) = x
      BY <2>0, <2>1, <2>4, AsciiLaws
    <3>2. Spelled(Append(v, c)) = Spelled(v)
      BY <2>0, <2>4, SpelledLaws
    <3> QED BY <2>0, <2>2, <2>3, <3>1, <3>2
  <2>5. CASE c # "W"
    <3>1. PICK d : d = IF c = "A" THEN "a" ELSE IF c = "e'" THEN "e" ELSE c
      OBVIOUS
    <3>2. d \in Classes
      BY <3>1 DEF Classes
    <3>3. Ascii(Append(v, c)) = Append(x, d)
      BY <2>0, <2>1, <2>5, <3>1, AsciiLaws
    <3>4. Hyphenated(Append(x, d)) = IF d \in Alnum THEN Append(h, d)
                                     ELSE IF h # <<>> /\ Last(h) = "-" THEN h ELSE Append(h, "-")
      BY <2>2, <3>2, HyphenLaws
    <3>5. Spelled(Append(v, c)) = IF d \in Alnum THEN Append(Spelled(v), d) ELSE Spelled(v)
      BY <2>0, <3>1, SpelledLaws
    <3>6. Spelled(Append(h, "-")) = Spelled(h) /\ (d \in Alnum => Spelled(Append(h, d)) = Append(Spelled(h), d))
      BY <2>3, SpelledMore
    <3> QED BY <2>0, <2>3, <3>3, <3>4, <3>5, <3>6
  <2> QED BY <2>4, <2>5
<1> HIDE DEF Q
<1>3. Seq(Classes) \subseteq Q
  BY <1>1, <1>2, SeqInduction
<1> QED BY <1>3 DEF Q, Str

\* A character at the end of two texts is one at the end of the second.
LEMMA AppendConcat ==
    ASSUME NEW a \in Str, NEW b \in Str, NEW x \in Classes
    PROVE  Append(a \o b, x) = a \o Append(b, x)
<1>1. a \in Seq(Classes) /\ b \in Seq(Classes)
  BY DEF Str
<1> QED BY <1>1

\* What two texts spell, one behind the other.
LEMMA SpelledConcat ==
    ASSUME NEW u \in Str, NEW t \in Str
    PROVE  Spelled(u \o t) = Spelled(u) \o Spelled(t)
<1>0. PICK a \in Str : a = Spelled(u)
  BY SpelledLaws
<1> DEFINE Q == {v \in Str : Spelled(u \o v) = a \o Spelled(v)}
<1>1. <<>> \in Q
  <2>1. u \o <<>> = u /\ a \o <<>> = a
    BY DEF Str
  <2> QED BY <1>0, <2>1, SpelledLaws, StrFacts
<1>2. ASSUME NEW v \in Seq(Classes), NEW c \in Classes, v \in Q PROVE Append(v, c) \in Q
  <2>0. v \in Str /\ Append(v, c) \in Str /\ u \o v \in Str
    BY StrFacts DEF Str
  <2>1. u \o Append(v, c) = Append(u \o v, c)
    BY DEF Str
  <2>2. PICK b \in Str : b = Spelled(v)
    BY <2>0, SpelledLaws
  <2>3. Spelled(u \o v) = a \o b
    BY <1>2, <2>2
  <2>4. Append(a \o b, "a") = a \o Append(b, "a") /\ Append(a \o b, "e") = a \o Append(b, "e")
    <3>1. \A x \in Classes : Append(a \o b, x) = a \o Append(b, x)
      BY AppendConcat
    <3>2. "a" \in Classes /\ "e" \in Classes
      BY DEF Classes
    <3> QED BY <3>1, <3>2
  <2>5. Spelled(Append(v, c)) = IF c \in {"a", "A"} THEN Append(b, "a")
                                ELSE IF c \in {"e", "e'"} THEN Append(b, "e") ELSE b
    BY <2>0, <2>2, SpelledLaws
  <2>6. Spelled(Append(u \o v, c)) = IF c \in {"a", "A"} THEN Append(a \o b, "a")
                                     ELSE IF c \in {"e", "e'"} THEN Append(a \o b, "e") ELSE a \o b
    BY <2>0, <2>3, SpelledLaws
  <2> QED BY <2>0, <2>1, <2>4, <2>5, <2>6
<1> HIDE DEF Q
<1>3. Seq(Classes) \subseteq Q
  BY <1>1, <1>2, SeqInduction
<1> QED BY <1>0, <1>3 DEF Q, Str

\* Hyphens spell nothing.
LEMMA SpelledNone ==
    ASSUME NEW s \in Str, \A i \in 1 .. Len(s) : s[i] = "-"
    PROVE  Spelled(s) = <<>>
<1> DEFINE Q == {v \in Str : (\A i \in 1 .. Len(v) : v[i] = "-") => Spelled(v) = <<>>}
<1>1. <<>> \in Q
  BY SpelledLaws, StrFacts
<1>2. ASSUME NEW v \in Seq(Classes), NEW c \in Classes, v \in Q PROVE Append(v, c) \in Q
  <2>0. v \in Str /\ Append(v, c) \in Str
    BY StrFacts DEF Str
  <2>1. ASSUME \A i \in 1 .. Len(Append(v, c)) : Append(v, c)[i] = "-" PROVE Spelled(Append(v, c)) = <<>>
    <3>1. c = "-" /\ \A i \in 1 .. Len(v) : v[i] = "-"
      BY <2>1
    <3>2. Spelled(v) = <<>>
      BY <1>2, <3>1
    <3> QED BY <2>0, <3>1, <3>2, SpelledLaws
  <2> QED BY <2>0, <2>1
<1> HIDE DEF Q
<1>3. Seq(Classes) \subseteq Q
  BY <1>1, <1>2, SeqInduction
<1> QED BY <1>3 DEF Q, Str

\* A text is its beginning and the rest.
LEMMA TwoParts ==
    ASSUME NEW s \in Str, NEW n \in Nat, n <= Len(s)
    PROVE  /\ SubSeq(s, 1, n) \in Str /\ SubSeq(s, n + 1, Len(s)) \in Str
           /\ s = SubSeq(s, 1, n) \o SubSeq(s, n + 1, Len(s))
<1>1. Len(s) \in Nat /\ s \in Seq(Classes)
  BY DEF Str
<1>2. PICK u, v : u = SubSeq(s, 1, n) /\ v = SubSeq(s, n + 1, Len(s))
  OBVIOUS
<1>3. u \in Seq(Classes) /\ Len(u) = n /\ \A i \in 1 .. n : u[i] = s[i]
  BY <1>1, <1>2
<1>4. v \in Seq(Classes) /\ Len(v) = Len(s) - n /\ \A i \in 1 .. Len(s) - n : v[i] = s[i + n]
  BY <1>1, <1>2
<1>5. PICK w : w = u \o v
  OBVIOUS
<1>6. w \in Seq(Classes) /\ Len(w) = Len(s)
  <2>1. w \in Seq(Classes) /\ Len(w) = Len(u) + Len(v)
    BY <1>3, <1>4, <1>5
  <2> QED BY <1>1, <1>3, <1>4, <2>1
<1>7. ASSUME NEW i \in 1 .. Len(s) PROVE s[i] = w[i]
  <2>1. CASE i <= n
    BY <1>1, <1>3, <1>4, <1>5, <2>1
  <2>2. CASE i > n
    <3>1. w[i] = v[i - n] /\ i - n \in 1 .. Len(s) - n /\ (i - n) + n = i
      BY <1>1, <1>3, <1>4, <1>5, <2>2
    <3> QED BY <1>4, <3>1
  <2> QED BY <1>1, <2>1, <2>2
<1>8. s = w
  BY <1>1, <1>6, <1>7, SameSeq
<1> QED BY <1>2, <1>3, <1>4, <1>5, <1>8 DEF Str

\* Stripping hyphens changes nothing of what a text spells.
LEMMA SpelledStripped ==
    ASSUME NEW s \in Str
    PROVE  Spelled(Stripped(s, "-")) = Spelled(s)
<1>1. Len(s) \in Nat /\ s \in Seq(Classes)
  BY DEF Str
<1>2. CASE Stripped(s, "-") = <<>> /\ \A i \in 1 .. Len(s) : s[i] = "-"
  BY <1>2, SpelledNone, SpelledLaws
<1>3. CASE \E a \in 1 .. Len(s), b \in 1 .. Len(s) :
              /\ a <= b /\ s[a] # "-" /\ s[b] # "-"
              /\ \A i \in 1 .. Len(s) : i < a \/ i > b => s[i] = "-"
              /\ Stripped(s, "-") = SubSeq(s, a, b)
  <2>1. PICK a \in 1 .. Len(s), b \in 1 .. Len(s) :
              /\ a <= b
              /\ \A i \in 1 .. Len(s) : i < a \/ i > b => s[i] = "-"
              /\ Stripped(s, "-") = SubSeq(s, a, b)
    BY <1>3
  <2>2. PICK u, v, w : u = SubSeq(s, 1, a - 1) /\ v = SubSeq(s, a, b) /\ w = SubSeq(s, b + 1, Len(s))
    OBVIOUS
  <2>3. u \in Str /\ v \in Str /\ w \in Str /\ u \o v \in Str
    <3>1. u \in Seq(Classes)
      BY <1>1, <2>1, <2>2
    <3>2. v \in Seq(Classes)
      BY <1>1, <2>1, <2>2
    <3>3. w \in Seq(Classes)
      BY <1>1, <2>1, <2>2
    <3> QED BY <3>1, <3>2, <3>3 DEF Str
  <2>4. s = (u \o v) \o w
    <3>1. SubSeq(s, 1, b) = u \o v
      BY <1>1, <2>1, <2>2
    <3>2. s = SubSeq(s, 1, b) \o w
      BY <1>1, <2>1, <2>2, TwoParts
    <3> QED BY <3>1, <3>2
  <2>5. (\A i \in 1 .. Len(u) : u[i] = "-") /\ (\A i \in 1 .. Len(w) : w[i] = "-")
    <3>1. Len(u) = a - 1 /\ \A i \in 1 .. a - 1 : u[i] = s[i]
      BY <1>1, <2>1, <2>2
    <3>2. Len(w) = Len(s) - b /\ \A i \in 1 .. Len(s) - b : w[i] = s[i + b]
      BY <1>1, <2>1, <2>2
    <3>3. ASSUME NEW i \in 1 .. Len(u) PROVE u[i] = "-"
      BY <1>1, <2>1, <3>1
    <3>4. ASSUME NEW i \in 1 .. Len(w) PROVE w[i] = "-"
      <4>1. i + b \in 1 .. Len(s) /\ i + b > b
        BY <1>1, <2>1, <3>2
      <4> QED BY <2>1, <3>2, <4>1
    <3> QED BY <3>3, <3>4
  <2>6. Spelled(u) = <<>> /\ Spelled(w) = <<>>
    BY <2>3, <2>5, SpelledNone
  <2>7. Spelled(s) = (Spelled(u) \o Spelled(v)) \o Spelled(w)
    BY <2>3, <2>4, SpelledConcat
  <2>8. PICK x \in Str : x = Spelled(v)
    BY <2>3, SpelledLaws
  <2>9. (<<>> \o x) \o <<>> = x
    BY DEF Str
  <2> QED BY <2>1, <2>2, <2>6, <2>7, <2>8, <2>9
<1> QED BY <1>2, <1>3, StrippedIs

\* The cut of a name spells a beginning of it, and leaves, once its hyphens are stripped, at most
\* one character less than a slug may have.
LEMMA CutSpells ==
    ASSUME NEW s, Neat(s), s # <<>> => s[1] \in Alnum
    PROVE  /\ IsPrefix(Spelled(Cut(s)), Spelled(s))
           /\ Spelled(Cut(s)) = Spelled(s) \/ Len(Stripped(Cut(s), "-")) >= SlugMaxLength - 1
<1>1. /\ s \in Slugged /\ s \in Str /\ Len(s) \in Nat /\ SlugMaxLength \in Nat \ {0, 1}
      /\ \A i \in 1 .. Len(s) - 1 : s[i] \in Alnum \/ s[i + 1] \in Alnum
  BY SluggedIn, Lengths DEF Neat, Slugged
<1>2. CASE Len(s) <= SlugMaxLength
  <2>1. Cut(s) = s
    BY <1>1, <1>2, CutIs
  <2>2. PICK x \in Str : x = Spelled(s)
    BY <1>1, SpelledLaws
  <2>3. IsPrefix(x, x)
    BY DEF IsPrefix, Str
  <2> QED BY <2>1, <2>2, <2>3
<1>3. CASE Len(s) > SlugMaxLength
  <2>1. PICK n \in Nat : n = SlugMaxLength
    BY <1>1
  <2>2. n < Len(s) /\ n >= 2
    BY <1>1, <1>3, <2>1
  <2>3. PICK c, r : c = SubSeq(s, 1, n) /\ r = SubSeq(s, n + 1, Len(s))
    OBVIOUS
  <2>4. c = Cut(s)
    BY <1>1, <2>1, <2>2, <2>3 DEF Cut
  <2>5. c \in Str /\ r \in Str /\ s = c \o r
    <3>1. n <= Len(s)
      BY <1>1, <2>2
    <3> QED BY <1>1, <2>3, <3>1, TwoParts
  <2>6. Len(c) = n /\ \A i \in 1 .. n : c[i] = s[i]
    BY <1>1, <2>2, <2>3 DEF Str
  <2>7. IsPrefix(Spelled(c), Spelled(s))
    <3>1. PICK x \in Str, y \in Str : x = Spelled(c) /\ y = Spelled(r)
      BY <2>5, SpelledLaws
    <3>2. Spelled(s) = x \o y
      BY <2>5, <3>1, SpelledConcat
    <3>3. IsPrefix(x, x \o y)
      BY DEF IsPrefix, Str
    <3> QED BY <3>1, <3>2, <3>3
  <2>8. Len(Stripped(c, "-")) >= n - 1
    <3>1. c[1] \in Alnum /\ (c[n - 1] \in Alnum \/ c[n] \in Alnum)
      <4>1. s # <<>> /\ 1 \in 1 .. n /\ n \in 1 .. n /\ n - 1 \in 1 .. n /\ n - 1 \in 1 .. Len(s) - 1 /\ (n - 1) + 1 = n
        BY <1>1, <2>2
      <4>2. s[n - 1] \in Alnum \/ s[n] \in Alnum
        BY <1>1, <4>1
      <4> QED BY <2>6, <4>1, <4>2
    <3>2. c[1] # "-" /\ (c[n - 1] # "-" \/ c[n] # "-")
      BY <3>1
    <3>3. 1 \in 1 .. Len(c) /\ n \in 1 .. Len(c) /\ n - 1 \in 1 .. Len(c)
      BY <2>2, <2>6
    <3>4. PICK a \in 1 .. Len(c), b \in 1 .. Len(c) :
              /\ a <= b
              /\ \A i \in 1 .. Len(c) : i < a \/ i > b => c[i] = "-"
              /\ Stripped(c, "-") = SubSeq(c, a, b)
      <4>1. ~\A i \in 1 .. Len(c) : c[i] = "-"
        BY <3>2, <3>3
      <4>2. \/ Stripped(c, "-") = <<>> /\ \A i \in 1 .. Len(c) : c[i] = "-"
            \/ \E a \in 1 .. Len(c), b \in 1 .. Len(c) :
                  /\ a <= b /\ c[a] # "-" /\ c[b] # "-"
                  /\ \A i \in 1 .. Len(c) : i < a \/ i > b => c[i] = "-"
                  /\ Stripped(c, "-") = SubSeq(c, a, b)
        <5>1. c \in Str
          BY <2>5
        <5> QED BY ONLY <5>1, StrippedIs
      <4> QED BY <4>1, <4>2
    <3>5. a = 1
      BY <2>6, <3>2, <3>3, <3>4
    <3>6. b >= n - 1
      BY <2>2, <2>6, <3>2, <3>3, <3>4
    <3>7. Len(SubSeq(c, 1, b)) = b
      BY <2>5, <2>6, <3>4 DEF Str
    <3> QED BY <3>4, <3>5, <3>6, <3>7
  <2> QED BY <2>1, <2>4, <2>7, <2>8
<1> QED BY <1>1, <1>2, <1>3

\* What the slug of a name spells.
LEMMA SlugSpells ==
    ASSUME NEW s \in Str, NEW slug, slug = Stripped(Cut(Stripped(Hyphenated(Ascii(s)), "-")), "-")
    PROVE  /\ slug \in Str
           /\ IsPrefix(Spelled(slug), Spelled(s))
           /\ Spelled(slug) = Spelled(s) \/ Len(slug) >= SlugMaxLength - 1
<1>1. Ascii(s) \in Str
  BY AsciiLaws
<1>2. PICK h : h = Hyphenated(Ascii(s))
  OBVIOUS
<1>3. Neat(h) /\ h \in Str /\ Spelled(h) = Spelled(s)
  BY <1>1, <1>2, HyphenatedNeat, SpelledHyphenated, SluggedIn DEF Neat
<1>4. PICK whole : whole = Stripped(h, "-")
  OBVIOUS
<1>5. Neat(whole) /\ (whole # <<>> => whole[1] \in Alnum) /\ Spelled(whole) = Spelled(s)
  BY <1>3, <1>4, NeatStripped, SpelledStripped
<1>6. PICK cut : cut = Cut(whole)
  OBVIOUS
<1>7. cut \in Str
  BY <1>5, <1>6, CutIs, SluggedIn DEF Neat
<1>8. slug = Stripped(cut, "-")
  BY <1>2, <1>4, <1>6
<1>9. slug \in Str
  BY <1>7, <1>8, StrippedKeeps
<1>10. Spelled(slug) = Spelled(cut)
  BY <1>7, <1>8, SpelledStripped
<1> QED BY <1>5, <1>6, <1>8, <1>9, <1>10, CutSpells

\* Only a name that spells nothing has no slug.
LEMMA NoSlug ==
    ASSUME NEW s \in Str, SlugFromName(s) = Invalid
    PROVE  Spelled(s) = <<>>
<1>1. PICK slug : slug = Stripped(Cut(Stripped(Hyphenated(Ascii(s)), "-")), "-")
  OBVIOUS
<1>2. PICK whole : whole = Stripped(Hyphenated(Ascii(s)), "-")
  OBVIOUS
<1>3. SlugFromName(s) = IF Stripped(Cut(whole), "-") = <<>> THEN Invalid ELSE Stripped(Cut(whole), "-")
  BY <1>2 DEF SlugFromName, Cut
<1>4. slug \in Str /\ (Spelled(slug) = Spelled(s) \/ Len(slug) >= SlugMaxLength - 1)
  BY <1>1, SlugSpells
<1>5. Invalid \notin Str
  BY DEF Invalid, Str, Classes
<1>6. slug = <<>>
  BY <1>1, <1>2, <1>3, <1>4, <1>5
<1>7. ~(Len(<<>>) >= SlugMaxLength - 1)
  BY Lengths
<1> QED BY <1>4, <1>6, <1>7, SpelledLaws

\* A slug of the text is one the routes accept (slug_from_name, validate_slug).
LEMMA TextHasSlug ==
    ASSUME text \in Str
    PROVE  SlugsAreSlugs
<1>0. SlugFromName(text) = Invalid => Spelled(text) = <<>>
  BY NoSlug
<1> SUFFICES ASSUME NEW slug, slug = SlugFromName(text), slug # Invalid
             PROVE  /\ SlugShape(slug) /\ ValidateSlug(slug) = slug
                    /\ SlugFromName(slug) = slug
                    /\ IsPrefix(Spelled(slug), Spelled(text))
                    /\ Spelled(slug) = Spelled(text) \/ Len(slug) >= SlugMaxLength - 1
                    /\ \A i \in 1 .. Len(slug) - 1 : slug[i] \in Alnum \/ slug[i + 1] \in Alnum
  BY <1>0 DEF SlugsAreSlugs
<1>1. Neat(slug) /\ slug # <<>> /\ Len(slug) <= SlugMaxLength /\ slug[1] \in Alnum /\ slug[Len(slug)] \in Alnum
  BY SlugShaped
<1>2. /\ slug \in Slugged /\ slug \in Str /\ Len(slug) \in Nat /\ DOMAIN slug = 1 .. Len(slug)
      /\ \A i \in 1 .. Len(slug) : slug[i] \in {"a", "e", "-"}
      /\ \A i \in 1 .. Len(slug) - 1 : slug[i] \in Alnum \/ slug[i + 1] \in Alnum
  BY <1>1, SluggedIn DEF Neat, Slugged
<1>3. SlugShape(slug)
  <2>1. Len(slug) \in 1 .. SlugMaxLength
    BY <1>1, <1>2, Lengths
  <2>2. Head(slug) = slug[1] /\ Last(slug) = slug[Len(slug)]
    BY <1>1, <1>2 DEF Last, Slugged
  <2> QED BY <1>1, <1>2, <2>1, <2>2 DEF SlugShape
<1>4. ValidateSlug(slug) = slug
  BY <1>3 DEF ValidateSlug, SlugMatches
<1>5. SlugFromName(slug) = slug
  <2>1. Hyphenated(Ascii(slug)) = slug
    BY <1>1, <1>2, AsciiSame, HyphenatedSame
  <2>2. Stripped(slug, "-") = slug
    BY <1>1, <1>2, StrippedSame
  <2>3. Cut(slug) = slug
    BY <1>1, <1>2, CutIs
  <2>4. SlugFromName(slug) = IF slug = <<>> THEN Invalid ELSE slug
    <3>1. PICK whole : whole = Stripped(Hyphenated(Ascii(slug)), "-")
      OBVIOUS
    <3>2. SlugFromName(slug) = IF Stripped(Cut(whole), "-") = <<>> THEN Invalid ELSE Stripped(Cut(whole), "-")
      BY <3>1 DEF SlugFromName, Cut
    <3> QED BY <2>1, <2>2, <2>3, <3>1, <3>2
  <2> QED BY <1>1, <2>4
<1>6. IsPrefix(Spelled(slug), Spelled(text)) /\ (Spelled(slug) = Spelled(text) \/ Len(slug) >= SlugMaxLength - 1)
  BY SlugIs, SlugSpells
<1> QED BY <1>2, <1>3, <1>4, <1>5, <1>6

(***************************************************************************)
(* Every text that can be typed                                            *)
(***************************************************************************)

\* A typed text is a sequence of the characters.
LEMMA TextsAreTexts == Texts => [](text \in Seq(Chars))
<1>1. NoText => text \in Seq(Chars)
  BY DEF NoText
<1>2. text \in Seq(Chars) /\ [Typing]_text => (text \in Seq(Chars))'
  BY DEF Typing, Type
<1> QED BY <1>1, <1>2, PTL DEF Texts

\* The characters are of the classes.
LEMMA CharsAreClasses == text \in Seq(Chars) => text \in Str
<1>1. Chars \subseteq Classes
  BY Alphabet
<1> QED BY <1>1 DEF Str

\* For every alphabet, every limit and every name typed: the slug derived from
\* it has the shape the routes accept, is accepted, is derived from itself,
\* doubles no hyphen and spells the name as far as the limit lets it, and only
\* a name with nothing to spell has none (slug_from_name, validate_slug).
THEOREM SlugsFit == Texts => []SlugsAreSlugs
<1>1. text \in Seq(Chars) => SlugsAreSlugs
  BY CharsAreClasses, TextHasSlug
<1> QED BY <1>1, TextsAreTexts, PTL

\* For every text sent: an accepted path is accepted as itself, and the file
\* system finds what it names (validate_site_path).
THEOREM PathsCanonical == Texts => []PathsAreCanonical
<1>1. text \in Seq(Chars) => PathsAreCanonical
  BY CharsAreClasses, TextIsCanonical
<1> QED BY <1>1, TextsAreTexts, PTL

\* For every accepted path: its parent and name make it up, and the tiers'
\* questions about what lies in and below a folder agree with them
\* (path_parent, path_name, db._below, files_in_folder).
THEOREM FoldersHoldPaths == Texts => []ParentsAreFolders
<1>1. text \in Seq(Chars) => ParentsAreFolders
  BY CharsAreClasses, TextHasParents
<1> QED BY <1>1, TextsAreTexts, PTL
=============================================================================
