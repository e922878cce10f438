--------------------------- MODULE WritingProofs ---------------------------
(***************************************************************************)
(* Proofs about Writing, for every value of its constants: that a button's *)
(* data reads back, that the parts of a mail hold it, and that Telegram    *)
(* reads a notification as it was meant.                                   *)
(*                                                                         *)
(* FoldLeft and FlattenSeq are defined by recursion over sets of indexes.   *)
(* The first sections bring both to Fold, whose step is a function, and     *)
(* prove what a fold does with a sequence that is appended to; induction    *)
(* over sequences is by their lengths. The sections after them give each    *)
(* operator of Texts its laws in these terms. The three theorems are        *)
(* EveryButtonReadsBack, PartsHoldTheText and NotificationReadsBack.        *)
(***************************************************************************)
EXTENDS Writing, SequenceTheorems, WellFoundedInduction, TLAPS

-----------------------------------------------------------------------------
(* Induction over a set of numbers, and over a set of sequences.            *)
LEMMA NatInduct ==
    ASSUME NEW T, 0 \in T, \A n \in Nat : n \in T => n + 1 \in T
    PROVE  Nat \subseteq T
  <1> DEFINE below == OpToRel(<, Nat)
             out == Nat \ T
  <1> SUFFICES ASSUME out # {} PROVE FALSE
    OBVIOUS
  <1>1. \A i, j \in Nat : i < j => <<i, j>> \in below
    BY DEF OpToRel
  <1>2. IsWellFoundedOn(below, Nat)
    BY NatLessThanWellFounded
  <1> HIDE DEF below
  <1>3. PICK n \in out : \A k \in out : <<k, n>> \notin below
    BY <1>2, WFMin
  <1>4. n # 0 /\ n - 1 \in Nat /\ n - 1 < n
    BY <1>3
  <1>5. n - 1 \notin out
    BY <1>1, <1>3, <1>4
  <1>6. QED
    BY <1>3, <1>4, <1>5

(* What holds of the empty sequence and of each that is appended to, holds   *)
(* of all.                                                                   *)
LEMMA SeqInduct ==
    ASSUME NEW S, NEW T, <<>> \in T,
           \A s \in Seq(S) : \A e \in S : s \in T => Append(s, e) \in T
    PROVE  Seq(S) \subseteq T
  <1> DEFINE N == {n \in Nat : \A s \in Seq(S) : Len(s) = n => s \in T}
  <1>1. 0 \in N
    BY EmptySeq
  <1>2. ASSUME NEW n \in Nat, n \in N PROVE n + 1 \in N
    <2> SUFFICES ASSUME NEW s \in Seq(S), Len(s) = n + 1 PROVE s \in T
      OBVIOUS
    <2>1. s # <<>>
      OBVIOUS
    <2>2. PICK front \in Seq(S), e \in S : s = Append(front, e)
      BY <2>1, SequenceEmptyOrAppend
    <2>3. Len(front) = n
      BY <2>2, LenProperties, AppendProperties
    <2>4. QED
      BY <1>2, <2>2, <2>3
  <1> HIDE DEF N
  <1>3. Nat \subseteq N
    BY <1>1, <1>2, NatInduct
  <1>4. QED
    BY <1>3, LenProperties DEF N

-----------------------------------------------------------------------------
(* Folds.                                                                   *)

(* A fold is done by a function of the value so far and the next element.   *)
Folder(X, Y) == [X \X Y -> X]

IsRun(r, F, base, s) ==
    /\ DOMAIN r = 0..Len(s) /\ r[0] = base
    /\ \A i \in 1..Len(s) : r[i] = F[<<r[i - 1], s[i]>>]

Fold(F, base, s) == CHOOSE v : \E r : IsRun(r, F, base, s) /\ v = r[Len(s)]

(* Two runs over sequences that agree are equal as far as both go.           *)
LEMMA RunsAgree ==
    ASSUME NEW F, NEW base, NEW S, NEW s \in Seq(S), NEW t \in Seq(S),
           NEW r, IsRun(r, F, base, s), NEW q, IsRun(q, F, base, t),
           Len(s) <= Len(t), \A i \in 1..Len(s) : s[i] = t[i]
    PROVE  \A i \in 0..Len(s) : r[i] = q[i]
  <1> DEFINE N == {n \in Nat : n <= Len(s) => r[n] = q[n]}
  <1>1. Len(s) \in Nat /\ Len(t) \in Nat
    BY LenProperties
  <1>2. 0 \in N
    BY DEF IsRun
  <1>3. ASSUME NEW n \in Nat, n \in N PROVE n + 1 \in N
    <2> SUFFICES ASSUME n + 1 <= Len(s) PROVE r[n + 1] = q[n + 1]
      OBVIOUS
    <2>1. n + 1 \in 1..Len(s) /\ n + 1 \in 1..Len(t) /\ (n + 1) - 1 = n
      BY <1>1
    <2>2. r[n] = q[n] /\ s[n + 1] = t[n + 1]
      BY <1>1, <1>3, <2>1
    <2>3. r[n + 1] = F[<<r[(n + 1) - 1], s[n + 1]>>]
      BY <2>1 DEF IsRun
    <2>4. q[n + 1] = F[<<q[(n + 1) - 1], t[n + 1]>>]
      BY <2>1 DEF IsRun
    <2>5. QED
      BY <2>1, <2>2, <2>3, <2>4
  <1> HIDE DEF N
  <1>4. Nat \subseteq N
    BY <1>2, <1>3, NatInduct
  <1>5. QED
    BY <1>1, <1>4 DEF N

(* Whatever run there is, the fold is where it ends.                         *)
LEMMA RunGives ==
    ASSUME NEW F, NEW base, NEW S, NEW s \in Seq(S), NEW r, IsRun(r, F, base, s)
    PROVE  Fold(F, base, s) = r[Len(s)]
  <1>1. Len(s) \in 0..Len(s)
    BY LenProperties
  <1>2. \A q : IsRun(q, F, base, s) => q[Len(s)] = r[Len(s)]
    BY <1>1, RunsAgree
  <1>3. QED
    BY <1>2 DEF Fold

(* A run goes on by one step when an element is appended.                    *)
LEMMA RunExtends ==
    ASSUME NEW F, NEW base, NEW S, NEW s \in Seq(S), NEW e \in S, NEW r,
           IsRun(r, F, base, s)
    PROVE  \E q : /\ IsRun(q, F, base, Append(s, e))
                  /\ q[Len(s) + 1] = F[<<r[Len(s)], e>>]
  <1> DEFINE n == Len(s)
             t == Append(s, e)
             q == [i \in 0..Len(t) |-> IF i = n + 1 THEN F[<<r[n], e>>] ELSE r[i]]
  <1>1. n \in Nat /\ Len(t) = n + 1 /\ t[n + 1] = e /\ \A i \in 1..n : t[i] = s[i]
    BY LenProperties, AppendProperties
  <1> HIDE DEF n, t
  <1>2. DOMAIN q = 0..Len(t) /\ q[0] = base
    BY <1>1 DEF IsRun
  <1>3. ASSUME NEW i \in 1..Len(t) PROVE q[i] = F[<<q[i - 1], t[i]>>]
    <2>1. CASE i = n + 1
      BY <1>1, <2>1
    <2>2. CASE i \in 1..n
      <3>1. r[i] = F[<<r[i - 1], s[i]>>]
        BY <2>2 DEF IsRun, n
      <3>2. q[i] = r[i] /\ q[i - 1] = r[i - 1]
        BY <1>1, <2>2
      <3>3. QED
        BY <1>1, <2>2, <3>1, <3>2
    <2>3. QED
      BY <1>1, <2>1, <2>2
  <1>4. q[n + 1] = F[<<r[n], e>>]
    BY <1>1
  <1> HIDE DEF q
  <1>5. QED
    BY <1>2, <1>3, <1>4 DEF IsRun, n, t

(* Every sequence has a run.                                                 *)
LEMMA RunExists ==
    ASSUME NEW F, NEW base, NEW S, NEW s \in Seq(S)
    PROVE  \E r : IsRun(r, F, base, s)
  <1> DEFINE T == {t \in Seq(S) : \E r : IsRun(r, F, base, t)}
  <1>1. <<>> \in T
    <2> DEFINE r == [i \in 0..0 |-> base]
    <2>1. IsRun(r, F, base, <<>>)
      BY DEF IsRun
    <2>2. QED
      BY <2>1, EmptySeq
  <1>2. \A t \in Seq(S) : \A e \in S : t \in T => Append(t, e) \in T
    BY RunExtends, AppendProperties
  <1> HIDE DEF T
  <1>3. Seq(S) \subseteq T
    BY <1>1, <1>2, SeqInduct
  <1>4. QED
    BY <1>3 DEF T

LEMMA FoldEmpty ==
    ASSUME NEW F, NEW base
    PROVE  Fold(F, base, <<>>) = base
  <1>1. PICK r : IsRun(r, F, base, <<>>)
    <2>1. <<>> \in Seq({})
      BY EmptySeq
    <2>2. QED
      BY <2>1, RunExists
  <1>2. Fold(F, base, <<>>) = r[Len(<<>>)]
    <2>1. <<>> \in Seq({})
      BY EmptySeq
    <2>2. QED
      BY <2>1, <1>1, RunGives
  <1>3. QED
    BY <1>1, <1>2 DEF IsRun

(* A fold takes one step more when an element is appended.                   *)
LEMMA FoldAppend ==
    ASSUME NEW F, NEW base, NEW S, NEW s \in Seq(S), NEW e \in S
    PROVE  Fold(F, base, Append(s, e)) = F[<<Fold(F, base, s), e>>]
  <1>1. PICK r : IsRun(r, F, base, s)
    BY RunExists
  <1>2. PICK q : /\ IsRun(q, F, base, Append(s, e))
                 /\ q[Len(s) + 1] = F[<<r[Len(s)], e>>]
    <2>1. \A w \in Seq(S) : \A p : IsRun(p, F, base, w) =>
            \E q : IsRun(q, F, base, Append(w, e)) /\ q[Len(w) + 1] = F[<<p[Len(w)], e>>]
      BY RunExtends
    <2>2. QED
      BY <1>1, <2>1
  <1>3. Append(s, e) \in Seq(S) /\ Len(Append(s, e)) = Len(s) + 1
    BY AppendProperties
  <1>4. Fold(F, base, Append(s, e)) = q[Len(Append(s, e))]
    BY <1>2, <1>3, RunGives
  <1>5. Fold(F, base, s) = r[Len(s)]
    BY <1>1, RunGives
  <1>6. QED
    BY <1>2, <1>3, <1>4, <1>5

LEMMA FoldType ==
    ASSUME NEW X, NEW Y, NEW F \in Folder(X, Y), NEW base \in X, NEW s \in Seq(Y)
    PROVE  Fold(F, base, s) \in X
  <1> DEFINE T == {t \in Seq(Y) : Fold(F, base, t) \in X}
  <1>1. <<>> \in T
    BY FoldEmpty, EmptySeq
  <1>2. ASSUME NEW t \in Seq(Y), NEW e \in Y, t \in T PROVE Append(t, e) \in T
    <2>1. Fold(F, base, Append(t, e)) = F[<<Fold(F, base, t), e>>]
      BY FoldAppend
    <2>2. Append(t, e) \in Seq(Y)
      BY AppendProperties
    <2>3. QED
      BY <1>2, <2>1, <2>2 DEF Folder
  <1> HIDE DEF T
  <1>3. Seq(Y) \subseteq T
    BY <1>1, <1>2, SeqInduct
  <1>4. QED
    BY <1>3 DEF T

(* A fold may stop anywhere and go on from there.                           *)
LEMMA FoldConcat ==
    ASSUME NEW F, NEW base, NEW S, NEW s \in Seq(S), NEW t \in Seq(S)
    PROVE  Fold(F, base, s \o t) = Fold(F, Fold(F, base, s), t)
  <1> DEFINE mid == Fold(F, base, s)
             T == {u \in Seq(S) : Fold(F, base, s \o u) = Fold(F, mid, u)}
  <1>1. <<>> \in T
    BY FoldEmpty, EmptySeq, ConcatEmptySeq
  <1>2. ASSUME NEW u \in Seq(S), NEW e \in S, u \in T PROVE Append(u, e) \in T
    <2>1. s \o u \in Seq(S) /\ Append(u, e) \in Seq(S)
      BY ConcatProperties, AppendProperties
    <2>2. s \o Append(u, e) = Append(s \o u, e)
      OBVIOUS
    <2>3. \A w \in Seq(S) : Fold(F, base, Append(w, e)) = F[<<Fold(F, base, w), e>>]
      BY FoldAppend
    <2>4. Fold(F, mid, Append(u, e)) = F[<<Fold(F, mid, u), e>>]
      BY FoldAppend
    <2>5. QED
      BY <1>2, <2>1, <2>2, <2>3, <2>4
  <1> HIDE DEF T
  <1>3. Seq(S) \subseteq T
    BY <1>1, <1>2, SeqInduct
  <1>4. QED
    BY <1>3 DEF T

-----------------------------------------------------------------------------
(* FoldLeft is the fold: its recursion over sets of indexes.                 *)

(* The last number of a section is its greatest.                             *)
LEMMA MaxOfSection ==
    ASSUME NEW n \in Nat, NEW D \in SUBSET (1..(n + 1)), n + 1 \in D
    PROVE  Max(D) = n + 1
  <1>1. \A x \in D : x \in Int /\ n + 1 >= x
    OBVIOUS
  <1>2. \A x \in D : (\A y \in D : x >= y) => x = n + 1
    BY <1>1
  <1>3. QED
    BY <1>1, <1>2 DEF Max

(* A non-empty part of a section has a greatest element.                     *)
LEMMA MaxInSection ==
    ASSUME NEW n \in Nat, NEW D \in SUBSET (1..n), D # {}
    PROVE  Max(D) \in D
  <1> DEFINE T == {k \in Nat : \A B \in SUBSET (1..k) : B # {} => Max(B) \in B}
  <1>1. 0 \in T
    <2>1. 1..0 = {}
      OBVIOUS
    <2>2. QED
      BY <2>1
  <1>2. ASSUME NEW k \in Nat, k \in T PROVE k + 1 \in T
    <2> SUFFICES ASSUME NEW B \in SUBSET (1..(k + 1)), B # {}
                 PROVE  Max(B) \in B
      OBVIOUS
    <2>1. CASE k + 1 \in B
      BY <2>1, MaxOfSection
    <2>2. CASE k + 1 \notin B
      <3>1. B \in SUBSET (1..k)
        BY <2>2
      <3>2. QED
        BY <1>2, <3>1
    <2>3. QED
      BY <2>1, <2>2
  <1> HIDE DEF T
  <1>3. Nat \subseteq T
    BY <1>1, <1>2, NatInduct
  <1>4. QED
    BY <1>3 DEF T

(* A section without its greatest number is the section before it.           *)
LEMMA IntervalMax ==
    ASSUME NEW k \in Nat
    PROVE  /\ 1..(k + 1) # {} /\ Max(1..(k + 1)) = k + 1
           /\ (1..(k + 1)) \ {k + 1} = 1..k
  <1>1. 1..(k + 1) \in SUBSET (1..(k + 1)) /\ k + 1 \in 1..(k + 1)
    OBVIOUS
  <1>2. QED
    BY <1>1, MaxOfSection

(* The community modules fold a sequence over the set of its indices.       *)
Steps(f, F, base, s) ==
    \A D \in SUBSET DOMAIN s :
        f[D] = IF D = {} THEN base ELSE F[<<f[D \ {Max(D)}], s[Max(D)]>>]

Stepped(X, F, base, s) == \E f \in [SUBSET DOMAIN s -> X] : Steps(f, F, base, s)

(* The recursion of MapThenFoldSet over one element more.                    *)
LEMMA StepsExtend ==
    ASSUME NEW X, NEW Y, NEW F \in Folder(X, Y), NEW base \in X,
           NEW s \in Seq(Y), NEW e \in Y,
           Stepped(X, F, base, s)
    PROVE  Stepped(X, F, base, Append(s, e))
  <1> PICK f \in [SUBSET DOMAIN s -> X] : Steps(f, F, base, s)
    BY DEF Stepped
  <1> DEFINE n == Len(s)
             t == Append(s, e)
  <1>1. /\ n \in Nat /\ DOMAIN s = 1..n /\ DOMAIN t = 1..(n + 1)
        /\ t[n + 1] = e /\ \A i \in 1..n : t[i] = s[i]
    BY LenProperties, AppendProperties
  <1> HIDE DEF n, t
  <1> DEFINE g == [D \in SUBSET (1..(n + 1)) |->
                      IF n + 1 \in D THEN F[<<f[D \ {n + 1}], e>>] ELSE f[D]]
  <1>2. \A D \in SUBSET (1..(n + 1)) : D \ {n + 1} \in SUBSET (1..n)
    BY <1>1
  <1>3. \A D \in SUBSET (1..(n + 1)) : n + 1 \notin D => D \in SUBSET (1..n)
    BY <1>1
  <1>4. g \in [SUBSET (1..(n + 1)) -> X]
    BY <1>1, <1>2, <1>3 DEF Folder
  <1>5. ASSUME NEW D \in SUBSET (1..(n + 1))
        PROVE  g[D] = IF D = {} THEN base ELSE F[<<g[D \ {Max(D)}], t[Max(D)]>>]
    <2>1. CASE n + 1 \in D
      <3>1. Max(D) = n + 1
        BY <1>1, <2>1, MaxOfSection
      <3>2. g[D] = F[<<f[D \ {n + 1}], e>>]
        BY <2>1
      <3>3. g[D \ {n + 1}] = f[D \ {n + 1}]
        BY <1>2
      <3>4. QED
        BY <1>1, <2>1, <3>1, <3>2, <3>3
    <2>2. CASE n + 1 \notin D
      <3>1. D \in SUBSET (1..n) /\ g[D] = f[D]
        BY <1>3, <2>2
      <3>2. f[D] = IF D = {} THEN base ELSE F[<<f[D \ {Max(D)}], s[Max(D)]>>]
        BY <1>1, <3>1 DEF Steps
      <3>3. CASE D = {}
        BY <3>1, <3>2, <3>3
      <3>4. CASE D # {}
        <4>1. Max(D) \in D
          BY <1>1, <3>1, <3>4, MaxInSection
        <4>2. D \ {Max(D)} \in SUBSET (1..(n + 1)) /\ n + 1 \notin D \ {Max(D)}
          BY <2>2
        <4>3. g[D \ {Max(D)}] = f[D \ {Max(D)}] /\ t[Max(D)] = s[Max(D)]
          BY <1>1, <3>1, <4>1, <4>2
        <4>4. QED
          BY <3>1, <3>2, <3>4, <4>3
      <3>5. QED
        BY <3>3, <3>4
    <2>3. QED
      BY <2>1, <2>2
  <1> HIDE DEF g
  <1>6. QED
    BY <1>1, <1>4, <1>5 DEF Steps, Stepped, t

(* That recursion is well-founded: a function of the index sets satisfies    *)
(* it.                                                                       *)
LEMMA StepsExist ==
    ASSUME NEW X, NEW Y, NEW F \in Folder(X, Y), NEW base \in X, NEW s \in Seq(Y)
    PROVE  Stepped(X, F, base, s)
  <1> DEFINE T == {t \in Seq(Y) : Stepped(X, F, base, t)}
  <1>1. <<>> \in T
    <2> DEFINE f == [D \in SUBSET DOMAIN <<>> |-> base]
    <2>1. f \in [SUBSET DOMAIN <<>> -> X]
      OBVIOUS
    <2>2. \A D \in SUBSET DOMAIN <<>> : D = {} /\ f[D] = base
      OBVIOUS
    <2>3. Steps(f, F, base, <<>>)
      BY <2>2 DEF Steps
    <2>4. QED
      BY <2>1, <2>3, EmptySeq DEF Stepped
  <1>2. ASSUME NEW t \in Seq(Y), NEW e \in Y, t \in T PROVE Append(t, e) \in T
    <2>1. \A u \in Seq(Y) :
            Stepped(X, F, base, u) => Stepped(X, F, base, Append(u, e))
      BY StepsExtend
    <2>2. QED
      BY <1>2, <2>1, AppendProperties
  <1> HIDE DEF T
  <1>3. Seq(Y) \subseteq T
    BY <1>1, <1>2, SeqInduct
  <1>4. QED
    BY <1>3 DEF T

(* It goes from a set of indexes to a smaller one.                           *)
LEMMA InnerStep ==
    ASSUME NEW Y, NEW s \in Seq(Y), NEW D \in SUBSET DOMAIN s, D # {}
    PROVE  Max(D) \in D /\ D \ {Max(D)} \in SUBSET DOMAIN s /\ s[Max(D)] \in Y
  <1>1. Len(s) \in Nat /\ DOMAIN s = 1..Len(s)
    BY LenProperties
  <1>2. Max(D) \in D
    BY <1>1, MaxInSection
  <1>3. QED
    BY <1>1, <1>2, ElementOfSeq

Reached(f, s) == f[DOMAIN s]
Walks(f, X, F, base, s) ==
    /\ f[{}] = base
    /\ \A D \in SUBSET DOMAIN s : D # {} /\ f[D \ {Max(D)}] \in X =>
         f[D] = F[<<f[D \ {Max(D)}], s[Max(D)]>>]

(* Whatever function satisfies it ends where the first-order fold ends.      *)
LEMMA WalkFolds ==
    ASSUME NEW X, NEW Y, NEW F \in Folder(X, Y), NEW base \in X, NEW s \in Seq(Y),
           NEW f, Walks(f, X, F, base, s)
    PROVE  Reached(f, s) = Fold(F, base, s)
  <1> DEFINE r == [i \in 0..Len(s) |-> f[1..i]]
             T == {k \in Nat : k <= Len(s) => f[1..k] \in X}
  <1>1. Len(s) \in Nat /\ DOMAIN s = 1..Len(s) /\ \A i \in 1..Len(s) : s[i] \in Y
    BY LenProperties, ElementOfSeq
  <1>2. f[1..0] = base
    <2>1. 1..0 = {}
      OBVIOUS
    <2>2. QED
      BY <2>1 DEF Walks
  <1>3. ASSUME NEW k \in Nat, k + 1 <= Len(s), f[1..k] \in X
        PROVE  f[1..(k + 1)] = F[<<f[1..k], s[k + 1]>>] /\ f[1..(k + 1)] \in X
    <2>1. 1..(k + 1) \in SUBSET DOMAIN s /\ k + 1 \in 1..Len(s)
      BY <1>1, <1>3
    <2>2. f[1..(k + 1)] = F[<<f[1..k], s[k + 1]>>]
      BY <1>3, <2>1, IntervalMax DEF Walks
    <2>3. QED
      BY <1>1, <1>3, <2>1, <2>2 DEF Folder
  <1>4. \A k \in 0..Len(s) : f[1..k] \in X
    <2>1. 0 \in T
      BY <1>2
    <2>2. ASSUME NEW k \in Nat, k \in T PROVE k + 1 \in T
      <3> SUFFICES ASSUME k + 1 <= Len(s) PROVE f[1..(k + 1)] \in X
        OBVIOUS
      <3>1. k <= Len(s)
        BY <1>1
      <3>2. f[1..k] \in X
        BY <2>2, <3>1
      <3>3. QED
        BY <1>3, <3>2
    <2> HIDE DEF T
    <2>3. Nat \subseteq T
      BY <2>1, <2>2, NatInduct
    <2>4. QED
      BY <1>1, <2>3 DEF T
  <1>5. ASSUME NEW i \in 1..Len(s) PROVE r[i] = F[<<r[i - 1], s[i]>>]
    <2> DEFINE k == i - 1
    <2>1. k \in Nat /\ i = k + 1 /\ k + 1 <= Len(s) /\ k \in 0..Len(s) /\ i \in 0..Len(s)
      BY <1>1
    <2> HIDE DEF k
    <2>2. f[1..(k + 1)] = F[<<f[1..k], s[k + 1]>>]
      BY <1>3, <1>4, <2>1
    <2>3. QED
      BY <2>1, <2>2 DEF k
  <1>6. IsRun(r, F, base, s)
    <2>1. DOMAIN r = 0..Len(s) /\ r[0] = base
      BY <1>1, <1>2
    <2> HIDE DEF r
    <2>2. QED
      BY <1>5, <2>1 DEF IsRun
  <1>7. r[Len(s)] = f[DOMAIN s]
    BY <1>1
  <1> HIDE DEF r
  <1>8. \A q : IsRun(q, F, base, s) => Fold(F, base, s) = q[Len(s)]
    BY RunGives
  <1>9. QED
    BY <1>6, <1>7, <1>8 DEF Reached

-----------------------------------------------------------------------------

(* Sequences of sequences.                                                  *)

FlatStep(S) == [p \in Seq(S) \X Seq(S) |-> p[1] \o p[2]]

LEMMA FlatSteps ==
    ASSUME NEW S
    PROVE  /\ FlatStep(S) \in Folder(Seq(S), Seq(S)) /\ <<>> \in Seq(S)
           /\ \A s, t \in Seq(S) : FlatStep(S)[<<s, t>>] = s \o t
  BY ConcatProperties, EmptySeq DEF FlatStep, Folder

LEMMA RunType ==
    ASSUME NEW X, NEW Y, NEW F \in Folder(X, Y), NEW base \in X, NEW s \in Seq(Y),
           NEW r, IsRun(r, F, base, s)
    PROVE  \A i \in 0..Len(s) : r[i] \in X
  <1> DEFINE T == {k \in Nat : k <= Len(s) => r[k] \in X}
  <1>1. Len(s) \in Nat /\ \A i \in 1..Len(s) : s[i] \in Y
    BY LenProperties, ElementOfSeq
  <1>2. 0 \in T
    BY DEF IsRun
  <1>3. ASSUME NEW k \in Nat, k \in T PROVE k + 1 \in T
    <2> SUFFICES ASSUME k + 1 <= Len(s) PROVE r[k + 1] \in X
      OBVIOUS
    <2>1. k + 1 \in 1..Len(s) /\ (k + 1) - 1 = k /\ r[k] \in X
      BY <1>1, <1>3
    <2>2. r[k + 1] = F[<<r[(k + 1) - 1], s[k + 1]>>]
      BY <2>1 DEF IsRun
    <2>3. QED
      BY <1>1, <2>1, <2>2 DEF Folder
  <1> HIDE DEF T
  <1>4. Nat \subseteq T
    BY <1>2, <1>3, NatInduct
  <1>5. QED
    BY <1>1, <1>4 DEF T

(* FlattenSeq of a non-empty sequence is a fold of concatenations.           *)
LEMMA FlattenFold ==
    ASSUME NEW S, NEW ss \in Seq(Seq(S)), ss # <<>>
    PROVE  FlattenSeq(ss) = Fold(FlatStep(S), <<>>, ss)
  <1> DEFINE n == Len(ss)
             F == FlatStep(S)
             Turn(f) == [i \in 1..n |-> IF i = 1 THEN ss[i] ELSE f[i - 1] \o ss[i]]
             it == CHOOSE f : f = Turn(f)
  <1>1. n \in Nat \ {0} /\ \A i \in 1..n : ss[i] \in Seq(S)
    BY EmptySeq, ElementOfSeq
  <1>2. PICK r : IsRun(r, F, <<>>, ss)
    BY RunExists
  <1>3. \A i \in 0..n : r[i] \in Seq(S)
    <2>1. \A u \in Seq(Seq(S)) : \A q : IsRun(q, F, <<>>, u) =>
            \A i \in 0..Len(u) : q[i] \in Seq(S)
      <3>1. F \in Folder(Seq(S), Seq(S)) /\ <<>> \in Seq(S)
        BY FlatSteps
      <3> DEFINE X == Seq(S)
                 base == <<>>
      <3>2. F \in Folder(X, X) /\ base \in X
        BY <3>1
      <3> HIDE DEF X, base, F
      <3>3. \A u \in Seq(X) : \A q : IsRun(q, F, base, u) =>
              \A i \in 0..Len(u) : q[i] \in X
        BY <3>2, RunType
      <3>4. QED
        BY <3>3 DEF X, base
    <2>2. QED
      BY <1>2, <2>1
  <1>4. r[0] = <<>> /\ \A i \in 1..n : r[i] = r[i - 1] \o ss[i]
    <2>1. \A i \in 1..n : r[i] = F[<<r[i - 1], ss[i]>>] /\ i - 1 \in 0..n
      BY <1>1, <1>2 DEF IsRun
    <2> HIDE DEF F
    <2>2. \A s, t \in Seq(S) : F[<<s, t>>] = s \o t
      BY FlatSteps DEF F
    <2>3. QED
      BY <1>1, <1>2, <1>3, <2>1, <2>2 DEF IsRun
  <1> HIDE DEF n, F
  <1> DEFINE f == [i \in 1..n |-> r[i]]
  <1>5. f = Turn(f)
    <2>1. ASSUME NEW i \in 1..n PROVE f[i] = IF i = 1 THEN ss[i] ELSE f[i - 1] \o ss[i]
      <3>1. CASE i = 1
        <4>1. r[1] = <<>> \o ss[1] /\ ss[1] \in Seq(S)
          <5>1. 1 \in 1..n /\ 1 - 1 = 0
            BY <1>1
          <5>2. QED
            BY <1>1, <1>4, <5>1
        <4>2. QED
          BY <3>1, <4>1, ConcatEmptySeq
      <3>2. CASE i # 1
        <4>1. i - 1 \in 1..n
          BY <1>1, <3>2
        <4>2. QED
          BY <1>4, <3>2, <4>1
      <3>3. QED
        BY <3>1, <3>2
    <2>2. QED
      BY <2>1
  <1>6. it = Turn(it)
    BY <1>5
  <1> HIDE DEF it
  <1> DEFINE T == {k \in Nat : k + 1 <= n => it[k + 1] = r[k + 1]}
  <1>7. 0 \in T
    <2>1. it[1] = ss[1] /\ ss[1] \in Seq(S)
      BY <1>1, <1>6
    <2>2. f[1] = ss[1]
      BY <1>1, <1>5
    <2>3. QED
      BY <1>1, <2>1, <2>2
  <1>8. ASSUME NEW k \in Nat, k \in T PROVE k + 1 \in T
    <2> SUFFICES ASSUME (k + 1) + 1 <= n PROVE it[(k + 1) + 1] = r[(k + 1) + 1]
      OBVIOUS
    <2> DEFINE i == (k + 1) + 1
    <2>1. i \in 1..n /\ i # 1 /\ i - 1 = k + 1 /\ it[k + 1] = r[k + 1]
      BY <1>1, <1>8
    <2> HIDE DEF i
    <2>2. it[i] = it[i - 1] \o ss[i]
      BY <1>6, <2>1
    <2>3. QED
      BY <1>4, <2>1, <2>2 DEF i
  <1> HIDE DEF T
  <1>9. it[n] = r[n]
    <2>1. Nat \subseteq T
      BY <1>7, <1>8, NatInduct
    <2>2. n - 1 \in Nat /\ n = (n - 1) + 1 /\ (n - 1) + 1 <= n
      BY <1>1
    <2>3. QED
      BY <2>1, <2>2 DEF T
  <1>10. FlattenSeq(ss) = it[n]
    BY <1>1 DEF FlattenSeq, it, n
  <1>11. Fold(F, <<>>, ss) = r[n]
    BY <1>2, RunGives DEF n
  <1>12. QED
    BY <1>9, <1>10, <1>11 DEF F

LEMMA FlattenEmpty == FlattenSeq(<<>>) = <<>>
  BY DEF FlattenSeq

(* FlattenSeq is a fold of concatenations.                                   *)
LEMMA FlattenIsFold ==
    ASSUME NEW S, NEW ss \in Seq(Seq(S))
    PROVE  FlattenSeq(ss) = Fold(FlatStep(S), <<>>, ss)
  BY FlattenFold, FlattenEmpty, FoldEmpty

LEMMA FlattenType ==
    ASSUME NEW S, NEW ss \in Seq(Seq(S))
    PROVE  FlattenSeq(ss) \in Seq(S)
  <1> DEFINE X == Seq(S)
             base == <<>>
             F == FlatStep(S)
  <1>1. F \in Folder(X, X) /\ base \in X /\ ss \in Seq(X)
    BY FlatSteps
  <1>2. FlattenSeq(ss) = Fold(F, base, ss)
    BY FlattenIsFold
  <1> HIDE DEF X, base, F
  <1>3. Fold(F, base, ss) \in X
    BY <1>1, FoldType
  <1>4. QED
    BY <1>2, <1>3 DEF X

LEMMA FlattenAppend ==
    ASSUME NEW S, NEW ss \in Seq(Seq(S)), NEW t \in Seq(S)
    PROVE  FlattenSeq(Append(ss, t)) = FlattenSeq(ss) \o t
  <1> DEFINE X == Seq(S)
             base == <<>>
             F == FlatStep(S)
             all == Append(ss, t)
  <1>1. all \in Seq(X) /\ FlattenSeq(all) = Fold(F, base, all)
    BY AppendProperties, FlattenIsFold
  <1>2. FlattenSeq(ss) = Fold(F, base, ss) /\ FlattenSeq(ss) \in Seq(S)
    BY FlattenIsFold, FlattenType
  <1>3. F[<<FlattenSeq(ss), t>>] = FlattenSeq(ss) \o t
    BY <1>2, FlatSteps
  <1>4. Fold(F, base, all) = F[<<Fold(F, base, ss), t>>]
    <2> HIDE DEF F, base
    <2>1. QED
      BY FoldAppend
  <1>5. QED
    BY <1>1, <1>2, <1>3, <1>4

(* The flattening of a concatenation is the concatenation of the             *)
(* flattenings.                                                              *)
LEMMA FlattenConcat ==
    ASSUME NEW S, NEW ss \in Seq(Seq(S)), NEW tt \in Seq(Seq(S))
    PROVE  FlattenSeq(ss \o tt) = FlattenSeq(ss) \o FlattenSeq(tt)
  <1> DEFINE X == Seq(S)
             T == {u \in Seq(X) : FlattenSeq(ss \o u) = FlattenSeq(ss) \o FlattenSeq(u)}
  <1>1. <<>> \in T
    BY FlattenEmpty, EmptySeq, ConcatEmptySeq, FlattenType
  <1>2. ASSUME NEW u \in Seq(X), NEW e \in X, u \in T PROVE Append(u, e) \in T
    <2>1. ss \o u \in Seq(X) /\ Append(u, e) \in Seq(X)
      BY ConcatProperties, AppendProperties
    <2>2. ss \o Append(u, e) = Append(ss \o u, e)
      OBVIOUS
    <2>3. FlattenSeq(Append(ss \o u, e)) = FlattenSeq(ss \o u) \o e
      BY <2>1, FlattenAppend
    <2>4. FlattenSeq(Append(u, e)) = FlattenSeq(u) \o e
      BY FlattenAppend
    <2>5. /\ FlattenSeq(ss) \in Seq(S) /\ FlattenSeq(u) \in Seq(S)
      BY FlattenType
    <2>6. (FlattenSeq(ss) \o FlattenSeq(u)) \o e = FlattenSeq(ss) \o (FlattenSeq(u) \o e)
      BY <2>5, ConcatAssociative
    <2>7. QED
      BY <1>2, <2>1, <2>2, <2>3, <2>4, <2>6
  <1> HIDE DEF T
  <1>3. Seq(X) \subseteq T
    BY <1>1, <1>2, SeqInduct
  <1>4. QED
    BY <1>3 DEF T

LEMMA FlattenOne ==
    ASSUME NEW S, NEW t \in Seq(S)
    PROVE  <<t>> \in Seq(Seq(S)) /\ FlattenSeq(<<t>>) = t
  <1>1. <<t>> = Append(<<>>, t) /\ <<>> \in Seq(Seq(S))
    BY EmptySeq
  <1>2. FlattenSeq(<<t>>) = <<>> \o t
    BY <1>1, FlattenAppend, FlattenEmpty
  <1>3. QED
    BY <1>2, ConcatEmptySeq

-----------------------------------------------------------------------------
(* A button's data read back.                                               *)

NoColon(s) == \A i \in DOMAIN s : s[i] # Colon

(* The least element of a set of numbers is Min.                             *)
LEMMA MinIs ==
    ASSUME NEW D \in SUBSET Nat, NEW n \in D, \A m \in D : n <= m
    PROVE  Min(D) = n
  <1>1. \A x \in D : (\A y \in D : x <= y) => x = n
    OBVIOUS
  <1>2. QED
    BY <1>1 DEF Min

(* A concatenation's elements.                                              *)
LEMMA ConcatOf ==
    ASSUME NEW S, NEW s \in Seq(S), NEW t \in Seq(S)
    PROVE  /\ s \o t \in Seq(S) /\ Len(s \o t) = Len(s) + Len(t)
           /\ \A i \in 1..Len(s) : (s \o t)[i] = s[i]
           /\ \A i \in 1..Len(t) : (s \o t)[Len(s) + i] = t[i]
  <1>1. Len(s) \in Nat /\ Len(t) \in Nat
    BY LenProperties
  <1>2. /\ s \o t \in Seq(S) /\ Len(s \o t) = Len(s) + Len(t)
        /\ \A i \in 1..(Len(s) + Len(t)) :
             (s \o t)[i] = IF i <= Len(s) THEN s[i] ELSE t[i - Len(s)]
    BY ConcatProperties
  <1>3. ASSUME NEW i \in 1..Len(t) PROVE (s \o t)[Len(s) + i] = t[i]
    <2>1. /\ Len(s) + i \in 1..(Len(s) + Len(t)) /\ ~(Len(s) + i <= Len(s))
          /\ (Len(s) + i) - Len(s) = i
      BY <1>1
    <2>2. QED
      BY <1>2, <2>1
  <1>4. QED
    BY <1>1, <1>2, <1>3

(* The piece of a text that equals another text.                            *)
LEMMA PieceIs ==
    ASSUME NEW S, NEW d \in Seq(S), NEW k \in Nat, NEW t \in Seq(S), NEW n, n = Len(t),
           k + n <= Len(d), \A i \in 1..n : d[k + i] = t[i]
    PROVE  SubSeq(d, k + 1, k + n) = t
  <1> DEFINE u == SubSeq(d, k + 1, k + n)
  <1>1. n \in Nat /\ Len(d) \in Nat
    BY LenProperties
  <1>2. \A i \in (k + 1)..(k + n) : d[i] \in S
    <2> TAKE i \in (k + 1)..(k + n)
    <2>1. i \in 1..Len(d)
      BY <1>1
    <2>2. QED
      BY <2>1, ElementOfSeq
  <1>3. /\ u \in Seq(S)
        /\ Len(u) = IF k + 1 <= k + n THEN (k + n) - (k + 1) + 1 ELSE 0
        /\ \A i \in 1..((k + n) - (k + 1) + 1) : u[i] = d[(k + 1) + i - 1]
    BY <1>1, <1>2, SubSeqProperties
  <1> HIDE DEF u
  <1>4. Len(u) = n
    BY <1>1, <1>3
  <1>5. ASSUME NEW i \in 1..n PROVE u[i] = t[i]
    <2>1. i \in 1..((k + n) - (k + 1) + 1) /\ (k + 1) + i - 1 = k + i
      BY <1>1
    <2>2. QED
      BY <1>3, <2>1
  <1>6. u = t
    BY <1>3, <1>4, <1>5, SeqEqual
  <1>7. QED
    BY <1>6 DEF u

(* Data without a slot or a mailbox splits into its letter and its id.       *)
LEMMA SplitTwo ==
    ASSUME NEW S, Colon \in S, NEW key \in S, key # Colon, NEW id \in Seq(S), NoColon(id)
    PROVE  SplitN(<<key, Colon>> \o id) = <<<<key>>, id>>
  <1> DEFINE head == <<key, Colon>>
             d == head \o id
             n == Len(id)
             first == {i \in 1..Len(d) : d[i] = Colon}
             second == {i \in (2 + 1)..Len(d) : d[i] = Colon}
  <1>1. head \in Seq(S) /\ Len(head) = 2 /\ head[1] = key /\ head[2] = Colon
    OBVIOUS
  <1>2. <<key>> \in Seq(S) /\ Len(<<key>>) = 1 /\ <<key>>[1] = key /\ n \in Nat
    BY LenProperties
  <1> HIDE DEF head
  <1>3. /\ d \in Seq(S) /\ Len(d) = 2 + n
        /\ \A i \in 1..2 : d[i] = head[i]
        /\ \A i \in 1..n : d[2 + i] = id[i]
    <2>1. /\ d \in Seq(S) /\ Len(d) = Len(head) + Len(id)
          /\ \A i \in 1..Len(head) : d[i] = head[i]
          /\ \A i \in 1..Len(id) : d[Len(head) + i] = id[i]
      <3>1. head \in Seq(S)
        BY <1>1
      <3>2. QED
        BY <3>1, ConcatOf
    <2>2. QED
      BY <1>1, <2>1
  <1> HIDE DEF d
  <1>4. d[1] = key /\ d[2] = Colon
    BY <1>1, <1>3
  <1>5. \A i \in 3..(2 + n) : d[i] # Colon
    <2> TAKE i \in 3..(2 + n)
    <2>1. i - 2 \in 1..n /\ i = 2 + (i - 2)
      BY <1>2
    <2>2. d[i] = id[i - 2]
      BY <1>3, <2>1
    <2>3. QED
      BY <2>1, <2>2, LenProperties DEF NoColon
  <1>6. Min(first) = 2 /\ first # {}
    <2>1. first \in SUBSET Nat /\ 2 \in first /\ \A m \in first : 2 <= m
      BY <1>2, <1>3, <1>4
    <2>2. QED
      BY <2>1, MinIs
  <1>7. second = {}
    BY <1>3, <1>5
  <1>8. SubSeq(d, 1, 1) = <<key>>
    <2>1. SubSeq(d, 0 + 1, 0 + 1) = <<key>>
      <3>1. \A i \in 1..1 : d[0 + i] = <<key>>[i]
        BY <1>4
      <3>2. 0 + 1 <= Len(d)
        BY <1>2, <1>3
      <3> DEFINE t == <<key>>
                 z == 0
      <3>3. z \in Nat /\ z + 1 <= Len(d) /\ t \in Seq(S) /\ 1 = Len(t)
            /\ \A i \in 1..1 : d[z + i] = t[i]
        BY <1>2, <3>1, <3>2
      <3> HIDE DEF t, z
      <3>4. SubSeq(d, z + 1, z + 1) = t
        BY <1>3, <3>3, PieceIs
      <3>5. QED
        BY <3>4 DEF t, z
    <2>2. QED
      BY <2>1
  <1>9. SubSeq(d, 2 + 1, 2 + n) = id
    BY <1>3, PieceIs
  <1> DEFINE one == SelectInSeq(d, LAMBDA c : c = Colon)
             two == SelectInSubSeq(d, one + 1, Len(d), LAMBDA c : c = Colon)
  <1>10. one = 2
    BY <1>6 DEF SelectInSeq
  <1> HIDE DEF one
  <1>11. two = 0
    BY <1>7, <1>10 DEF SelectInSubSeq
  <1> HIDE DEF two
  <1>12. SplitN(d) =
           IF one = 0 THEN <<d>>
           ELSE IF two = 0 THEN <<SubSeq(d, 1, one - 1), SubSeq(d, one + 1, Len(d))>>
           ELSE <<SubSeq(d, 1, one - 1), SubSeq(d, one + 1, two - 1),
                  SubSeq(d, two + 1, Len(d))>>
    BY DEF SplitN, one, two
  <1>13. SplitN(d) = <<<<key>>, id>>
    BY <1>3, <1>8, <1>9, <1>10, <1>11, <1>12
  <1>14. QED
    BY <1>13 DEF d, head

(* Data with one splits into its letter, that reference and its id.          *)
LEMMA SplitThree ==
    ASSUME NEW S, Colon \in S, NEW key \in S, key # Colon, NEW ref \in Seq(S), NoColon(ref),
           NEW id \in Seq(S)
    PROVE  SplitN(<<key, Colon>> \o ref \o <<Colon>> \o id) = <<<<key>>, ref, id>>
  <1> DEFINE head == <<key, Colon>>
             one == <<key>>
             bar == <<Colon>>
             front == head \o ref
             mid == front \o bar
             d == mid \o id
             m == Len(ref)
             n == Len(id)
             z == 0
             first == {i \in 1..Len(d) : d[i] = Colon}
             second == {i \in (2 + 1)..Len(d) : d[i] = Colon}
  <1>1. /\ head \in Seq(S) /\ Len(head) = 2 /\ head[1] = key /\ head[2] = Colon
        /\ bar \in Seq(S) /\ Len(bar) = 1 /\ bar[1] = Colon
        /\ one \in Seq(S) /\ Len(one) = 1 /\ one[1] = key
        /\ m \in Nat /\ n \in Nat
    BY LenProperties
  <1> HIDE DEF head, bar, one
  <1>2. /\ front \in Seq(S) /\ Len(front) = 2 + m
        /\ \A i \in 1..2 : front[i] = head[i]
        /\ \A i \in 1..m : front[2 + i] = ref[i]
    <2>1. /\ front \in Seq(S) /\ Len(front) = Len(head) + m
          /\ \A i \in 1..Len(head) : front[i] = head[i]
          /\ \A i \in 1..m : front[Len(head) + i] = ref[i]
      <3>1. head \in Seq(S)
        BY <1>1
      <3>2. QED
        BY <3>1, ConcatOf
    <2>2. QED
      BY <1>1, <2>1
  <1> HIDE DEF front
  <1>3. /\ mid \in Seq(S) /\ Len(mid) = 3 + m
        /\ \A i \in 1..(2 + m) : mid[i] = front[i]
        /\ mid[3 + m] = Colon
    <2>1. /\ mid \in Seq(S) /\ Len(mid) = Len(front) + Len(bar)
          /\ \A i \in 1..Len(front) : mid[i] = front[i]
          /\ \A i \in 1..Len(bar) : mid[Len(front) + i] = bar[i]
      <3>1. front \in Seq(S) /\ bar \in Seq(S)
        BY <1>1, <1>2
      <3>2. QED
        BY <3>1, ConcatOf
    <2> HIDE DEF mid
    <2>2. mid[Len(front) + 1] = bar[1] /\ Len(front) + 1 = 3 + m
      BY <1>1, <1>2, <2>1
    <2>3. QED
      BY <1>1, <1>2, <2>1, <2>2
  <1> HIDE DEF mid
  <1>4. /\ d \in Seq(S) /\ Len(d) = 3 + m + n
        /\ \A i \in 1..(3 + m) : d[i] = mid[i]
        /\ \A i \in 1..n : d[3 + m + i] = id[i]
    <2>1. /\ d \in Seq(S) /\ Len(d) = Len(mid) + n
          /\ \A i \in 1..Len(mid) : d[i] = mid[i]
          /\ \A i \in 1..n : d[Len(mid) + i] = id[i]
      <3>1. mid \in Seq(S)
        BY <1>3
      <3>2. QED
        BY <3>1, ConcatOf
    <2>2. QED
      BY <1>1, <1>3, <2>1
  <1> HIDE DEF d
  <1>5. \A i \in 1..(2 + m) : d[i] = front[i]
    <2> TAKE i \in 1..(2 + m)
    <2>1. i \in 1..(3 + m)
      BY <1>1
    <2>2. QED
      BY <1>3, <1>4, <2>1
  <1>6. /\ d[1] = key /\ d[2] = Colon /\ d[3 + m] = Colon
        /\ \A i \in 1..m : d[2 + i] = ref[i]
    <2>1. d[1] = key /\ d[2] = Colon
      BY <1>1, <1>2, <1>5
    <2>2. d[3 + m] = Colon
      BY <1>1, <1>3, <1>4
    <2>3. ASSUME NEW i \in 1..m PROVE d[2 + i] = ref[i]
      <3>1. 2 + i \in 1..(2 + m)
        BY <1>1
      <3>2. QED
        BY <1>2, <1>5, <3>1
    <2>4. QED
      BY <2>1, <2>2, <2>3
  <1>7. \A i \in 3..(2 + m) : d[i] # Colon
    <2> TAKE i \in 3..(2 + m)
    <2>1. i - 2 \in 1..m /\ i = 2 + (i - 2)
      BY <1>1
    <2>2. d[i] = ref[i - 2]
      BY <1>6, <2>1
    <2>3. QED
      BY <2>1, <2>2, LenProperties DEF NoColon
  <1>8. Min(first) = 2 /\ first # {}
    <2>1. first \in SUBSET Nat /\ 2 \in first /\ \A k \in first : 2 <= k
      BY <1>1, <1>4, <1>6
    <2>2. QED
      BY <2>1, MinIs
  <1>9. Min(second) = 3 + m /\ second # {}
    <2>1. second \in SUBSET Nat /\ 3 + m \in second /\ \A k \in second : 3 + m <= k
      BY <1>1, <1>4, <1>6, <1>7
    <2> HIDE DEF second
    <2>2. QED
      BY <2>1, MinIs
  <1>10. SubSeq(d, 1, 1) = one
    <2>1. /\ z \in Nat /\ z + 1 <= Len(d) /\ 1 = Len(one)
          /\ \A i \in 1..1 : d[z + i] = one[i]
      BY <1>1, <1>4, <1>6
    <2> HIDE DEF z
    <2>2. SubSeq(d, z + 1, z + 1) = one
      BY <1>1, <1>4, <2>1, PieceIs
    <2>3. z + 1 = 1
      BY DEF z
    <2>4. QED
      BY <2>2, <2>3
  <1>11. SubSeq(d, 2 + 1, 2 + m) = ref
    <2>1. 2 + m <= Len(d)
      BY <1>1, <1>4
    <2>2. QED
      BY <1>4, <1>6, <2>1, PieceIs
  <1>12. SubSeq(d, (3 + m) + 1, (3 + m) + n) = id
    <2>1. (3 + m) + n <= Len(d) /\ 3 + m \in Nat
      BY <1>1, <1>4
    <2>2. QED
      BY <1>4, <2>1, PieceIs
  <1> DEFINE at1 == SelectInSeq(d, LAMBDA c : c = Colon)
             at2 == SelectInSubSeq(d, at1 + 1, Len(d), LAMBDA c : c = Colon)
  <1>13. at1 = 2
    BY <1>8 DEF SelectInSeq
  <1> HIDE DEF at1
  <1>14. at2 = 3 + m
    BY <1>9, <1>13 DEF SelectInSubSeq
  <1> HIDE DEF at2
  <1>15. SplitN(d) =
           IF at1 = 0 THEN <<d>>
           ELSE IF at2 = 0 THEN <<SubSeq(d, 1, at1 - 1), SubSeq(d, at1 + 1, Len(d))>>
           ELSE <<SubSeq(d, 1, at1 - 1), SubSeq(d, at1 + 1, at2 - 1),
                  SubSeq(d, at2 + 1, Len(d))>>
    BY DEF SplitN, at1, at2
  <1>16. /\ at1 - 1 = 1 /\ at1 + 1 = 2 + 1 /\ at2 - 1 = 2 + m /\ at2 + 1 = (3 + m) + 1
         /\ at1 # 0 /\ at2 # 0 /\ Len(d) = (3 + m) + n
    BY <1>1, <1>4, <1>13, <1>14
  <1>17. SplitN(d) = <<one, ref, id>>
    BY <1>10, <1>11, <1>12, <1>15, <1>16
  <1>18. QED
    BY <1>17 DEF d, mid, front, head, bar, one

-----------------------------------------------------------------------------
(* The provers do not know that a literal is a string: the characters that   *)
(* the bot itself writes are added.                                         *)
ActionKeys == {"a", "d", "E", "e", "f", "j", "n", "C", "r", "c", "u"}
Char ==
    STRING \cup Reserved \cup Blank \cup ActionKeys
      \cup {Colon, Wide, "empty", "...", "<", ",", "s"}

LEMMA CharIs ==
    /\ Reserved \cup Blank \cup ActionKeys \subseteq Char
    /\ {Colon, Wide, "empty", "...", "<", ",", "s"} \subseteq Char
  BY DEF Char

(* What is given to the bot is a text of these characters.                   *)
LEMMA StringsAreTexts ==
    ASSUME NEW s \in Seq(STRING)
    PROVE  s \in Seq(Char)
  <1>1. STRING \subseteq Char
    BY DEF Char
  <1>2. QED
    BY <1>1, SeqMonotonic

-----------------------------------------------------------------------------
(* What the bot is writing. A mail that is read in full is not empty.        *)

BeingRead ==
    \E text \in Seq(Char) \ {<<>>} : \E arrived, failed :
        writing = [kind |-> "text", text |-> text, chunks |-> chunk_text(text),
                   arrived |-> arrived, failed |-> failed]

Keyboards(id, ref) ==
    {notification_keyboard(id, ref, read, expanded) : read, expanded \in BOOLEAN}
      \cup {undo_keyboard(id, ref)}

MailButtons(w) ==
    \E id \in Id, ref \in Id \cup {NoRef} : \E shown \in Keyboards(id, ref) :
        w = [kind |-> "mail", id |-> id, ref |-> ref, shown |-> shown]

ToggleButton(w) ==
    \E id \in Id, slot \in Generated \cup {NoRef} :
        w = [kind |-> "toggle", id |-> id, ref |-> slot,
             shown |-> shared_accounts_keyboard({[id |-> id, parent |-> slot]})]

Tapped(w) ==
    \E on, data : /\ MailButtons(on) \/ ToggleButton(on)
                  /\ data \in on.shown
                  /\ w = [kind |-> "tapped", on |-> on, data |-> data,
                          does |-> callback_handler(data)]

Notice(w) ==
    \E one, other \in Field :
        w = [kind |-> "notice", one |-> one, other |-> other,
             sent |-> notification_text(<<one>>, <<other>>, other, <<one, other>>, one)]

WritingInv ==
    \/ writing = Unwritten \/ BeingRead \/ MailButtons(writing) \/ ToggleButton(writing)
    \/ Tapped(writing) \/ Notice(writing)

(* What is being written tells its kind, so that no two cases overlap.       *)
LEMMA Kinds ==
    /\ writing = Unwritten => writing.kind = "nothing"
    /\ BeingRead => writing.kind = "text"
    /\ \A w : MailButtons(w) => w.kind = "mail"
    /\ \A w : ToggleButton(w) => w.kind = "toggle"
    /\ \A w : Tapped(w) => w.kind = "tapped"
    /\ \A w : Notice(w) => w.kind = "notice"
  <1>1. writing = Unwritten => writing.kind = "nothing"
    BY DEF Unwritten
  <1>2. BeingRead => writing.kind = "text"
    BY DEF BeingRead
  <1>3. \A w : MailButtons(w) => w.kind = "mail"
    BY DEF MailButtons
  <1>4. \A w : ToggleButton(w) => w.kind = "toggle"
    BY DEF ToggleButton
  <1>5. \A w : Tapped(w) => w.kind = "tapped"
    BY DEF Tapped
  <1>6. \A w : Notice(w) => w.kind = "notice"
    BY DEF Notice
  <1>7. QED
    BY <1>1, <1>2, <1>3, <1>4, <1>5, <1>6

(* A blank text is not sent as it is.                                       *)
LEMMA ReadTextIsThere ==
    ASSUME NEW text \in Text, ReadAll(text)
    PROVE  BeingRead'
  <1> DEFINE shown == IF Trimmed(text) = <<>> THEN <<"empty">> ELSE text
  <1>1. text \in Seq(Char)
    BY WritingAssumption, StringsAreTexts
  <1>2. Trimmed(<<>>) = <<>>
    BY DEF Trimmed, SelectInSeq
  <1>3. <<"empty">> \in Seq(Char) /\ <<"empty">> # <<>>
    BY DEF Char
  <1>4. shown \in Seq(Char) \ {<<>>}
    BY <1>1, <1>2, <1>3
  <1>5. writing' = [kind |-> "text", text |-> shown, chunks |-> chunk_text(shown),
                    arrived |-> {}, failed |-> {}]
    BY DEF ReadAll
  <1> HIDE DEF shown
  <1>6. QED
    BY <1>4, <1>5 DEF BeingRead

(* Sending a part changes nothing of the mail that is read.                  *)
LEMMA PartKeeps ==
    ASSUME WritingInv, SendPart
    PROVE  BeingRead'
  <1>1. writing.kind = "text"
    BY DEF SendPart
  <1>2. BeingRead
    BY <1>1, Kinds DEF WritingInv
  <1>3. PICK text \in Seq(Char) \ {<<>>} : \E arrived, failed :
            writing = [kind |-> "text", text |-> text, chunks |-> chunk_text(text),
                       arrived |-> arrived, failed |-> failed]
    BY <1>2 DEF BeingRead
  <1>4. PICK n : \/ writing' = [writing EXCEPT !.arrived = @ \cup {n}]
                 \/ writing' = [writing EXCEPT !.failed = @ \cup {n}]
    BY DEF SendPart
  <1>5. PICK now, lost :
            writing' = [kind |-> "text", text |-> text, chunks |-> chunk_text(text),
                        arrived |-> now, failed |-> lost]
    BY <1>3, <1>4
  <1>6. QED
    BY <1>5 DEF BeingRead

(* Whatever the bot is writing, it is one of: nothing; a text with the parts *)
(* that chunk_text makes of it; a keyboard that was offered; a press of one  *)
(* of its buttons; a notification of fields that came in (format.rs,         *)
(* bot.rs:1431-1439).                                                        *)
THEOREM WritingInvariantHolds == WritingSpec => []WritingInv
  <1>1. WritingInit => WritingInv
    BY DEF WritingInit, WritingInv
  <1>2. ASSUME WritingInv, [WritingNext]_writing
        PROVE  WritingInv'
    <2>1. CASE UNCHANGED writing
      BY <1>2, <2>1 DEF WritingInv, BeingRead, MailButtons, ToggleButton, Tapped, Notice
    <2>2. ASSUME NEW text \in Text, ReadAll(text)
          PROVE  WritingInv'
      BY <2>2, ReadTextIsThere DEF WritingInv
    <2>3. ASSUME NEW id \in Id, NEW ref \in Id \cup {NoRef}, Offer(id, ref)
          PROVE  WritingInv'
      <3>1. PICK shown \in Keyboards(id, ref) :
              writing' = [kind |-> "mail", id |-> id, ref |-> ref, shown |-> shown]
        BY <2>3 DEF Offer, Keyboards
      <3>2. MailButtons(writing')
        BY <3>1 DEF MailButtons
      <3>3. MailButtons(writing)'
        BY <3>2 DEF MailButtons
      <3>4. QED
        BY <3>3 DEF WritingInv
    <2>4. ASSUME NEW id \in Id, NEW slot \in Generated \cup {NoRef}, OfferShared(id, slot)
          PROVE  WritingInv'
      <3>1. ToggleButton(writing)'
        BY <2>4 DEF OfferShared, ToggleButton
      <3>2. QED
        BY <3>1 DEF WritingInv
    <2>5. ASSUME NEW one \in Field, NEW other \in Field, Announce(one, other)
          PROVE  WritingInv'
      <3>1. Notice(writing)'
        BY <2>5 DEF Announce, Notice
      <3>2. QED
        BY <3>1 DEF WritingInv
    <2>6. CASE SendPart
      BY <1>2, <2>6, PartKeeps DEF WritingInv
    <2>7. CASE Tap
      <3>1. MailButtons(writing) \/ ToggleButton(writing)
        BY <1>2, <2>7, Kinds DEF Tap, WritingInv
      <3>2. PICK data \in writing.shown :
              writing' = [kind |-> "tapped", on |-> writing, data |-> data,
                          does |-> callback_handler(data)]
        BY <2>7 DEF Tap
      <3>3. Tapped(writing')
        BY <3>1, <3>2 DEF Tapped
      <3>4. Tapped(writing)'
        BY <3>3 DEF Tapped, MailButtons, ToggleButton
      <3>5. QED
        BY <3>4 DEF WritingInv
    <2>8. QED
      BY <1>2, <2>1, <2>2, <2>3, <2>4, <2>5, <2>6, <2>7 DEF WritingNext, StartWriting
  <1>3. QED
    BY <1>1, <1>2, PTL DEF WritingSpec

-----------------------------------------------------------------------------
(* The buttons.                                                             *)

(* An id holds no colon, is not empty and is not taken for a missing         *)
(* reference.                                                                *)
LEMMA IdIsRead ==
    ASSUME NEW id \in Id \cup Generated
    PROVE  id \in Seq(Char) /\ id # NoRef /\ NoColon(id)
  BY WritingAssumption, StringsAreTexts DEF NoColon, NoRef

(* The length of the data does not depend on the action.                    *)
LEMMA SizeIs ==
    ASSUME NEW key \in Char, NEW ref \in Id \cup Generated \cup {NoRef}, NEW id \in Id
    PROVE  Size(action_callback_data(key, ref, id)) = Size(action_callback_data("d", ref, id))
  <1> DEFINE S == Char
             bar == <<Colon>>
  <1>1. id \in Seq(S) /\ bar \in Seq(S) /\ (ref = NoRef \/ ref \in Seq(S)) /\ Len(bar) = 1
    <2>1. Colon \in S
      BY CharIs
    <2>2. id \in Seq(S) /\ (ref = NoRef \/ ref \in Seq(S))
      BY IdIsRead
    <2>3. QED
      BY <2>1, <2>2
  <1>2. \A k \in S : <<k, Colon>> \in Seq(S) /\ Len(<<k, Colon>>) = 2
    <2>1. Colon \in S
      BY CharIs
    <2>2. QED
      BY <2>1
  <1>3. ASSUME NEW k \in S
        PROVE  Size(action_callback_data(k, ref, id)) =
                 IF ref = NoRef THEN 2 + Len(id) ELSE ((2 + Len(ref)) + 1) + Len(id)
    <2> DEFINE head == <<k, Colon>>
    <2>1. head \in Seq(S) /\ Len(head) = 2
      BY <1>2
    <2> HIDE DEF head, S, bar
    <2>2. CASE ref = NoRef
      <3>1. Len(head \o id) = Len(head) + Len(id)
        BY <1>1, <2>1, ConcatOf
      <3>2. QED
        BY <2>1, <2>2, <3>1 DEF Size, action_callback_data, head
    <2>3. CASE ref # NoRef
      <3>1. ref \in Seq(S)
        BY <1>1, <2>3
      <3>2. head \o ref \in Seq(S) /\ Len(head \o ref) = Len(head) + Len(ref)
        BY <2>1, <3>1, ConcatOf
      <3>3. /\ (head \o ref) \o bar \in Seq(S)
            /\ Len((head \o ref) \o bar) = Len(head \o ref) + Len(bar)
        BY <1>1, <3>2, ConcatOf
      <3>4. Len(((head \o ref) \o bar) \o id) = Len((head \o ref) \o bar) + Len(id)
        BY <1>1, <3>3, ConcatOf
      <3>5. QED
        BY <1>1, <2>1, <2>3, <3>2, <3>3, <3>4 DEF Size, action_callback_data, head, bar
    <2>4. QED
      BY <2>2, <2>3
  <1>4. "d" \in S
    BY DEF Char, ActionKeys
  <1> HIDE DEF S
  <1>5. QED
    BY <1>3, <1>4 DEF S

(* Every letter of a keyboard is an action, and there is at least one.       *)
LEMMA KeysAreActions ==
    ASSUME NEW read \in BOOLEAN, NEW expanded \in BOOLEAN
    PROVE  Keys(read, expanded) \subseteq ActionKeys /\ Keys(read, expanded) # {}
  BY DEF Keys, ActionKeys

(* What is shown on a mail is one of its actions' data, or nothing at all.   *)
LEMMA KeyboardIs ==
    ASSUME NEW id \in Id, NEW ref \in Id \cup {NoRef}, NEW shown \in Keyboards(id, ref)
    PROVE  /\ shown = {} <=> ~Fits("d", ref, id)
           /\ \A data \in shown : \E key \in ActionKeys :
                data = action_callback_data(key, ref, id)
  <1>1. CASE shown = undo_keyboard(id, ref)
    <2>1. Size(action_callback_data("u", ref, id)) = Size(action_callback_data("d", ref, id))
      <3>1. "u" \in Char
        BY DEF Char, ActionKeys
      <3>2. QED
        BY <3>1, SizeIs
    <2>2. QED
      BY <1>1, <2>1 DEF undo_keyboard, ActionKeys, Fits
  <1>2. ASSUME NEW read \in BOOLEAN, NEW expanded \in BOOLEAN,
               shown = notification_keyboard(id, ref, read, expanded)
        PROVE  /\ shown = {} <=> ~Fits("d", ref, id)
               /\ \A data \in shown : \E key \in ActionKeys :
                    data = action_callback_data(key, ref, id)
    BY <1>2, KeysAreActions DEF notification_keyboard
  <1>3. QED
    BY <1>1, <1>2 DEF Keyboards

(* An action's data is read back: as the button of a shared mailbox, or as  *)
(* that of a mail.                                                          *)
LEMMA DataReadsBack ==
    ASSUME NEW key \in ActionKeys \cup {"s"}, NEW ref \in Id \cup Generated \cup {NoRef},
           NEW id \in Id
    PROVE  LET data == action_callback_data(key, ref, id)
               parts == SplitN(data)
           IN /\ parts = IF ref = NoRef THEN <<<<key>>, id>> ELSE <<<<key>>, ref, id>>
              /\ data[1] = key
  <1> DEFINE S == Char
             data == action_callback_data(key, ref, id)
             head == <<key, Colon>>
             bar == <<Colon>>
  <1>1. key \in S /\ key # Colon /\ Colon \in S
    BY DEF ActionKeys, Colon, Char
  <1>2. id \in Seq(S) /\ NoColon(id) /\ (ref = NoRef \/ (ref \in Seq(S) /\ NoColon(ref)))
    BY IdIsRead
  <1>3. /\ head \in Seq(S) /\ bar \in Seq(S) /\ Len(head) = 2 /\ head[1] = key
        /\ Len(bar) = 1
    BY <1>1
  <1> HIDE DEF S
  <1>4. CASE ref = NoRef
    <2>1. data = head \o id
      BY <1>4 DEF action_callback_data
    <2>2. SplitN(data) = <<<<key>>, id>>
      BY <1>1, <1>2, <2>1, SplitTwo
    <2> HIDE DEF head
    <2>3. \A i \in 1..Len(head) : (head \o id)[i] = head[i]
      BY <1>2, <1>3, ConcatOf
    <2>4. data[1] = key
      <3>1. 1 \in 1..Len(head)
        BY <1>3
      <3>2. QED
        BY <1>3, <2>1, <2>3, <3>1
    <2>5. QED
      BY <1>4, <2>2, <2>4
  <1>5. CASE ref # NoRef
    <2>1. data = head \o ref \o bar \o id /\ ref \in Seq(S) /\ NoColon(ref)
      BY <1>2, <1>5 DEF action_callback_data
    <2>2. SplitN(data) = <<<<key>>, ref, id>>
      BY <1>1, <1>2, <2>1, SplitThree
    <2> HIDE DEF head, bar
    <2>3. /\ head \o ref \in Seq(S) /\ Len(head \o ref) = Len(head) + Len(ref)
          /\ \A i \in 1..Len(head) : (head \o ref)[i] = head[i]
      BY <1>3, <2>1, ConcatOf
    <2>4. /\ (head \o ref) \o bar \in Seq(S)
          /\ Len((head \o ref) \o bar) = Len(head \o ref) + Len(bar)
          /\ \A i \in 1..Len(head \o ref) : ((head \o ref) \o bar)[i] = (head \o ref)[i]
      <3>1. bar \in Seq(S) /\ head \o ref \in Seq(S)
        BY <1>3, <2>3
      <3>2. QED
        BY <3>1, ConcatOf
    <2>5. \A i \in 1..Len((head \o ref) \o bar) :
            (((head \o ref) \o bar) \o id)[i] = ((head \o ref) \o bar)[i]
      BY <1>2, <2>4, ConcatOf
    <2>6. Len(ref) \in Nat
      BY <2>1, LenProperties
    <2>7. data[1] = key
      <3>1. 1 \in 1..Len(head) /\ 1 \in 1..Len(head \o ref) /\ 1 \in 1..Len((head \o ref) \o bar)
        BY <1>3, <2>3, <2>4, <2>6
      <3>2. QED
        BY <1>3, <2>1, <2>3, <2>4, <2>5, <3>1
    <2>8. QED
      BY <1>5, <2>2, <2>7
  <1>6. QED
    BY <1>4, <1>5

(* A press of a mail's button does what it says to that mail.                *)
LEMMA MailTapDoes ==
    ASSUME NEW id \in Id, NEW ref \in Id \cup {NoRef}, NEW shown \in Keyboards(id, ref),
           NEW data \in shown
    PROVE  /\ Size(data) <= DataLimit
           /\ callback_handler(data) =
                [op |-> "mail", action |-> <<data[1]>>, ref |-> ref, id |-> id]
  <1>1. PICK key \in ActionKeys : data = action_callback_data(key, ref, id)
    BY KeyboardIs
  <1>2. Fits("d", ref, id)
    BY KeyboardIs
  <1>3. Size(data) = Size(action_callback_data("d", ref, id))
    <2>1. key \in Char
      BY <1>1 DEF Char
    <2>2. QED
      BY <1>1, <2>1, SizeIs
  <1>4. /\ SplitN(data) = IF ref = NoRef THEN <<<<key>>, id>> ELSE <<<<key>>, ref, id>>
        /\ data[1] = key
    BY <1>1, DataReadsBack
  <1>5. <<key>> # <<"s">> /\ <<key>> # <<"x">>
    <2>1. key # "s" /\ key # "x"
      BY <1>1 DEF ActionKeys
    <2>2. QED
      BY <2>1
  <1>6. callback_handler(data) = [op |-> "mail", action |-> <<key>>, ref |-> ref, id |-> id]
    BY <1>4, <1>5 DEF callback_handler
  <1>7. QED
    BY <1>2, <1>3, <1>4, <1>6 DEF Fits

(* A press of a shared mailbox's toggle reaches that mailbox of that         *)
(* account.                                                                  *)
LEMMA ToggleTapDoes ==
    ASSUME NEW id \in Id, NEW slot \in Generated \cup {NoRef},
           NEW data \in shared_accounts_keyboard({[id |-> id, parent |-> slot]})
    PROVE  /\ Size(data) <= DataLimit
           /\ callback_handler(data) = [op |-> "toggle", ref |-> slot, id |-> id]
  <1>1. data = action_callback_data("s", slot, id) /\ Fits("s", slot, id)
    BY DEF shared_accounts_keyboard
  <1>2. SplitN(data) = IF slot = NoRef THEN <<<<"s">>, id>> ELSE <<<<"s">>, slot, id>>
    BY <1>1, DataReadsBack
  <1>3. slot # <<"p">>
    <2>1. NoRef # <<"p">>
      BY DEF NoRef
    <2>2. QED
      BY <2>1, WritingAssumption
  <1>4. callback_handler(data) = [op |-> "toggle", ref |-> slot, id |-> id]
    BY <1>2, <1>3 DEF callback_handler
  <1>5. QED
    BY <1>1, <1>4 DEF Fits

(* Whatever ids a server gives to messages and mailboxes, a press does what *)
(* its button says to what it was made for, and a mail's buttons are all    *)
(* there or none (format.rs:244-263, bot.rs:1431-1439).                     *)
THEOREM EveryButtonReadsBack == WritingSpec => []ButtonsSurviveTheTrip
  <1>1. ASSUME WritingInv, writing.kind = "mail"
        PROVE  writing.shown = {} <=> undo_keyboard(writing.id, writing.ref) = {}
    <2>1. MailButtons(writing)
      BY <1>1, Kinds DEF WritingInv
    <2>2. PICK id \in Id, ref \in Id \cup {NoRef} : \E shown \in Keyboards(id, ref) :
            writing = [kind |-> "mail", id |-> id, ref |-> ref, shown |-> shown]
      BY <2>1 DEF MailButtons
    <2>3. writing.id = id /\ writing.ref = ref /\ writing.shown \in Keyboards(id, ref)
      BY <2>2
    <2>4. undo_keyboard(id, ref) \in Keyboards(id, ref)
      BY DEF Keyboards
    <2>5. QED
      BY <2>3, <2>4, KeyboardIs
  <1>2. ASSUME WritingInv, writing.kind = "tapped"
        PROVE  LET button == writing.on IN
               /\ Size(writing.data) <= DataLimit
               /\ writing.does =
                    IF button.kind = "toggle"
                    THEN [op |-> "toggle", ref |-> button.ref, id |-> button.id]
                    ELSE [op |-> "mail", action |-> <<writing.data[1]>>,
                          ref |-> button.ref, id |-> button.id]
    <2>1. Tapped(writing)
      BY <1>2, Kinds DEF WritingInv
    <2>2. PICK on, data : /\ MailButtons(on) \/ ToggleButton(on)
                          /\ data \in on.shown
                          /\ writing = [kind |-> "tapped", on |-> on, data |-> data,
                                        does |-> callback_handler(data)]
      BY <2>1 DEF Tapped
    <2>3. writing.on = on /\ writing.data = data /\ writing.does = callback_handler(data)
      BY <2>2
    <2>4. CASE MailButtons(on)
      <3>1. PICK id \in Id, ref \in Id \cup {NoRef} : \E shown \in Keyboards(id, ref) :
              on = [kind |-> "mail", id |-> id, ref |-> ref, shown |-> shown]
        BY <2>4 DEF MailButtons
      <3>2. on.kind = "mail" /\ on.id = id /\ on.ref = ref /\ on.shown \in Keyboards(id, ref)
        BY <3>1
      <3>3. /\ Size(data) <= DataLimit
            /\ callback_handler(data) =
                 [op |-> "mail", action |-> <<data[1]>>, ref |-> ref, id |-> id]
        BY <2>2, <3>2, MailTapDoes
      <3>4. QED
        BY <2>3, <3>2, <3>3
    <2>5. CASE ToggleButton(on)
      <3>1. PICK id \in Id, slot \in Generated \cup {NoRef} :
              on = [kind |-> "toggle", id |-> id, ref |-> slot,
                    shown |-> shared_accounts_keyboard({[id |-> id, parent |-> slot]})]
        BY <2>5 DEF ToggleButton
      <3>2. /\ on.kind = "toggle" /\ on.id = id /\ on.ref = slot
            /\ on.shown = shared_accounts_keyboard({[id |-> id, parent |-> slot]})
        BY <3>1
      <3>3. /\ Size(data) <= DataLimit
            /\ callback_handler(data) = [op |-> "toggle", ref |-> slot, id |-> id]
        BY <2>2, <3>2, ToggleTapDoes
      <3>4. QED
        BY <2>3, <3>2, <3>3
    <2>6. QED
      BY <2>2, <2>4, <2>5
  <1>3. WritingInv => ButtonsSurviveTheTrip
    BY <1>1, <1>2 DEF ButtonsSurviveTheTrip
  <1>4. QED
    BY <1>3, WritingInvariantHolds, PTL

-----------------------------------------------------------------------------
(* The units of a text.                                                     *)

UnitsStep == [p \in Nat \X Char |-> p[1] + Width(p[2])]

LEMMA UnitsStepIs ==
    /\ UnitsStep \in Folder(Nat, Char)
    /\ \A x \in Nat, y \in Char : UnitsStep[<<x, y>>] = x + Width(y)
  BY DEF UnitsStep, Width, Folder

(* Units is a fold.                                                          *)
LEMMA UnitsFold ==
    ASSUME NEW s \in Seq(Char)
    PROVE  Units(s) = Fold(UnitsStep, 0, s)
  <1> DEFINE X == Nat
             Y == Char
             first == 0
             Turn(f) == [D \in SUBSET DOMAIN s |->
                           IF D = {} THEN first
                           ELSE f[D \ {Max(D)}] + Width(s[Max(D)])]
             it == CHOOSE f : f = Turn(f)
  <1>1. /\ UnitsStep \in Folder(X, Y) /\ first \in X /\ s \in Seq(Y)
        /\ \A x \in X, y \in Y : UnitsStep[<<x, y>>] = x + Width(y)
    BY UnitsStepIs
  <1>2. Units(s) = it[DOMAIN s]
    BY DEF Units, FoldLeft, MapThenFoldSet
  <1> HIDE DEF X, Y, first
  <1>3. \A D \in SUBSET DOMAIN s : D # {} =>
          Max(D) \in D /\ D \ {Max(D)} \in SUBSET DOMAIN s /\ s[Max(D)] \in Y
    BY <1>1, InnerStep
  <1>4. PICK f \in [SUBSET DOMAIN s -> X] : Steps(f, UnitsStep, first, s)
    BY <1>1, StepsExist DEF Stepped
  <1>5. f = Turn(f)
    <2>1. ASSUME NEW D \in SUBSET DOMAIN s
          PROVE  f[D] = IF D = {} THEN first
                        ELSE f[D \ {Max(D)}] + Width(s[Max(D)])
      <3>1. CASE D = {}
        BY <1>4, <3>1 DEF Steps
      <3>2. CASE D # {}
        <4>1. f[D] = UnitsStep[<<f[D \ {Max(D)}], s[Max(D)]>>]
          BY <1>4, <3>2 DEF Steps
        <4>2. f[D \ {Max(D)}] \in X /\ s[Max(D)] \in Y
          BY <1>3, <3>2
        <4>3. QED
          BY <1>1, <3>2, <4>1, <4>2
      <3>3. QED
        BY <3>1, <3>2
    <2>2. QED
      BY <2>1
  <1>6. it = Turn(it)
    BY <1>5
  <1> HIDE DEF it
  <1>7. it[{}] = first
    BY <1>6
  <1>8. ASSUME NEW D \in SUBSET DOMAIN s, D # {}, it[D \ {Max(D)}] \in X
        PROVE  it[D] = UnitsStep[<<it[D \ {Max(D)}], s[Max(D)]>>]
    <2>1. it[D] = it[D \ {Max(D)}] + Width(s[Max(D)])
      BY <1>6, <1>8
    <2>2. s[Max(D)] \in Y
      BY <1>3, <1>8
    <2>3. QED
      BY <1>1, <1>8, <2>1, <2>2
  <1>9. Walks(it, X, UnitsStep, first, s)
    BY <1>7, <1>8 DEF Walks
  <1>10. Reached(it, s) = Fold(UnitsStep, first, s)
    BY <1>1, <1>9, WalkFolds
  <1>11. QED
    BY <1>2, <1>10 DEF Reached, first

(* A concatenation may be appended to its last part.                         *)
LEMMA ConcatThenAppend ==
    ASSUME NEW S, NEW s \in Seq(S), NEW t \in Seq(S), NEW e \in S
    PROVE  s \o Append(t, e) = Append(s \o t, e)
  OBVIOUS

LEMMA UnitsEmpty == Units(<<>>) = 0
  BY EmptySeq, FoldEmpty, UnitsFold

(* A text has as many more units as the character that is appended is wide.  *)
LEMMA UnitsAppend ==
    ASSUME NEW s \in Seq(Char), NEW c \in Char
    PROVE  Units(Append(s, c)) = Units(s) + Width(c)
  <1> DEFINE X == Nat
             base == 0
  <1>1. /\ UnitsStep \in Folder(X, Char) /\ base \in X
        /\ \A x \in X, y \in Char : UnitsStep[<<x, y>>] = x + Width(y)
    BY UnitsStepIs
  <1>2. Append(s, c) \in Seq(Char)
    BY AppendProperties
  <1>3. Units(s) = Fold(UnitsStep, base, s)
    BY UnitsFold
  <1>4. Units(Append(s, c)) = Fold(UnitsStep, base, Append(s, c))
    BY <1>2, UnitsFold
  <1> HIDE DEF X, base
  <1>5. Units(s) \in X
    BY <1>1, <1>3, FoldType
  <1>6. Fold(UnitsStep, base, Append(s, c)) = UnitsStep[<<Fold(UnitsStep, base, s), c>>]
    BY FoldAppend
  <1>7. QED
    BY <1>1, <1>3, <1>4, <1>5, <1>6

LEMMA UnitsType ==
    ASSUME NEW s \in Seq(Char)
    PROVE  Units(s) \in Nat
  <1> DEFINE X == Nat
             base == 0
  <1>1. UnitsStep \in Folder(X, Char) /\ base \in X
    BY UnitsStepIs
  <1>2. Units(s) = Fold(UnitsStep, base, s)
    BY UnitsFold
  <1> HIDE DEF X, base
  <1>3. Units(s) \in X
    BY <1>1, <1>2, FoldType
  <1>4. QED
    BY <1>3 DEF X

LEMMA UnitsPositive ==
    ASSUME NEW s \in Seq(Char), s # <<>>
    PROVE  Units(s) >= 1
  <1>1. PICK t \in Seq(Char), c \in Char : s = Append(t, c)
    BY SequenceEmptyOrAppend
  <1>2. Units(s) = Units(t) + Width(c) /\ Units(t) \in Nat
    BY <1>1, UnitsAppend, UnitsType
  <1>3. QED
    BY <1>2 DEF Width

(* The units of a concatenation are added.                                   *)
LEMMA UnitsConcat ==
    ASSUME NEW s \in Seq(Char), NEW t \in Seq(Char)
    PROVE  Units(s \o t) = Units(s) + Units(t)
  <1> DEFINE T == {u \in Seq(Char) : Units(s \o u) = Units(s) + Units(u)}
  <1>1. <<>> \in T
    BY UnitsEmpty, UnitsType, EmptySeq, ConcatEmptySeq
  <1>2. ASSUME NEW u \in Seq(Char), NEW c \in Char, u \in T PROVE Append(u, c) \in T
    <2>1. s \o u \in Seq(Char) /\ Append(u, c) \in Seq(Char)
      BY ConcatProperties, AppendProperties
    <2>2. s \o Append(u, c) = Append(s \o u, c)
      OBVIOUS
    <2>3. Units(Append(s \o u, c)) = Units(s \o u) + Width(c)
      BY <2>1, UnitsAppend
    <2>4. Units(Append(u, c)) = Units(u) + Width(c)
      BY UnitsAppend
    <2>5. Units(s) \in Nat /\ Units(u) \in Nat /\ Width(c) \in Nat
      BY UnitsType DEF Width
    <2>6. Units(s \o u) = Units(s) + Units(u)
      BY <1>2
    <2>7. Units(s \o Append(u, c)) = Units(s) + Units(Append(u, c))
      BY <2>2, <2>3, <2>4, <2>5, <2>6
    <2>8. QED
      BY <2>1, <2>7
  <1> HIDE DEF T
  <1>3. Seq(Char) \subseteq T
    BY <1>1, <1>2, SeqInduct
  <1>4. QED
    BY <1>3 DEF T

-----------------------------------------------------------------------------
(* The lines of a text.                                                     *)

Letter == Char \ {NewLine}
Line == Seq(Letter)
Taken == [done: Seq(Line), line: Line]
Untaken == [done |-> <<>>, line |-> <<>>]
Took(text) == FoldLeft(TakeChar, Untaken, text)
TakeStep == [p \in Taken \X Char |-> TakeChar(p[1], p[2])]

LEMMA UntakenIs == Untaken \in Taken
  BY EmptySeq DEF Untaken, Taken, Line

LEMMA TakeStepIs ==
    /\ TakeStep \in Folder(Taken, Char)
    /\ \A x \in Taken, y \in Char : TakeStep[<<x, y>>] = TakeChar(x, y)
  <1>1. \A x \in Taken, y \in Char : TakeChar(x, y) \in Taken
    <2> TAKE x \in Taken, y \in Char
    <2>1. x.done \in Seq(Line) /\ x.line \in Line /\ <<>> \in Line
      BY EmptySeq DEF Taken, Line
    <2>2. Append(x.done, x.line) \in Seq(Line)
      BY <2>1, AppendProperties
    <2>3. ASSUME y # NewLine PROVE Append(x.line, y) \in Line
      BY <2>1, <2>3, AppendProperties DEF Line, Letter
    <2>4. QED
      BY <2>1, <2>2, <2>3 DEF TakeChar, Taken
  <1>2. QED
    BY <1>1 DEF TakeStep, Folder

(* Taking a text apart into lines is a fold.                                 *)
LEMMA TakeFold ==
    ASSUME NEW s \in Seq(Char)
    PROVE  Took(s) = Fold(TakeStep, Untaken, s)
  <1> DEFINE X == Taken
             Y == Char
             first == Untaken
             Turn(f) == [D \in SUBSET DOMAIN s |->
                           IF D = {} THEN first
                           ELSE TakeChar(f[D \ {Max(D)}], s[Max(D)])]
             it == CHOOSE f : f = Turn(f)
  <1>1. /\ TakeStep \in Folder(X, Y) /\ first \in X /\ s \in Seq(Y)
        /\ \A x \in X, y \in Y : TakeStep[<<x, y>>] = TakeChar(x, y)
    BY TakeStepIs, UntakenIs
  <1>2. Took(s) = it[DOMAIN s]
    BY DEF Took, Untaken, FoldLeft, MapThenFoldSet
  <1> HIDE DEF X, Y, first
  <1>3. \A D \in SUBSET DOMAIN s : D # {} =>
          Max(D) \in D /\ D \ {Max(D)} \in SUBSET DOMAIN s /\ s[Max(D)] \in Y
    BY <1>1, InnerStep
  <1>4. PICK f \in [SUBSET DOMAIN s -> X] : Steps(f, TakeStep, first, s)
    BY <1>1, StepsExist DEF Stepped
  <1>5. f = Turn(f)
    <2>1. ASSUME NEW D \in SUBSET DOMAIN s
          PROVE  f[D] = IF D = {} THEN first
                        ELSE TakeChar(f[D \ {Max(D)}], s[Max(D)])
      <3>1. CASE D = {}
        BY <1>4, <3>1 DEF Steps
      <3>2. CASE D # {}
        <4>1. f[D] = TakeStep[<<f[D \ {Max(D)}], s[Max(D)]>>]
          BY <1>4, <3>2 DEF Steps
        <4>2. f[D \ {Max(D)}] \in X /\ s[Max(D)] \in Y
          BY <1>3, <3>2
        <4>3. QED
          BY <1>1, <3>2, <4>1, <4>2
      <3>3. QED
        BY <3>1, <3>2
    <2>2. QED
      BY <2>1
  <1>6. it = Turn(it)
    BY <1>5
  <1> HIDE DEF it
  <1>7. it[{}] = first
    BY <1>6
  <1>8. ASSUME NEW D \in SUBSET DOMAIN s, D # {}, it[D \ {Max(D)}] \in X
        PROVE  it[D] = TakeStep[<<it[D \ {Max(D)}], s[Max(D)]>>]
    <2>1. it[D] = TakeChar(it[D \ {Max(D)}], s[Max(D)])
      BY <1>6, <1>8
    <2>2. s[Max(D)] \in Y
      BY <1>3, <1>8
    <2>3. QED
      BY <1>1, <1>8, <2>1, <2>2
  <1>9. Walks(it, X, TakeStep, first, s)
    BY <1>7, <1>8 DEF Walks
  <1>10. Reached(it, s) = Fold(TakeStep, first, s)
    BY <1>1, <1>9, WalkFolds
  <1>11. QED
    BY <1>2, <1>10 DEF Reached, first

LEMMA TookEmpty == Took(<<>>) = Untaken
  BY EmptySeq, FoldEmpty, TakeFold

(* One character more is one step more.                                      *)
LEMMA TookAppend ==
    ASSUME NEW s \in Seq(Char), NEW c \in Char
    PROVE  /\ Took(s) \in Taken
           /\ Took(Append(s, c)) = TakeChar(Took(s), c)
  <1>1. Append(s, c) \in Seq(Char)
    BY AppendProperties
  <1>2. Took(s) = Fold(TakeStep, Untaken, s)
    BY TakeFold
  <1>3. Took(Append(s, c)) = Fold(TakeStep, Untaken, Append(s, c))
    BY <1>1, TakeFold
  <1>4. Took(s) \in Taken
    BY <1>2, TakeStepIs, UntakenIs, FoldType
  <1>5. Fold(TakeStep, Untaken, Append(s, c)) = TakeStep[<<Fold(TakeStep, Untaken, s), c>>]
    BY FoldAppend
  <1>6. QED
    BY <1>2, <1>3, <1>4, <1>5, TakeStepIs

(* What was taken is a sequence of lines and a line that is not done.        *)
LEMMA TookType ==
    ASSUME NEW s \in Seq(Char)
    PROVE  /\ Took(s) \in Taken
           /\ Took(s) = [done |-> Took(s).done, line |-> Took(s).line]
           /\ Took(s).done \in Seq(Line) /\ Took(s).line \in Line
  <1>1. Took(s) = Fold(TakeStep, Untaken, s)
    BY TakeFold
  <1>2. Took(s) \in Taken
    BY <1>1, TakeStepIs, UntakenIs, FoldType
  <1>3. QED
    BY <1>2 DEF Taken

LEMMA TakenChar ==
    ASSUME NEW d, NEW l, NEW c
    PROVE  TakeChar([done |-> d, line |-> l], c) =
             IF c = NewLine THEN [done |-> Append(d, l), line |-> <<>>]
             ELSE [done |-> d, line |-> Append(l, c)]
  <1>1. CASE c = NewLine
    BY <1>1 DEF TakeChar
  <1>2. CASE c # NewLine
    <2> DEFINE r == [done |-> d, line |-> l]
               m == Append(l, c)
    <2>1. TakeChar(r, c) = [r EXCEPT !.line = m]
      BY <1>2 DEF TakeChar
    <2> HIDE DEF m
    <2>2. [r EXCEPT !.line = m] = [done |-> d, line |-> m]
      OBVIOUS
    <2>3. QED
      BY <1>2, <2>1, <2>2 DEF m
  <1>3. QED
    BY <1>1, <1>2

LEMMA LinesAreTexts == Line \subseteq Seq(Char)
  <1>1. Letter \subseteq Char
    BY DEF Letter
  <1>2. QED
    BY <1>1, SeqMonotonic DEF Line

(* A text without a line feed is the line that is not done.                  *)
LEMMA TookLine ==
    ASSUME NEW s \in Line
    PROVE  Took(s) = [done |-> <<>>, line |-> s]
  <1> DEFINE T == {u \in Line : Took(u) = [done |-> <<>>, line |-> u]}
  <1>1. <<>> \in T
    BY TookEmpty, EmptySeq DEF Untaken, Line
  <1>2. ASSUME NEW u \in Line, NEW c \in Letter, u \in T PROVE Append(u, c) \in T
    <2>1. u \in Seq(Char) /\ c \in Char /\ c # NewLine
      BY LinesAreTexts DEF Letter
    <2>2. Took(Append(u, c)) = TakeChar(Took(u), c)
      BY <2>1, TookAppend
    <2>3. TakeChar(Took(u), c) = [done |-> <<>>, line |-> Append(u, c)]
      BY <1>2, <2>1 DEF TakeChar
    <2>4. Append(u, c) \in Line
      BY AppendProperties DEF Line
    <2>5. QED
      BY <2>2, <2>3, <2>4
  <1> HIDE DEF T
  <1>3. Seq(Letter) \subseteq T
    BY <1>1, <1>2, SeqInduct DEF Line
  <1>4. QED
    BY <1>3 DEF T, Line

(* A line feed ends a line, whatever follows.                               *)
LEMMA TookConcat ==
    ASSUME NEW s \in Seq(Char), NEW t \in Seq(Char)
    PROVE  Took(Append(s, NewLine) \o t) =
             [done |-> Append(Took(s).done, Took(s).line) \o Took(t).done,
              line |-> Took(t).line]
  <1> DEFINE front == Append(s, NewLine)
             broken == Append(Took(s).done, Took(s).line)
             T == {u \in Seq(Char) :
                     Took(front \o u) = [done |-> broken \o Took(u).done,
                                         line |-> Took(u).line]}
  <1>1. NewLine \in Char
    BY CharIs DEF Blank
  <1>2. front \in Seq(Char)
    BY <1>1, AppendProperties
  <1>3. broken \in Seq(Line)
    BY TookType, AppendProperties
  <1>4. Took(front) = [done |-> broken, line |-> <<>>]
    <2>1. Took(front) = TakeChar(Took(s), NewLine)
      BY <1>1, TookAppend
    <2>2. QED
      BY <2>1 DEF TakeChar
  <1> HIDE DEF front, broken
  <1>5. <<>> \in T
    <2>1. front \o <<>> = front /\ broken \o <<>> = broken
      BY <1>2, <1>3, ConcatEmptySeq
    <2>2. Took(<<>>).done = <<>> /\ Took(<<>>).line = <<>>
      BY TookEmpty DEF Untaken
    <2>3. QED
      BY <1>4, <2>1, <2>2, EmptySeq
  <1>6. ASSUME NEW u \in Seq(Char), NEW c \in Char, u \in T PROVE Append(u, c) \in T
    <2>1. front \o u \in Seq(Char) /\ Append(u, c) \in Seq(Char)
      BY <1>2, ConcatProperties, AppendProperties
    <2>2. front \o Append(u, c) = Append(front \o u, c)
      BY <1>2, ConcatThenAppend
    <2>3. Took(Append(front \o u, c)) = TakeChar(Took(front \o u), c)
      BY <2>1, TookAppend
    <2>4. Took(Append(u, c)) = TakeChar(Took(u), c)
      BY TookAppend
    <2>5. PICK d \in Seq(Line), l \in Line : Took(u) = [done |-> d, line |-> l]
      BY TookType
    <2>6. Took(front \o u) = [done |-> broken \o d, line |-> l]
      BY <1>6, <2>5
    <2>7. broken \o Append(d, l) = Append(broken \o d, l)
      BY <1>3, <2>5, ConcatThenAppend
    <2>8. CASE c = NewLine
      <3>1. Took(Append(u, c)) = [done |-> Append(d, l), line |-> <<>>]
        BY <2>4, <2>5, <2>8, TakenChar
      <3>2. Took(front \o Append(u, c)) = [done |-> Append(broken \o d, l), line |-> <<>>]
        BY <2>2, <2>3, <2>6, <2>8, TakenChar
      <3>3. Took(Append(u, c)).done = Append(d, l) /\ Took(Append(u, c)).line = <<>>
        BY <3>1
      <3>4. QED
        BY <2>1, <2>7, <3>2, <3>3
    <2>9. CASE c # NewLine
      <3>1. Took(Append(u, c)) = [done |-> d, line |-> Append(l, c)]
        <4>1. TakeChar([done |-> d, line |-> l], c) = [done |-> d, line |-> Append(l, c)]
          BY <2>9, TakenChar
        <4>2. QED
          BY <2>4, <2>5, <4>1
      <3>2. Took(front \o Append(u, c)) = [done |-> broken \o d, line |-> Append(l, c)]
        <4>1. TakeChar([done |-> broken \o d, line |-> l], c) =
                [done |-> broken \o d, line |-> Append(l, c)]
          BY <2>9, TakenChar
        <4>2. QED
          BY <2>2, <2>3, <2>6, <4>1
      <3>3. Took(Append(u, c)).done = d /\ Took(Append(u, c)).line = Append(l, c)
        BY <3>1
      <3>4. QED
        BY <2>1, <3>2, <3>3
    <2>10. QED
      BY <2>8, <2>9
  <1> HIDE DEF T
  <1>7. Seq(Char) \subseteq T
    BY <1>5, <1>6, SeqInduct
  <1>8. QED
    BY <1>7 DEF T, front, broken

(* Lines by what was taken.                                                  *)
LEMMA LinesIs ==
    ASSUME NEW s \in Seq(Char)
    PROVE  /\ Lines(s) = IF Took(s).line = <<>> THEN Took(s).done
                         ELSE Append(Took(s).done, Took(s).line)
           /\ Lines(s) \in Seq(Line)
  <1>1. Lines(s) = IF Took(s).line = <<>> THEN Took(s).done
                   ELSE Append(Took(s).done, Took(s).line)
    BY DEF Lines, Took, Untaken
  <1>2. Append(Took(s).done, Took(s).line) \in Seq(Line) /\ Took(s).done \in Seq(Line)
    BY TookType, AppendProperties
  <1>3. QED
    BY <1>1, <1>2

(* What follows after a line feed does not change the first line.            *)
LEMMA FirstLineStays ==
    ASSUME NEW s \in Seq(Char), s # <<>>, NEW t \in Seq(Char)
    PROVE  Lines(Append(s, NewLine) \o t)[1] = Lines(s)[1]
  <1> DEFINE all == Append(s, NewLine) \o t
             broken == Append(Took(s).done, Took(s).line)
  <1>1. /\ Took(s).done \in Seq(Line) /\ Took(s).line \in Line
        /\ Took(t).done \in Seq(Line) /\ Took(t).line \in Line
    BY TookType
  <1>2. broken \in Seq(Line) /\ Len(broken) = Len(Took(s).done) + 1
        /\ \A i \in 1..Len(Took(s).done) : broken[i] = Took(s).done[i]
    BY <1>1, AppendProperties
  <1>3. all \in Seq(Char)
    <2>1. NewLine \in Char
      BY CharIs DEF Blank
    <2>2. Append(s, NewLine) \in Seq(Char)
      BY <2>1, AppendProperties
    <2>3. QED
      BY <2>2, ConcatProperties
  <1>4. Took(all) = [done |-> broken \o Took(t).done, line |-> Took(t).line]
    BY TookConcat
  <1>5. Lines(s)[1] = broken[1]
    <2>1. CASE Took(s).line = <<>>
      <3>1. PICK u \in Seq(Char), c \in Char : s = Append(u, c)
        BY SequenceEmptyOrAppend
      <3>2. Took(s) = TakeChar(Took(u), c) /\ Took(u).done \in Seq(Line) /\ Took(u).line \in Line
        BY <3>1, TookAppend, TookType
      <3>3. Took(s).done = Append(Took(u).done, Took(u).line)
        <4>1. CASE c = NewLine
          BY <3>2, <4>1 DEF TakeChar
        <4>2. CASE c # NewLine
          <5>1. Took(u) \in Taken
            BY TookType
          <5>2. Took(s).line = Append(Took(u).line, c)
            BY <3>2, <4>2, <5>1 DEF TakeChar, Taken
          <5>3. c \in Letter
            BY <4>2 DEF Letter
          <5>4. QED
            BY <2>1, <3>2, <5>2, <5>3, AppendProperties DEF Line
        <4>3. QED
          BY <4>1, <4>2
      <3>4. Len(Took(s).done) >= 1 /\ Len(Took(s).done) \in Nat
        BY <1>1, <3>2, <3>3, AppendProperties, LenProperties
      <3>5. 1 \in 1..Len(Took(s).done)
        BY <3>4
      <3>6. Lines(s) = Took(s).done
        BY <2>1, LinesIs
      <3>7. QED
        BY <1>2, <3>5, <3>6
    <2>2. CASE Took(s).line # <<>>
      BY <2>2, LinesIs
    <2>3. QED
      BY <2>1, <2>2
  <1>6. 1 \in 1..Len(broken)
    BY <1>1, <1>2, LenProperties
  <1> HIDE DEF broken
  <1> DEFINE done == broken \o Took(t).done
  <1>7. done \in Seq(Line) /\ Len(done) = Len(broken) + Len(Took(t).done)
        /\ done[1] = broken[1]
    <2>1. \A i \in 1..Len(broken) : done[i] = broken[i]
      <3>1. broken \in Seq(Line) /\ Took(t).done \in Seq(Line)
        BY <1>1, <1>2
      <3>2. QED
        BY <3>1, ConcatOf
    <2>2. broken \in Seq(Line) /\ Took(t).done \in Seq(Line)
      BY <1>1, <1>2
    <2>3. done \in Seq(Line) /\ Len(done) = Len(broken) + Len(Took(t).done)
      BY <2>2, ConcatProperties
    <2>4. QED
      BY <1>6, <2>1, <2>3
  <1> HIDE DEF done
  <1>8. CASE Took(t).line = <<>>
    <2>1. Took(all).line = <<>> /\ Took(all).done = done
      BY <1>4, <1>8 DEF done
    <2>2. Lines(all) = done
      BY <1>3, <2>1, LinesIs
    <2>3. QED
      BY <1>5, <1>7, <2>2
  <1>9. CASE Took(t).line # <<>>
    <2>1. Lines(all) = Append(done, Took(t).line)
      <3>1. Took(all).line = Took(t).line /\ Took(all).done = done
        BY <1>4 DEF done
      <3>2. QED
        BY <1>3, <1>9, <3>1, LinesIs
    <2>2. 1 \in 1..Len(done)
      BY <1>1, <1>6, <1>7, LenProperties
    <2>3. Append(done, Took(t).line)[1] = done[1]
      BY <1>1, <1>7, <2>2, AppendProperties
    <2>4. QED
      BY <1>5, <1>7, <2>1, <2>3
  <1>10. QED
    BY <1>8, <1>9

-----------------------------------------------------------------------------
(* Element by element.                                                      *)

EachOf(G, s) == [i \in DOMAIN s |-> G[s[i]]]

(* What is spread is a function into sequences.                             *)
Spread(X, Y) == [X -> Seq(Y)]

LEMMA EachAppend ==
    ASSUME NEW G, NEW S, NEW s \in Seq(S), NEW e \in S
    PROVE  EachOf(G, Append(s, e)) = Append(EachOf(G, s), G[e])
  <1> DEFINE n == Len(s)
             t == Append(s, e)
             es == EachOf(G, s)
             et == EachOf(G, t)
  <1>1. n \in Nat /\ DOMAIN s = 1..n /\ DOMAIN t = 1..(n + 1) /\ t[n + 1] = e
        /\ \A i \in 1..n : t[i] = s[i]
    BY LenProperties, AppendProperties
  <1> HIDE DEF n, t
  <1>2. DOMAIN es = 1..n /\ DOMAIN et = 1..(n + 1) /\ et[n + 1] = G[e]
        /\ \A i \in 1..n : et[i] = es[i]
    BY <1>1 DEF EachOf
  <1>3. es = [i \in 1..n |-> G[s[i]]] /\ et = [i \in 1..(n + 1) |-> G[t[i]]]
    BY <1>1 DEF EachOf
  <1> DEFINE R == {G[s[i]] : i \in 1..n} \cup {G[e]}
  <1>4. es \in Seq(R) /\ et \in Seq(R) /\ Len(es) = n /\ Len(et) = n + 1
    <2>1. es \in [1..n -> R] /\ et \in [1..(n + 1) -> R]
      BY <1>1, <1>2, <1>3
    <2> HIDE DEF R
    <2>2. es \in Seq(R) /\ et \in Seq(R)
      BY <1>1, <2>1
    <2>3. QED
      BY <1>1, <1>2, <2>2, LenProperties
  <1>5. G[e] \in R
    OBVIOUS
  <1> HIDE DEF R, es, et
  <1> DEFINE last == G[e]
  <1>6. last \in R /\ et[n + 1] = last
    BY <1>2, <1>5
  <1> HIDE DEF last
  <1>7. Append(es, last) \in Seq(R) /\ Len(Append(es, last)) = n + 1
        /\ Append(es, last)[n + 1] = last
        /\ \A i \in 1..n : Append(es, last)[i] = es[i]
    BY <1>4, <1>6, AppendProperties
  <1>8. \A i \in 1..(n + 1) : et[i] = Append(es, last)[i]
    BY <1>1, <1>2, <1>6, <1>7
  <1>9. et = Append(es, last)
    BY <1>4, <1>7, <1>8, SeqEqual
  <1>10. QED
    BY <1>9 DEF es, et, t, last

LEMMA EachEmpty ==
    ASSUME NEW G
    PROVE  EachOf(G, <<>>) = <<>>
  BY DEF EachOf

LEMMA EachType ==
    ASSUME NEW X, NEW Y, NEW G \in Spread(X, Y), NEW s \in Seq(X)
    PROVE  EachOf(G, s) \in Seq(Seq(Y)) /\ Len(EachOf(G, s)) = Len(s)
  <1>1. \A i \in DOMAIN s : s[i] \in X
    BY ElementOfSeq
  <1>2. EachOf(G, s) \in [1..Len(s) -> Seq(Y)]
    BY <1>1, LenProperties DEF EachOf, Spread
  <1>3. Len(s) \in Nat
    BY LenProperties
  <1>4. QED
    BY <1>2, <1>3, LenProperties

(* Each element gives a text, and these are put together.                   *)
FlatOf(G, s) == FlattenSeq(EachOf(G, s))

LEMMA FlatEmpty ==
    ASSUME NEW G
    PROVE  FlatOf(G, <<>>) = <<>>
  BY EachEmpty, FlattenEmpty DEF FlatOf

LEMMA FlatType ==
    ASSUME NEW X, NEW Y, NEW G \in Spread(X, Y), NEW s \in Seq(X)
    PROVE  FlatOf(G, s) \in Seq(Y)
  BY EachType, FlattenType DEF FlatOf

LEMMA FlatAppend ==
    ASSUME NEW X, NEW Y, NEW G \in Spread(X, Y), NEW s \in Seq(X), NEW e \in X
    PROVE  FlatOf(G, Append(s, e)) = FlatOf(G, s) \o G[e]
  <1> DEFINE last == G[e]
  <1>1. last \in Seq(Y)
    BY DEF Spread
  <1>2. EachOf(G, Append(s, e)) = Append(EachOf(G, s), last)
    BY EachAppend
  <1>3. EachOf(G, s) \in Seq(Seq(Y))
    BY EachType
  <1> HIDE DEF last
  <1>4. FlattenSeq(Append(EachOf(G, s), last)) = FlattenSeq(EachOf(G, s)) \o last
    BY <1>1, <1>3, FlattenAppend
  <1>5. QED
    BY <1>2, <1>4 DEF FlatOf, last

(* A concatenation is mapped and flattened in two.                           *)
LEMMA FlatConcat ==
    ASSUME NEW X, NEW Y, NEW G \in Spread(X, Y), NEW s \in Seq(X), NEW t \in Seq(X)
    PROVE  FlatOf(G, s \o t) = FlatOf(G, s) \o FlatOf(G, t)
  <1> DEFINE T == {u \in Seq(X) : FlatOf(G, s \o u) = FlatOf(G, s) \o FlatOf(G, u)}
             front == FlatOf(G, s)
  <1>1. front \in Seq(Y)
    BY FlatType
  <1>2. <<>> \in T
    <2>1. front \o <<>> = front
      BY <1>1, ConcatEmptySeq
    <2>2. QED
      BY <2>1, FlatEmpty, EmptySeq, ConcatEmptySeq
  <1>3. ASSUME NEW u \in Seq(X), NEW e \in X, u \in T PROVE Append(u, e) \in T
    <2> DEFINE last == G[e]
               mid == FlatOf(G, u)
    <2>1. s \o u \in Seq(X) /\ Append(u, e) \in Seq(X)
      BY ConcatProperties, AppendProperties
    <2>2. s \o Append(u, e) = Append(s \o u, e)
      BY ConcatThenAppend
    <2>3. FlatOf(G, Append(s \o u, e)) = FlatOf(G, s \o u) \o last
      BY <2>1, FlatAppend
    <2>4. FlatOf(G, Append(u, e)) = mid \o last
      BY FlatAppend
    <2>5. FlatOf(G, s \o u) = front \o mid
      BY <1>3
    <2>6. mid \in Seq(Y) /\ last \in Seq(Y)
      BY FlatType DEF Spread
    <2> HIDE DEF front, mid, last
    <2>7. (front \o mid) \o last = front \o (mid \o last)
      BY <1>1, <2>6, ConcatAssociative
    <2>8. FlatOf(G, s \o Append(u, e)) = front \o FlatOf(G, Append(u, e))
      BY <2>2, <2>3, <2>4, <2>5, <2>7
    <2>9. QED
      BY <2>1, <2>8 DEF front
  <1> HIDE DEF T, front
  <1>4. Seq(X) \subseteq T
    BY <1>2, <1>3, SeqInduct
  <1>5. QED
    BY <1>4 DEF T, front

-----------------------------------------------------------------------------
(* The lines of a text that hold something.                                 *)

Word == Line \ {<<>>}
WordOf == [w \in Line |-> IF w = <<>> THEN <<>> ELSE <<w>>]
Words(text) == Worded(Lines(text))

LEMMA OnlyOne ==
    ASSUME NEW S, NEW e \in S
    PROVE  <<e>> \in Seq(S) /\ Len(<<e>>) = 1 /\ <<e>>[1] = e
  OBVIOUS

LEMMA WordOfIs ==
    /\ WordOf \in Spread(Line, Line) /\ WordOf \in Spread(Line, Word)
    /\ WordOf[<<>>] = <<>> /\ \A w \in Word : WordOf[w] = <<w>>
  <1>1. <<>> \in Line
    BY EmptySeq DEF Line
  <1>2. \A w \in Line : WordOf[w] = IF w = <<>> THEN <<>> ELSE <<w>>
    BY DEF WordOf
  <1>3. \A w \in Word : <<w>> \in Seq(Word) /\ <<w>> \in Seq(Line)
    BY OnlyOne DEF Word
  <1>4. <<>> \in Seq(Word) /\ <<>> \in Seq(Line)
    BY EmptySeq
  <1>5. \A w \in Line : WordOf[w] \in Seq(Line) /\ WordOf[w] \in Seq(Word)
    BY <1>2, <1>3, <1>4 DEF Word
  <1>6. QED
    BY <1>1, <1>2, <1>5 DEF WordOf, Word, Spread

LEMMA WordedIs ==
    ASSUME NEW ls \in Seq(Line)
    PROVE  Worded(ls) = FlatOf(WordOf, ls) /\ Worded(ls) \in Seq(Word)
  <1>1. \A i \in DOMAIN ls : ls[i] \in Line
    BY ElementOfSeq
  <1>2. EachOf(WordOf, ls) = [i \in DOMAIN ls |-> IF ls[i] = <<>> THEN <<>> ELSE <<ls[i]>>]
    BY <1>1 DEF EachOf, WordOf
  <1>3. FlatOf(WordOf, ls) \in Seq(Word)
    BY WordOfIs, FlatType
  <1>4. QED
    BY <1>2, <1>3 DEF Worded, FlatOf

LEMMA WordedAppend ==
    ASSUME NEW ls \in Seq(Line), NEW l \in Line
    PROVE  Worded(Append(ls, l)) = IF l = <<>> THEN Worded(ls) ELSE Append(Worded(ls), l)
  <1>1. Append(ls, l) \in Seq(Line)
    BY AppendProperties
  <1>2. Worded(Append(ls, l)) = Worded(ls) \o WordOf[l]
    BY <1>1, WordedIs, WordOfIs, FlatAppend
  <1>3. Worded(ls) \in Seq(Word)
    BY WordedIs
  <1>4. CASE l = <<>>
    BY <1>2, <1>3, <1>4, WordOfIs, ConcatEmptySeq
  <1>5. CASE l # <<>>
    <2>1. l \in Word /\ WordOf[l] = <<l>>
      BY <1>5, WordOfIs DEF Word
    <2>2. Append(Worded(ls), l) = Worded(ls) \o <<l>>
      BY <1>3, <2>1, AppendIsConcat
    <2>3. QED
      BY <1>2, <1>5, <2>1, <2>2
  <1>6. QED
    BY <1>4, <1>5

(* The words of concatenated lines are concatenated.                         *)
LEMMA WordedConcat ==
    ASSUME NEW ls \in Seq(Line), NEW ks \in Seq(Line)
    PROVE  Worded(ls \o ks) = Worded(ls) \o Worded(ks)
  <1>1. ls \o ks \in Seq(Line)
    BY ConcatProperties
  <1>2. FlatOf(WordOf, ls \o ks) = FlatOf(WordOf, ls) \o FlatOf(WordOf, ks)
    BY WordOfIs, FlatConcat
  <1>3. QED
    BY <1>1, <1>2, WordedIs

(* The words of a text are those of what was taken of it.                    *)
LEMMA WordsIs ==
    ASSUME NEW s \in Seq(Char)
    PROVE  /\ Words(s) = Worded(Append(Took(s).done, Took(s).line))
           /\ Words(s) \in Seq(Word)
  <1>1. Took(s).done \in Seq(Line) /\ Took(s).line \in Line
    BY TookType
  <1>2. Append(Took(s).done, Took(s).line) \in Seq(Line)
    BY <1>1, AppendProperties
  <1>3. Words(s) = Worded(Append(Took(s).done, Took(s).line))
    <2>1. CASE Took(s).line = <<>>
      <3>1. Worded(Append(Took(s).done, Took(s).line)) = Worded(Took(s).done)
        BY <1>1, <2>1, WordedAppend
      <3>2. QED
        BY <2>1, <3>1, LinesIs DEF Words
    <2>2. CASE Took(s).line # <<>>
      BY <2>2, LinesIs DEF Words
    <2>3. QED
      BY <2>1, <2>2
  <1>4. QED
    BY <1>2, <1>3, WordedIs

(* A line is one word, or none when it is empty.                             *)
LEMMA WordsOfLine ==
    ASSUME NEW s \in Line
    PROVE  Words(s) = IF s = <<>> THEN <<>> ELSE <<s>>
  <1>1. Took(s) = [done |-> <<>>, line |-> s] /\ s \in Seq(Char)
    BY TookLine, LinesAreTexts
  <1>2. <<>> \in Seq(Line) /\ Worded(<<>>) = <<>>
    BY WordedIs, FlatEmpty, EmptySeq
  <1>3. Worded(Append(<<>>, s)) = IF s = <<>> THEN <<>> ELSE <<s>>
    <2> DEFINE none == <<>>
    <2>1. none \in Seq(Line) /\ Worded(none) = <<>>
      BY <1>2
    <2> HIDE DEF none
    <2>2. Worded(Append(none, s)) = IF s = <<>> THEN Worded(none) ELSE Append(Worded(none), s)
      BY <2>1, WordedAppend
    <2>3. QED
      BY <2>1, <2>2 DEF none
  <1>4. Took(s).done = <<>> /\ Took(s).line = s
    BY <1>1
  <1>5. Words(s) = Worded(Append(Took(s).done, Took(s).line))
    BY <1>1, WordsIs
  <1>6. QED
    BY <1>3, <1>4, <1>5

(* Lines that are joined by a line feed are read as they were.              *)
LEMMA WordsBreak ==
    ASSUME NEW s \in Seq(Char), NEW t \in Seq(Char)
    PROVE  Words(Append(s, NewLine) \o t) = Words(s) \o Words(t)
  <1> DEFINE all == Append(s, NewLine) \o t
  <1>1. all \in Seq(Char)
    <2>1. Append(s, NewLine) \in Seq(Char)
      BY CharIs, AppendProperties DEF Blank
    <2>2. QED
      BY <2>1, ConcatProperties
  <1> DEFINE a == Append(Took(s).done, Took(s).line)
             c == Took(t).done
             d == Took(t).line
  <1>2. a \in Seq(Line) /\ c \in Seq(Line) /\ d \in Line
    BY TookType, AppendProperties
  <1>3. Took(all) = [done |-> a \o c, line |-> d]
    BY TookConcat
  <1>4. Words(all) = Worded(Append(Took(all).done, Took(all).line))
    BY <1>1, WordsIs
  <1>5. Words(s) = Worded(a) /\ Words(t) = Worded(Append(c, d))
    BY WordsIs
  <1> HIDE DEF all, a, c, d
  <1>6. Took(all).done = a \o c /\ Took(all).line = d
    BY <1>3
  <1>7. Append(a \o c, d) = a \o Append(c, d)
    <2>1. \A x, y \in Seq(Line) : \A e \in Line : x \o Append(y, e) = Append(x \o y, e)
      BY ConcatThenAppend
    <2>2. QED
      BY <1>2, <2>1
  <1>8. Append(c, d) \in Seq(Line)
    BY <1>2, AppendProperties
  <1>9. Worded(a \o Append(c, d)) = Worded(a) \o Worded(Append(c, d))
    BY <1>2, <1>8, WordedConcat
  <1>10. QED
    BY <1>4, <1>5, <1>6, <1>7, <1>9 DEF all

(* The first line of a text without a line feed is the text.                 *)
LEMMA FirstOfLine ==
    ASSUME NEW s \in Word
    PROVE  Lines(s)[1] = s
  <1>1. s \in Line /\ s # <<>> /\ s \in Seq(Char)
    BY LinesAreTexts DEF Word
  <1>2. Took(s) = [done |-> <<>>, line |-> s]
    BY <1>1, TookLine
  <1>3. Took(s).done = <<>> /\ Took(s).line = s
    BY <1>2
  <1>4. Lines(s) = Append(Took(s).done, Took(s).line)
    BY <1>1, <1>3, LinesIs
  <1>5. Lines(s) = <<s>>
    BY <1>3, <1>4
  <1>6. QED
    BY <1>5

-----------------------------------------------------------------------------
(* The words of a mail's parts.                                             *)

Pieces(chunks) == Worded(FlattenSeq([i \in DOMAIN chunks |-> Lines(chunks[i])]))
LinesOf == [t \in Seq(Char) |-> Lines(t)]

(* The words of the parts, by the lines of each.                             *)
LEMMA PiecesIs ==
    ASSUME NEW chunks \in Seq(Seq(Char))
    PROVE  /\ FlatOf(LinesOf, chunks) \in Seq(Line)
           /\ Pieces(chunks) = Worded(FlatOf(LinesOf, chunks))
           /\ Pieces(chunks) \in Seq(Word)
  <1>1. \A i \in DOMAIN chunks : chunks[i] \in Seq(Char)
    BY ElementOfSeq
  <1>2. EachOf(LinesOf, chunks) = [i \in DOMAIN chunks |-> Lines(chunks[i])]
    BY <1>1 DEF EachOf, LinesOf
  <1>3. LinesOf \in Spread(Seq(Char), Line)
    BY LinesIs DEF LinesOf, Spread
  <1>4. FlatOf(LinesOf, chunks) \in Seq(Line)
    BY <1>3, FlatType
  <1>5. QED
    BY <1>2, <1>4, WordedIs DEF FlatOf, Pieces

(* One part more adds its words.                                             *)
LEMMA PiecesAppend ==
    ASSUME NEW chunks \in Seq(Seq(Char)), NEW t \in Seq(Char)
    PROVE  Pieces(Append(chunks, t)) = Pieces(chunks) \o Words(t)
  <1>1. Append(chunks, t) \in Seq(Seq(Char))
    BY AppendProperties
  <1>2. LinesOf \in Spread(Seq(Char), Line) /\ LinesOf[t] = Lines(t) /\ Lines(t) \in Seq(Line)
    BY LinesIs DEF LinesOf, Spread
  <1>3. FlatOf(LinesOf, Append(chunks, t)) = FlatOf(LinesOf, chunks) \o Lines(t)
    BY <1>2, FlatAppend
  <1>4. FlatOf(LinesOf, chunks) \in Seq(Line)
    BY PiecesIs
  <1>5. Worded(FlatOf(LinesOf, chunks) \o Lines(t)) = Worded(FlatOf(LinesOf, chunks)) \o Words(t)
    BY <1>2, <1>4, WordedConcat DEF Words
  <1>6. QED
    BY <1>1, <1>3, <1>5, PiecesIs

LEMMA PiecesEmpty == Pieces(<<>>) = <<>>
  <1>1. <<>> \in Seq(Seq(Char)) /\ <<>> \in Seq(Line)
    BY EmptySeq
  <1>2. QED
    BY <1>1, PiecesIs, FlatEmpty, WordedIs

(* Words that are parts of their own.                                       *)
LEMMA PiecesOfWords ==
    ASSUME NEW chunks \in Seq(Seq(Char)), NEW q \in Seq(Word)
    PROVE  /\ chunks \o q \in Seq(Seq(Char))
           /\ Pieces(chunks \o q) = Pieces(chunks) \o q
  <1>1. Word \subseteq Seq(Char) /\ Word \subseteq Line
    BY LinesAreTexts DEF Word
  <1>2. Seq(Word) \subseteq Seq(Seq(Char))
    BY <1>1, SeqMonotonic
  <1> DEFINE T == {u \in Seq(Word) : Pieces(chunks \o u) = Pieces(chunks) \o u}
             front == Pieces(chunks)
  <1>3. front \in Seq(Word)
    BY PiecesIs
  <1>4. <<>> \in T
    BY <1>3, EmptySeq, ConcatEmptySeq
  <1>5. ASSUME NEW u \in Seq(Word), NEW w \in Word, u \in T PROVE Append(u, w) \in T
    <2>1. w \in Seq(Char) /\ Words(w) = <<w>> /\ u \in Seq(Seq(Char))
      BY <1>1, <1>2, WordsOfLine DEF Word
    <2>2. chunks \o u \in Seq(Seq(Char)) /\ Append(u, w) \in Seq(Word)
      BY <2>1, ConcatProperties, AppendProperties
    <2>3. chunks \o Append(u, w) = Append(chunks \o u, w)
      BY <2>1, ConcatThenAppend
    <2>4. Pieces(Append(chunks \o u, w)) = Pieces(chunks \o u) \o <<w>>
      BY <2>1, <2>2, PiecesAppend
    <2>5. Pieces(chunks \o u) = front \o u
      BY <1>5
    <2> HIDE DEF front
    <2>6. front \o u \in Seq(Word)
      BY <1>3, ConcatProperties
    <2>7. (front \o u) \o <<w>> = Append(front \o u, w)
      BY <2>6, AppendIsConcat
    <2>8. Append(front \o u, w) = front \o Append(u, w)
      <3>1. \A x, y \in Seq(Word) : \A e \in Word : x \o Append(y, e) = Append(x \o y, e)
        BY ConcatThenAppend
      <3>2. QED
        BY <1>3, <3>1
    <2>9. Pieces(chunks \o Append(u, w)) = front \o Append(u, w)
      BY <2>3, <2>4, <2>5, <2>7, <2>8
    <2>10. QED
      BY <2>2, <2>9 DEF front
  <1> HIDE DEF T, front
  <1>6. Seq(Word) \subseteq T
    BY <1>4, <1>5, SeqInduct
  <1>7. chunks \o q \in Seq(Seq(Char))
    <2>1. q \in Seq(Seq(Char))
      BY <1>2
    <2>2. QED
      BY <2>1, ConcatProperties
  <1>8. QED
    BY <1>6, <1>7 DEF T, front

-----------------------------------------------------------------------------
(* Where the texts of a sequence end.                                       *)

(* An end lies within the whole.                                             *)
LEMMA EndIs ==
    ASSUME NEW S, NEW ss \in Seq(Seq(S)), NEW k \in 0..Len(ss)
    PROVE  /\ SubSeq(ss, 1, k) \in Seq(Seq(S)) /\ End(ss, k) \in Nat
           /\ End(ss, k) <= Len(FlattenSeq(ss)) /\ Len(FlattenSeq(ss)) \in Nat
  <1> DEFINE n == Len(ss)
             front == SubSeq(ss, 1, k)
             rest == SubSeq(ss, k + 1, n)
  <1>1. n \in Nat /\ k \in 0..n /\ \A i \in 1..n : ss[i] \in Seq(S)
    BY LenProperties
  <1> HIDE DEF n
  <1>2. front \in Seq(Seq(S)) /\ rest \in Seq(Seq(S))
    BY <1>1, SubSeqProperties
  <1>3. front \o rest = ss
    <2>1. 1 \in 1..(n + 1) /\ k \in (1 - 1)..n /\ n \in k..n
      BY <1>1
    <2>2. SubSeq(ss, 1, k) \o SubSeq(ss, k + 1, n) = SubSeq(ss, 1, n)
      BY <2>1, ConcatAdjacentSubSeq DEF n
    <2>3. QED
      BY <2>2, SubSeqFull DEF n
  <1> HIDE DEF front, rest
  <1>4. FlattenSeq(ss) = FlattenSeq(front) \o FlattenSeq(rest)
    BY <1>2, <1>3, FlattenConcat
  <1>5. FlattenSeq(front) \in Seq(S) /\ FlattenSeq(rest) \in Seq(S)
    BY <1>2, FlattenType
  <1>6. /\ Len(FlattenSeq(front)) \in Nat /\ Len(FlattenSeq(rest)) \in Nat
        /\ Len(FlattenSeq(ss)) = Len(FlattenSeq(front)) + Len(FlattenSeq(rest))
    BY <1>4, <1>5, LenProperties, ConcatProperties
  <1>7. QED
    BY <1>2, <1>6 DEF End, front

LEMMA EndFirst ==
    ASSUME NEW ss
    PROVE  End(ss, 0) = 0
  <1>1. SubSeq(ss, 1, 0) = <<>>
    BY SubSeqEmpty
  <1>2. QED
    <2>1. Len(<<>>) = 0
      OBVIOUS
    <2>2. End(ss, 0) = Len(FlattenSeq(<<>>))
      BY <1>1 DEF End
    <2>3. QED
      BY <2>1, <2>2, FlattenEmpty

LEMMA EndLast ==
    ASSUME NEW S, NEW ss \in Seq(S)
    PROVE  End(ss, Len(ss)) = Len(FlattenSeq(ss))
  BY SubSeqFull DEF End

(* The ends of what comes first stay where they were.                        *)
LEMMA EndInFront ==
    ASSUME NEW S, NEW ss \in Seq(S), NEW tt \in Seq(S), NEW k \in 0..Len(ss)
    PROVE  End(ss \o tt, k) = End(ss, k)
  <1>1. CASE k = 0
    BY <1>1, EndFirst
  <1>2. CASE k # 0
    <2>1. Len(ss) \in Nat /\ k \in 1..Len(ss) /\ 1 \in 1..Len(ss)
      BY <1>2, LenProperties
    <2>2. SubSeq(ss \o tt, 1, k) = SubSeq(ss, 1, k)
      BY <2>1, SubSeqOfConcat1
    <2>3. QED
      BY <2>2 DEF End
  <1>3. QED
    BY <1>1, <1>2

(* Those of what comes after it are moved by its length.                     *)
LEMMA EndBehind ==
    ASSUME NEW S, NEW ss \in Seq(Seq(S)), NEW tt \in Seq(Seq(S)), NEW k \in 1..Len(tt)
    PROVE  End(ss \o tt, Len(ss) + k) = Len(FlattenSeq(ss)) + End(tt, k)
  <1> DEFINE m == Len(ss)
             n == Len(tt)
             all == ss \o tt
             front == SubSeq(tt, 1, k)
  <1>1. m \in Nat /\ n \in Nat /\ all \in Seq(Seq(S)) /\ Len(all) = m + n
        /\ k \in 1..n /\ \A i \in 1..n : tt[i] \in Seq(S)
    BY LenProperties, ConcatProperties
  <1>2. SubSeq(all, 1, m) = ss
    <2>1. CASE m = 0
      <3>1. SubSeq(all, 1, m) = <<>>
        BY <2>1, SubSeqEmpty
      <3>2. ss = <<>>
        BY <2>1, EmptySeq
      <3>3. QED
        BY <3>1, <3>2
    <2>2. CASE m # 0
      <3>1. 1 \in 1..m /\ m \in 1..m
        BY <1>1, <2>2
      <3>2. SubSeq(all, 1, m) = SubSeq(ss, 1, m)
        BY <3>1, SubSeqOfConcat1
      <3>3. QED
        BY <3>2, SubSeqFull
    <2>3. QED
      BY <2>1, <2>2
  <1>3. SubSeq(all, m + 1, m + k) = front
    <2>1. m + 1 \in (m + 1)..(m + n) /\ m + k \in (m + 1)..(m + n)
          /\ (m + 1) - m = 1 /\ (m + k) - m = k
      BY <1>1
    <2>2. SubSeq(all, m + 1, m + k) = SubSeq(tt, (m + 1) - m, (m + k) - m)
      BY <2>1, SubSeqOfConcat2
    <2>3. QED
      BY <2>1, <2>2
  <1> HIDE DEF m, n, all
  <1>4. SubSeq(all, 1, m) \o SubSeq(all, m + 1, m + k) = SubSeq(all, 1, m + k)
    <2>1. 1 \in 1..(Len(all) + 1) /\ m \in (1 - 1)..Len(all) /\ m + k \in m..Len(all)
      BY <1>1
    <2>2. QED
      BY <1>1, <2>1, ConcatAdjacentSubSeq
  <1>5. front \in Seq(Seq(S))
    BY <1>1, SubSeqProperties
  <1> HIDE DEF front
  <1>6. FlattenSeq(ss \o front) = FlattenSeq(ss) \o FlattenSeq(front)
    BY <1>5, FlattenConcat
  <1>7. Len(FlattenSeq(ss) \o FlattenSeq(front)) = Len(FlattenSeq(ss)) + Len(FlattenSeq(front))
    BY <1>5, FlattenType, ConcatProperties
  <1>8. QED
    BY <1>2, <1>3, <1>4, <1>6, <1>7 DEF End, m, all, front

(* The ends of a concatenation are those of both.                            *)
LEMMA EndsConcat ==
    ASSUME NEW S, NEW ss \in Seq(Seq(S)), NEW tt \in Seq(Seq(S))
    PROVE  /\ Ends(ss) \subseteq Ends(ss \o tt)
           /\ \A e \in Ends(ss \o tt) :
                e \in Ends(ss) \/ \E k \in 1..Len(tt) : e = Len(FlattenSeq(ss)) + End(tt, k)
           /\ \A k \in 1..Len(tt) : Len(FlattenSeq(ss)) + End(tt, k) \in Ends(ss \o tt)
  <1> DEFINE m == Len(ss)
             n == Len(tt)
             all == ss \o tt
  <1>1. m \in Nat /\ n \in Nat /\ DOMAIN ss = 1..m /\ DOMAIN all = 1..(m + n)
    <2>1. all \in Seq(Seq(S)) /\ Len(all) = m + n
      BY ConcatProperties
    <2>2. QED
      BY <2>1, LenProperties
  <1>2. \A k \in 1..m : End(all, k) = End(ss, k)
    BY <1>1, EndInFront
  <1>3. \A k \in 1..n : End(all, m + k) = Len(FlattenSeq(ss)) + End(tt, k)
    BY EndBehind
  <1> HIDE DEF m, n, all
  <1>4. Ends(ss) \subseteq Ends(all)
    BY <1>1, <1>2 DEF Ends
  <1>5. ASSUME NEW e \in Ends(all)
        PROVE  e \in Ends(ss) \/ \E k \in 1..n : e = Len(FlattenSeq(ss)) + End(tt, k)
    <2>1. PICK i \in 1..(m + n) : e = End(all, i)
      BY <1>1 DEF Ends
    <2>2. CASE i <= m
      <3>1. i \in 1..m
        BY <1>1, <2>2
      <3>2. QED
        BY <1>1, <1>2, <2>1, <3>1 DEF Ends
    <2>3. CASE i > m
      <3>1. i - m \in 1..n /\ m + (i - m) = i
        BY <1>1, <2>3
      <3>2. QED
        BY <1>3, <2>1, <3>1
    <2>4. QED
      BY <1>1, <2>2, <2>3
  <1>6. ASSUME NEW k \in 1..n PROVE Len(FlattenSeq(ss)) + End(tt, k) \in Ends(all)
    <2>1. m + k \in 1..(m + n)
      BY <1>1
    <2>2. QED
      BY <1>1, <1>3, <2>1 DEF Ends
  <1>7. QED
    BY <1>4, <1>5, <1>6 DEF all, n

LEMMA EndOfOne ==
    ASSUME NEW S, NEW t \in Seq(S)
    PROVE  /\ <<t>> \in Seq(Seq(S)) /\ Len(<<t>>) = 1 /\ 1..1 = {1}
           /\ End(<<t>>, 1) = Len(t)
  <1>1. <<t>> \in Seq(Seq(S)) /\ FlattenSeq(<<t>>) = t
    BY FlattenOne
  <1>2. Len(<<t>>) = 1 /\ 1..1 = {1}
    OBVIOUS
  <1> DEFINE one == <<t>>
  <1> HIDE DEF one
  <1>3. End(one, Len(one)) = Len(FlattenSeq(one))
    BY <1>1, EndLast DEF one
  <1>4. QED
    BY <1>1, <1>2, <1>3 DEF one

-----------------------------------------------------------------------------
(* Pieces that hold all of the lines, and cut none that fits.               *)

Uncut(pieces, lines, k) ==
    Units(lines[k]) <= MaxLen =>
        Ends(pieces) \cap (End(lines, k - 1) + 1)..(End(lines, k) - 1) = {}

Split(pieces, lines) ==
    /\ FlattenSeq(pieces) = FlattenSeq(lines)
    /\ Ends(lines) \subseteq Ends(pieces)
    /\ \A k \in DOMAIN lines : Uncut(pieces, lines, k)

(* A line is cut into pieces: one piece when it fits.                       *)
CutInto(line, q) ==
    /\ q \in Seq(Word) /\ q # <<>> /\ FlattenSeq(q) = line
    /\ Units(line) <= MaxLen => q = <<line>>

(* A further line that is kept whole, or cut because it is too long, keeps   *)
(* the pieces a split of the lines.                                          *)
LEMMA SplitExtends ==
    ASSUME NEW pieces \in Seq(Word), NEW lines \in Seq(Word), Split(pieces, lines),
           NEW line \in Word, NEW q, CutInto(line, q)
    PROVE  Split(pieces \o q, Append(lines, line))
  <1> DEFINE T == Len(FlattenSeq(pieces))
             m == Len(lines)
             n == Len(q)
             all == pieces \o q
             more == lines \o <<line>>
  <1>1. Word \subseteq Seq(Letter)
    BY DEF Word, Line
  <1>2. Seq(Word) \subseteq Seq(Seq(Letter))
    BY <1>1, SeqMonotonic
  <1>3. /\ pieces \in Seq(Seq(Letter)) /\ lines \in Seq(Seq(Letter))
        /\ q \in Seq(Seq(Letter)) /\ line \in Seq(Letter)
    BY <1>1, <1>2 DEF CutInto
  <1>4. Append(lines, line) = more
    BY AppendIsConcat
  <1>5. <<line>> \in Seq(Seq(Letter)) /\ FlattenSeq(<<line>>) = line
        /\ Len(<<line>>) = 1 /\ 1..1 = {1} /\ End(<<line>>, 1) = Len(line)
    BY <1>3, FlattenOne, EndOfOne
  <1>6. T \in Nat /\ T = Len(FlattenSeq(lines)) /\ m \in Nat /\ n \in Nat \ {0}
        /\ Len(line) \in Nat
    BY <1>3, FlattenType, LenProperties, EmptySeq DEF Split, CutInto
  <1>7. FlattenSeq(all) = FlattenSeq(more)
    <2>1. FlattenSeq(all) = FlattenSeq(pieces) \o line
      BY <1>3, FlattenConcat DEF CutInto
    <2>2. FlattenSeq(more) = FlattenSeq(lines) \o line
      BY <1>3, <1>5, FlattenConcat
    <2>3. QED
      BY <2>1, <2>2 DEF Split
  <1>8. /\ Ends(pieces) \subseteq Ends(all)
        /\ \A e \in Ends(all) : e \in Ends(pieces) \/ \E k \in 1..n : e = T + End(q, k)
        /\ \A k \in 1..n : T + End(q, k) \in Ends(all)
    BY <1>3, EndsConcat
  <1>9. \A e \in Ends(more) : e \in Ends(lines) \/ e = T + Len(line)
    <2> DEFINE one == <<line>>
    <2>1. one \in Seq(Seq(Letter)) /\ Len(one) = 1
      BY <1>5
    <2> HIDE DEF one
    <2>2. \A e \in Ends(lines \o one) :
            e \in Ends(lines) \/ \E k \in 1..Len(one) : e = Len(FlattenSeq(lines)) + End(one, k)
      BY <1>3, <2>1, EndsConcat
    <2>3. \A e \in Ends(more) :
            e \in Ends(lines) \/ \E k \in 1..1 : e = Len(FlattenSeq(lines)) + End(<<line>>, k)
      BY <2>1, <2>2 DEF one
    <2>4. QED
      BY <1>5, <1>6, <2>3
  <1>10. End(q, n) = Len(line)
    BY <1>3, EndLast DEF CutInto
  <1>11. Ends(more) \subseteq Ends(all)
    <2>1. n \in 1..n
      BY <1>6
    <2>2. T + Len(line) \in Ends(all)
      BY <1>8, <1>10, <2>1
    <2>3. QED
      BY <1>8, <1>9, <2>2 DEF Split
  <1>12. /\ \A k \in 0..m : End(more, k) = End(lines, k) /\ End(lines, k) \in Nat
                            /\ End(lines, k) <= T
         /\ End(more, m + 1) = T + Len(line) /\ End(lines, m) = T
    <2>1. \A k \in 0..m : End(more, k) = End(lines, k)
      BY <1>3, <1>5, EndInFront
    <2>2. \A k \in 0..m : End(lines, k) \in Nat /\ End(lines, k) <= T
      BY <1>3, <1>6, EndIs
    <2>4. End(more, m + 1) = Len(FlattenSeq(lines)) + End(<<line>>, 1)
      <3> DEFINE one == <<line>>
      <3>1. one \in Seq(Seq(Letter)) /\ 1 \in 1..Len(one)
        BY <1>5
      <3> HIDE DEF one
      <3>2. End(lines \o one, Len(lines) + 1) = Len(FlattenSeq(lines)) + End(one, 1)
        BY <1>3, <3>1, EndBehind
      <3>3. QED
        BY <3>2 DEF one
    <2>5. End(lines, m) = T
      BY <1>3, <1>6, EndLast
    <2>6. QED
      BY <1>5, <1>6, <2>1, <2>2, <2>4, <2>5
  <1>13. /\ DOMAIN lines = 1..m /\ DOMAIN more = 1..(m + 1) /\ more[m + 1] = line
         /\ \A k \in 1..m : more[k] = lines[k]
    BY <1>4, AppendProperties, LenProperties
  <1>14. \A e \in Ends(pieces) : e \in Nat /\ e <= T
    <2>1. DOMAIN pieces = 1..Len(pieces)
      BY LenProperties
    <2>2. \A k \in 0..Len(pieces) : End(pieces, k) \in Nat /\ End(pieces, k) <= T
      BY <1>3, EndIs
    <2>3. 1..Len(pieces) \subseteq 0..Len(pieces)
      BY LenProperties
    <2>4. QED
      BY <2>1, <2>2, <2>3 DEF Ends
  <1>15. \A k \in 1..n : End(q, k) \in Nat
    <2>1. \A k \in 0..n : End(q, k) \in Nat
      BY <1>3, EndIs
    <2>2. QED
      BY <2>1
  <1>16. n = 1 \/ Units(line) > MaxLen
    BY <1>5, UnitsType, LinesAreTexts, TextsAssumption DEF CutInto, Word
  <1> HIDE DEF T, m, n, all, more
  <1>17. ASSUME NEW k \in 1..m PROVE Uncut(all, more, k)
    <2> SUFFICES ASSUME Units(lines[k]) <= MaxLen,
                        NEW e \in Ends(all),
                        e \in (End(more, k - 1) + 1)..(End(more, k) - 1)
                 PROVE  FALSE
      BY <1>13 DEF Uncut
    <2>1. k \in 0..m /\ k - 1 \in 0..m
      BY <1>6
    <2>2. e \in (End(lines, k - 1) + 1)..(End(lines, k) - 1)
      BY <1>12, <2>1
    <2>3. e \notin Ends(pieces)
      BY <1>13, <2>2 DEF Split, Uncut
    <2>4. PICK j \in 1..n : e = T + End(q, j)
      BY <1>8, <2>3
    <2>5. e >= T /\ e < T
      BY <1>6, <1>12, <1>15, <2>1, <2>2, <2>4
    <2>6. QED
      BY <1>6, <1>15, <2>4, <2>5
  <1>18. Uncut(all, more, m + 1)
    <2> SUFFICES ASSUME Units(line) <= MaxLen,
                        NEW e \in Ends(all),
                        e \in (End(more, (m + 1) - 1) + 1)..(End(more, m + 1) - 1)
                 PROVE  FALSE
      BY <1>13 DEF Uncut
    <2>1. n = 1
      BY <1>16, UnitsType, LinesAreTexts, TextsAssumption DEF Word
    <2>2. (m + 1) - 1 = m /\ m \in 0..m
      BY <1>6
    <2>3. e \in (T + 1)..(T + Len(line) - 1)
      BY <1>12, <2>2
    <2>4. e \notin Ends(pieces)
      BY <1>6, <1>14, <2>3
    <2>5. PICK j \in 1..n : e = T + End(q, j)
      BY <1>8, <2>4
    <2>6. e = T + Len(line)
      BY <1>10, <2>1, <2>5
    <2>7. QED
      BY <1>6, <2>3, <2>6
  <1>19. \A k \in DOMAIN more : Uncut(all, more, k)
    <2>1. \A k \in 1..(m + 1) : k \in 1..m \/ k = m + 1
      BY <1>6
    <2>2. QED
      BY <1>13, <1>17, <1>18, <2>1
  <1>20. QED
    BY <1>4, <1>7, <1>11, <1>19 DEF Split, all, more

-----------------------------------------------------------------------------
(* The parts while they are made.                                           *)

Cut == [chunks: Seq(Seq(Char)), current: Seq(Char)]
PutCharStep == [p \in Cut \X Letter |-> PutChar(p[1], p[2])]
PutLineStep == [p \in Cut \X Line |-> PutLine(p[1], p[2])]
PutChars(room, line) == FoldLeft(PutChar, room, line)

LEMMA LettersAreChars == Letter \subseteq Char
  BY DEF Letter

(* One character is put into the part, or into a new one when it has no      *)
(* room.                                                                     *)
LEMMA PutCharIs ==
    ASSUME NEW A, NEW u, NEW c
    PROVE  PutChar([chunks |-> A, current |-> u], c) =
             IF Units(u) + Width(c) > MaxLen THEN [chunks |-> Append(A, u), current |-> <<c>>]
             ELSE [chunks |-> A, current |-> Append(u, c)]
  <1> DEFINE full == Units(u) + Width(c) > MaxLen
             B == IF full THEN Append(A, u) ELSE A
             v == IF full THEN <<>> ELSE u
             m == Append(v, c)
             room == [chunks |-> B, current |-> v]
  <1>1. PutChar([chunks |-> A, current |-> u], c) = [room EXCEPT !.current = m]
    BY DEF PutChar, Flush
  <1>2. [room EXCEPT !.current = m] = [chunks |-> B, current |-> m]
    <2> HIDE DEF m, B, v
    <2>1. QED
      OBVIOUS
  <1>3. Append(<<>>, c) = <<c>>
    OBVIOUS
  <1>4. QED
    BY <1>1, <1>2, <1>3

(* A line that fits a part is put after a line feed, or into a new part.     *)
LEMMA PutLineShort ==
    ASSUME NEW A, NEW u, NEW line, ~(Units(line) > MaxLen)
    PROVE  PutLine([chunks |-> A, current |-> u], line) =
             IF u # <<>> /\ Units(u) + Units(line) + 1 > MaxLen
             THEN [chunks |-> Append(A, u), current |-> line]
             ELSE [chunks |-> A,
                   current |-> IF u = <<>> THEN line ELSE Append(u, NewLine) \o line]
  <1> DEFINE tight == u # <<>> /\ Units(u) + Units(line) + 1 > MaxLen
             B == IF tight THEN Append(A, u) ELSE A
             v == IF tight THEN <<>> ELSE u
             m == IF v = <<>> THEN line ELSE Append(v, NewLine) \o line
             room == [chunks |-> B, current |-> v]
  <1>1. PutLine([chunks |-> A, current |-> u], line) = [room EXCEPT !.current = m]
    BY DEF PutLine, Flush
  <1>2. [room EXCEPT !.current = m] = [chunks |-> B, current |-> m]
    <2> HIDE DEF m, B, v
    <2>1. QED
      OBVIOUS
  <1>3. QED
    BY <1>1, <1>2

(* A line that exceeds a part is put character by character.                 *)
LEMMA PutLineLong ==
    ASSUME NEW A, NEW u, NEW line, Units(line) > MaxLen
    PROVE  PutLine([chunks |-> A, current |-> u], line) =
             PutChars(IF u # <<>> /\ Units(u) + Units(line) + 1 > MaxLen
                      THEN [chunks |-> Append(A, u), current |-> <<>>]
                      ELSE [chunks |-> A, current |-> u], line)
  BY DEF PutLine, PutChars, Flush

LEMMA PutCharStepIs ==
    /\ PutCharStep \in Folder(Cut, Letter)
    /\ \A x \in Cut, y \in Letter : PutCharStep[<<x, y>>] = PutChar(x, y)
  <1>1. \A x \in Cut, y \in Letter : PutChar(x, y) \in Cut
    <2> TAKE x \in Cut, y \in Letter
    <2>1. x.chunks \in Seq(Seq(Char)) /\ x.current \in Seq(Char) /\ <<>> \in Seq(Char)
      BY EmptySeq DEF Cut
    <2>2. Append(x.chunks, x.current) \in Seq(Seq(Char))
      BY <2>1, AppendProperties
    <2>3. Flush(x) \in Cut
      BY <2>1, <2>2 DEF Flush, Cut
    <2>4. ASSUME NEW room \in Cut
          PROVE  [room EXCEPT !.current = Append(@, y)] \in Cut
      <3>1. room.current \in Seq(Char) /\ y \in Char
        BY LettersAreChars DEF Cut
      <3>2. Append(room.current, y) \in Seq(Char)
        BY <3>1, AppendProperties
      <3>3. QED
        BY <3>2 DEF Cut
    <2>5. QED
      BY <2>3, <2>4 DEF PutChar
  <1>2. QED
    BY <1>1 DEF PutCharStep, Folder

(* So it is a fold over its characters.                                      *)
LEMMA PutCharFold ==
    ASSUME NEW s \in Seq(Letter), NEW base \in Cut
    PROVE  FoldLeft(PutChar, base, s) = Fold(PutCharStep, base, s)
  <1> DEFINE X == Cut
             Y == Letter
             first == base
             Turn(f) == [D \in SUBSET DOMAIN s |->
                           IF D = {} THEN first
                           ELSE PutChar(f[D \ {Max(D)}], s[Max(D)])]
             it == CHOOSE f : f = Turn(f)
  <1>1. /\ PutCharStep \in Folder(X, Y) /\ first \in X /\ s \in Seq(Y)
        /\ \A x \in X, y \in Y : PutCharStep[<<x, y>>] = PutChar(x, y)
    BY PutCharStepIs
  <1>2. FoldLeft(PutChar, base, s) = it[DOMAIN s]
    BY DEF FoldLeft, MapThenFoldSet
  <1> HIDE DEF X, Y, first
  <1>3. \A D \in SUBSET DOMAIN s : D # {} =>
          Max(D) \in D /\ D \ {Max(D)} \in SUBSET DOMAIN s /\ s[Max(D)] \in Y
    BY <1>1, InnerStep
  <1>4. PICK f \in [SUBSET DOMAIN s -> X] : Steps(f, PutCharStep, first, s)
    BY <1>1, StepsExist DEF Stepped
  <1>5. f = Turn(f)
    <2>1. ASSUME NEW D \in SUBSET DOMAIN s
          PROVE  f[D] = IF D = {} THEN first
                        ELSE PutChar(f[D \ {Max(D)}], s[Max(D)])
      <3>1. CASE D = {}
        BY <1>4, <3>1 DEF Steps
      <3>2. CASE D # {}
        <4>1. f[D] = PutCharStep[<<f[D \ {Max(D)}], s[Max(D)]>>]
          BY <1>4, <3>2 DEF Steps
        <4>2. f[D \ {Max(D)}] \in X /\ s[Max(D)] \in Y
          BY <1>3, <3>2
        <4>3. QED
          BY <1>1, <3>2, <4>1, <4>2
      <3>3. QED
        BY <3>1, <3>2
    <2>2. QED
      BY <2>1
  <1>6. it = Turn(it)
    BY <1>5
  <1> HIDE DEF it
  <1>7. it[{}] = first
    BY <1>6
  <1>8. ASSUME NEW D \in SUBSET DOMAIN s, D # {}, it[D \ {Max(D)}] \in X
        PROVE  it[D] = PutCharStep[<<it[D \ {Max(D)}], s[Max(D)]>>]
    <2>1. it[D] = PutChar(it[D \ {Max(D)}], s[Max(D)])
      BY <1>6, <1>8
    <2>2. s[Max(D)] \in Y
      BY <1>3, <1>8
    <2>3. QED
      BY <1>1, <1>8, <2>1, <2>2
  <1>9. Walks(it, X, PutCharStep, first, s)
    BY <1>7, <1>8 DEF Walks
  <1>10. Reached(it, s) = Fold(PutCharStep, first, s)
    BY <1>1, <1>9, WalkFolds
  <1>11. QED
    BY <1>2, <1>10 DEF Reached, first

LEMMA PutCharsType ==
    ASSUME NEW base \in Cut, NEW s \in Line
    PROVE  PutChars(base, s) = Fold(PutCharStep, base, s) /\ PutChars(base, s) \in Cut
  <1>1. s \in Seq(Letter)
    BY DEF Line
  <1>2. PutChars(base, s) = Fold(PutCharStep, base, s)
    BY <1>1, PutCharFold DEF PutChars
  <1>3. QED
    BY <1>1, <1>2, PutCharStepIs, FoldType

LEMMA PutLineStepIs ==
    /\ PutLineStep \in Folder(Cut, Line)
    /\ \A x \in Cut, y \in Line : PutLineStep[<<x, y>>] = PutLine(x, y)
  <1>1. \A x \in Cut, y \in Line : PutLine(x, y) \in Cut
    <2> TAKE x \in Cut, y \in Line
    <2>1. PICK A \in Seq(Seq(Char)), u \in Seq(Char) : x = [chunks |-> A, current |-> u]
      BY DEF Cut
    <2>2. Append(A, u) \in Seq(Seq(Char)) /\ <<>> \in Seq(Char) /\ y \in Seq(Char)
      BY <2>1, AppendProperties, EmptySeq, LinesAreTexts
    <2>3. Append(u, NewLine) \o y \in Seq(Char)
      <3>1. NewLine \in Char
        BY CharIs DEF Blank
      <3>2. Append(u, NewLine) \in Seq(Char)
        BY <2>1, <3>1, AppendProperties
      <3>3. QED
        BY <2>2, <3>2, ConcatProperties
    <2>4. CASE Units(y) > MaxLen
      <3>1. PICK room \in Cut : PutLine(x, y) = PutChars(room, y)
        <4>1. [chunks |-> A, current |-> u] \in Cut /\ [chunks |-> Append(A, u), current |-> <<>>] \in Cut
          BY <2>1, <2>2 DEF Cut
        <4>2. QED
          BY <2>1, <2>4, <4>1, PutLineLong
      <3>2. QED
        BY <3>1, PutCharsType
    <2>5. CASE ~(Units(y) > MaxLen)
      <3>1. \E B \in Seq(Seq(Char)), v \in Seq(Char) : PutLine(x, y) = [chunks |-> B, current |-> v]
        <4>1. CASE u # <<>> /\ Units(u) + Units(y) + 1 > MaxLen
          <5>1. PutLine(x, y) = [chunks |-> Append(A, u), current |-> y]
            BY <2>1, <2>5, <4>1, PutLineShort
          <5>2. QED
            BY <2>2, <5>1
        <4>2. CASE ~(u # <<>> /\ Units(u) + Units(y) + 1 > MaxLen)
          <5>1. PutLine(x, y) = [chunks |-> A,
                                 current |-> IF u = <<>> THEN y ELSE Append(u, NewLine) \o y]
            BY <2>1, <2>5, <4>2, PutLineShort
          <5>2. QED
            BY <2>1, <2>2, <2>3, <5>1
        <4>3. QED
          BY <4>1, <4>2
      <3>2. QED
        BY <3>1 DEF Cut
    <2>6. QED
      BY <2>4, <2>5
  <1>2. QED
    BY <1>1 DEF PutLineStep, Folder

(* And chunk_text is a fold over the lines.                                  *)
LEMMA PutLineFold ==
    ASSUME NEW s \in Seq(Line), NEW base \in Cut
    PROVE  FoldLeft(PutLine, base, s) = Fold(PutLineStep, base, s)
  <1> DEFINE X == Cut
             Y == Line
             first == base
             Turn(f) == [D \in SUBSET DOMAIN s |->
                           IF D = {} THEN first
                           ELSE PutLine(f[D \ {Max(D)}], s[Max(D)])]
             it == CHOOSE f : f = Turn(f)
  <1>1. /\ PutLineStep \in Folder(X, Y) /\ first \in X /\ s \in Seq(Y)
        /\ \A x \in X, y \in Y : PutLineStep[<<x, y>>] = PutLine(x, y)
    BY PutLineStepIs
  <1>2. FoldLeft(PutLine, base, s) = it[DOMAIN s]
    BY DEF FoldLeft, MapThenFoldSet
  <1> HIDE DEF X, Y, first
  <1>3. \A D \in SUBSET DOMAIN s : D # {} =>
          Max(D) \in D /\ D \ {Max(D)} \in SUBSET DOMAIN s /\ s[Max(D)] \in Y
    BY <1>1, InnerStep
  <1>4. PICK f \in [SUBSET DOMAIN s -> X] : Steps(f, PutLineStep, first, s)
    BY <1>1, StepsExist DEF Stepped
  <1>5. f = Turn(f)
    <2>1. ASSUME NEW D \in SUBSET DOMAIN s
          PROVE  f[D] = IF D = {} THEN first
                        ELSE PutLine(f[D \ {Max(D)}], s[Max(D)])
      <3>1. CASE D = {}
        BY <1>4, <3>1 DEF Steps
      <3>2. CASE D # {}
        <4>1. f[D] = PutLineStep[<<f[D \ {Max(D)}], s[Max(D)]>>]
          BY <1>4, <3>2 DEF Steps
        <4>2. f[D \ {Max(D)}] \in X /\ s[Max(D)] \in Y
          BY <1>3, <3>2
        <4>3. QED
          BY <1>1, <3>2, <4>1, <4>2
      <3>3. QED
        BY <3>1, <3>2
    <2>2. QED
      BY <2>1
  <1>6. it = Turn(it)
    BY <1>5
  <1> HIDE DEF it
  <1>7. it[{}] = first
    BY <1>6
  <1>8. ASSUME NEW D \in SUBSET DOMAIN s, D # {}, it[D \ {Max(D)}] \in X
        PROVE  it[D] = PutLineStep[<<it[D \ {Max(D)}], s[Max(D)]>>]
    <2>1. it[D] = PutLine(it[D \ {Max(D)}], s[Max(D)])
      BY <1>6, <1>8
    <2>2. s[Max(D)] \in Y
      BY <1>3, <1>8
    <2>3. QED
      BY <1>1, <1>8, <2>1, <2>2
  <1>9. Walks(it, X, PutLineStep, first, s)
    BY <1>7, <1>8 DEF Walks
  <1>10. Reached(it, s) = Fold(PutLineStep, first, s)
    BY <1>1, <1>9, WalkFolds
  <1>11. QED
    BY <1>2, <1>10 DEF Reached, first

-----------------------------------------------------------------------------
(* A line that is cut into parts.                                           *)

FullPieces(q) == \A i \in DOMAIN q : Units(q[i]) \in (MaxLen - 1)..MaxLen

Cutting(A, p, cut) ==
    \E q \in Seq(Word), u \in Line :
        /\ cut = [chunks |-> A \o q, current |-> u]
        /\ FlattenSeq(q) \o u = p /\ FullPieces(q)
        /\ Units(u) <= MaxLen /\ (p # <<>> => u # <<>>)

LEMMA WordsAreLines ==
    /\ Word \subseteq Line /\ Word \subseteq Seq(Char) /\ Word \subseteq Seq(Letter)
    /\ \A q \in Seq(Word) : /\ q \in Seq(Line) /\ q \in Seq(Seq(Char)) /\ q \in Seq(Seq(Letter))
                            /\ FlattenSeq(q) \in Line
  <1>1. Word \subseteq Line /\ Word \subseteq Seq(Char) /\ Word \subseteq Seq(Letter)
    BY LinesAreTexts DEF Word, Line
  <1>2. \A q \in Seq(Word) : q \in Seq(Line) /\ q \in Seq(Seq(Char)) /\ q \in Seq(Seq(Letter))
    BY <1>1, SeqMonotonic
  <1>3. \A q \in Seq(Word) : FlattenSeq(q) \in Line
    BY <1>2, FlattenType DEF Line
  <1>4. QED
    BY <1>1, <1>2, <1>3

(* A part holds at least two units, and a character has one or two.          *)
LEMMA UnitsBounds ==
    /\ MaxLen \in Nat /\ MaxLen >= 2 /\ Units(<<>>) = 0
    /\ \A t \in Seq(Char) : Units(t) \in Nat /\ (t # <<>> => Units(t) >= 1)
    /\ \A c : Width(c) \in 1..2
  BY TextsAssumption, UnitsEmpty, UnitsType, UnitsPositive DEF Width

LEMMA FullAppend ==
    ASSUME NEW q \in Seq(Word), FullPieces(q), NEW w \in Word,
           Units(w) \in (MaxLen - 1)..MaxLen
    PROVE  Append(q, w) \in Seq(Word) /\ FullPieces(Append(q, w))
  <1>1. /\ Append(q, w) \in Seq(Word) /\ DOMAIN q = 1..Len(q) /\ Len(q) \in Nat
        /\ DOMAIN Append(q, w) = 1..(Len(q) + 1) /\ Append(q, w)[Len(q) + 1] = w
        /\ \A i \in 1..Len(q) : Append(q, w)[i] = q[i]
    BY AppendProperties, LenProperties
  <1>2. \A i \in 1..(Len(q) + 1) : i \in 1..Len(q) \/ i = Len(q) + 1
    BY <1>1
  <1>3. QED
    BY <1>1, <1>2 DEF FullPieces

(* One character more keeps the pieces of a line full, but for the last one. *)
LEMMA PutCharCuts ==
    ASSUME NEW A \in Seq(Seq(Char)), NEW p \in Line, NEW c \in Letter, NEW cut,
           Cutting(A, p, cut)
    PROVE  Cutting(A, Append(p, c), PutChar(cut, c))
  <1>1. PICK q \in Seq(Word), u \in Line :
          /\ cut = [chunks |-> A \o q, current |-> u]
          /\ FlattenSeq(q) \o u = p /\ FullPieces(q)
          /\ Units(u) <= MaxLen /\ (p # <<>> => u # <<>>)
    BY DEF Cutting
  <1>2. u \in Seq(Char) /\ c \in Char /\ Units(u) \in Nat /\ Width(c) \in 1..2
        /\ MaxLen \in Nat /\ MaxLen >= 2
    BY UnitsBounds, LinesAreTexts, LettersAreChars
  <1>3. CASE Units(u) + Width(c) > MaxLen
    <2>1. PutChar(cut, c) = [chunks |-> Append(A \o q, u), current |-> <<c>>]
      BY <1>1, <1>3, PutCharIs
    <2>2. Units(u) \in (MaxLen - 1)..MaxLen
      BY <1>1, <1>2, <1>3
    <2>3. u \in Word
      BY <1>2, <2>2, UnitsBounds DEF Word
    <2>4. Append(q, u) \in Seq(Word) /\ FullPieces(Append(q, u))
      BY <1>1, <2>2, <2>3, FullAppend
    <2>5. Append(A \o q, u) = A \o Append(q, u)
      <3>1. \A x, y \in Seq(Seq(Char)) : \A e \in Seq(Char) : x \o Append(y, e) = Append(x \o y, e)
        BY ConcatThenAppend
      <3>2. q \in Seq(Seq(Char)) /\ u \in Seq(Char)
        BY <1>2, WordsAreLines
      <3>3. QED
        BY <3>1, <3>2
    <2>6. FlattenSeq(Append(q, u)) = p
      <3>1. q \in Seq(Seq(Letter)) /\ u \in Seq(Letter)
        BY WordsAreLines DEF Line
      <3>2. QED
        BY <1>1, <3>1, FlattenAppend
    <2>7. <<c>> \in Line /\ <<c>> # <<>> /\ Units(<<c>>) <= MaxLen
      <3>1. <<c>> \in Seq(Letter) /\ <<c>> = Append(<<>>, c)
        BY OnlyOne
      <3> DEFINE none == <<>>
      <3>2. none \in Seq(Char) /\ Units(none) = 0
        BY UnitsEmpty, EmptySeq
      <3> HIDE DEF none
      <3>3. Units(Append(none, c)) = Units(none) + Width(c)
        BY <1>2, <3>2, UnitsAppend
      <3>4. Units(<<c>>) = Width(c)
        BY <1>2, <3>1, <3>2, <3>3 DEF none
      <3>5. QED
        BY <1>2, <3>1, <3>4 DEF Line
    <2>8. p \o <<c>> = Append(p, c)
      BY AppendIsConcat DEF Line
    <2>9. QED
      BY <2>1, <2>4, <2>5, <2>6, <2>7, <2>8 DEF Cutting
  <1>4. CASE ~(Units(u) + Width(c) > MaxLen)
    <2>1. PutChar(cut, c) = [chunks |-> A \o q, current |-> Append(u, c)]
      BY <1>1, <1>4, PutCharIs
    <2>2. Append(u, c) \in Line /\ Append(u, c) # <<>>
      BY AppendProperties DEF Line
    <2>3. Units(Append(u, c)) = Units(u) + Width(c)
      BY <1>2, UnitsAppend
    <2>4. FlattenSeq(q) \o Append(u, c) = Append(p, c)
      <3>1. FlattenSeq(q) \in Seq(Letter) /\ u \in Seq(Letter)
        BY WordsAreLines DEF Line
      <3>2. FlattenSeq(q) \o Append(u, c) = Append(FlattenSeq(q) \o u, c)
        BY <3>1, ConcatThenAppend
      <3>3. QED
        BY <1>1, <3>2
    <2>5. Units(Append(u, c)) <= MaxLen
      BY <1>2, <1>4, <2>3
    <2>6. QED
      BY <1>1, <2>1, <2>2, <2>4, <2>5 DEF Cutting
  <1>5. QED
    BY <1>3, <1>4

(* A long line is cut into pieces that hold it, full but for the last one.   *)
LEMMA PutCharsCut ==
    ASSUME NEW A \in Seq(Seq(Char)), NEW line \in Line
    PROVE  Cutting(A, line, PutChars([chunks |-> A, current |-> <<>>], line))
  <1> DEFINE base == [chunks |-> A, current |-> <<>>]
             T == {u \in Seq(Letter) : Cutting(A, u, Fold(PutCharStep, base, u))}
  <1>1. base \in Cut /\ base = [chunks |-> A, current |-> <<>>]
    BY EmptySeq DEF Cut
  <1>2. Cutting(A, <<>>, base)
    <2>1. <<>> \in Seq(Word) /\ <<>> \in Line /\ A \o <<>> = A
          /\ FlattenSeq(<<>>) \o <<>> = <<>>
      BY EmptySeq, ConcatEmptySeq, FlattenEmpty DEF Line
    <2>2. FullPieces(<<>>)
      BY DEF FullPieces
    <2>3. Units(<<>>) <= MaxLen
      BY UnitsBounds
    <2>4. QED
      BY <1>1, <2>1, <2>2, <2>3 DEF Cutting
  <1> HIDE DEF base
  <1>3. <<>> \in T
    BY <1>2, FoldEmpty, EmptySeq
  <1>4. ASSUME NEW u \in Seq(Letter), NEW c \in Letter, u \in T PROVE Append(u, c) \in T
    <2> DEFINE cut == Fold(PutCharStep, base, u)
    <2>1. cut \in Cut
      BY <1>1, PutCharStepIs, FoldType
    <2>2. Fold(PutCharStep, base, Append(u, c)) = PutCharStep[<<cut, c>>]
      BY FoldAppend
    <2> HIDE DEF cut
    <2>3. PutCharStep[<<cut, c>>] = PutChar(cut, c)
      BY <2>1, PutCharStepIs
    <2>4. Cutting(A, u, cut)
      BY <1>4 DEF cut
    <2>5. Cutting(A, Append(u, c), PutChar(cut, c))
      BY <2>4, PutCharCuts DEF Line
    <2>6. Append(u, c) \in Seq(Letter)
      BY AppendProperties
    <2>7. QED
      BY <2>2, <2>3, <2>5, <2>6
  <1> HIDE DEF T
  <1>5. Seq(Letter) \subseteq T
    BY <1>3, <1>4, SeqInduct
  <1>6. Cutting(A, line, Fold(PutCharStep, base, line))
    BY <1>5 DEF T, Line
  <1>7. QED
    BY <1>1, <1>6, PutCharsType

-----------------------------------------------------------------------------
(* Parts that are filled as far as the next line allows.                    *)

Tight(a, b) == Units(a) + 1 + Units(Lines(b)[1]) > MaxLen

Filled(A) ==
    /\ \A i \in DOMAIN A : Units(A[i]) \in 1..MaxLen
    /\ \A i \in 1..(Len(A) - 1) : Tight(A[i], A[i + 1])

(* The last part has no room for what comes next.                           *)
Closed(A, t) == A # <<>> => Tight(A[Len(A)], t)
NoRoomFor(A, line) == A # <<>> => Units(A[Len(A)]) + 1 + Units(line) > MaxLen

(* A part that had no room before it goes after those that are filled.       *)
LEMMA FilledAppend ==
    ASSUME NEW A \in Seq(Seq(Char)), Filled(A), NEW t \in Seq(Char),
           Units(t) \in 1..MaxLen, Closed(A, t)
    PROVE  Filled(Append(A, t))
  <1> DEFINE n == Len(A)
             B == Append(A, t)
  <1>1. n \in Nat /\ DOMAIN A = 1..n /\ DOMAIN B = 1..(n + 1) /\ Len(B) = n + 1
        /\ B[n + 1] = t /\ \A i \in 1..n : B[i] = A[i]
    BY AppendProperties, LenProperties
  <1>2. A = <<>> \/ n \in 1..n
    BY <1>1, EmptySeq
  <1> HIDE DEF n, B
  <1>3. \A i \in 1..(n + 1) : i \in 1..n \/ i = n + 1
    BY <1>1
  <1>4. \A i \in DOMAIN B : Units(B[i]) \in 1..MaxLen
    BY <1>1, <1>3 DEF Filled
  <1>5. ASSUME NEW i \in 1..(Len(B) - 1) PROVE Tight(B[i], B[i + 1])
    <2>1. i \in 1..n
      BY <1>1
    <2>2. CASE i = n
      <3>1. A # <<>>
        BY <1>1, <2>1 DEF n
      <3>2. QED
        BY <1>1, <2>1, <2>2, <3>1 DEF Closed, n
    <2>3. CASE i # n
      <3>1. i \in 1..(n - 1) /\ i + 1 \in 1..n
        BY <1>1, <2>1, <2>3
      <3>2. Tight(A[i], A[i + 1])
        BY <3>1 DEF Filled, n
      <3>3. QED
        BY <1>1, <2>1, <3>1, <3>2
    <2>4. QED
      BY <2>2, <2>3
  <1>6. QED
    BY <1>4, <1>5 DEF Filled, B

LEMMA LastOf ==
    ASSUME NEW S, NEW A \in Seq(S), A # <<>>
    PROVE  Len(A) \in DOMAIN A /\ A[Len(A)] \in S
  BY LenProperties, EmptySeq, ElementOfSeq

(* A part with no room for a line is closed by the line.                     *)
LEMMA NoRoomIsClosed ==
    ASSUME NEW A \in Seq(Seq(Char)), NEW w \in Word, NoRoomFor(A, w)
    PROVE  Closed(A, w)
  BY FirstOfLine DEF Closed, NoRoomFor, Tight

(* A piece that fills a part fits behind no other.                          *)
LEMMA FullPieceClosed ==
    ASSUME NEW A \in Seq(Seq(Char)), Filled(A), NEW w \in Word, Units(w) >= MaxLen - 1
    PROVE  Closed(A, w)
  <1> SUFFICES ASSUME A # <<>> PROVE Tight(A[Len(A)], w)
    BY DEF Closed
  <1>1. Units(A[Len(A)]) \in 1..MaxLen
    BY LastOf DEF Filled
  <1>2. Units(w) \in Nat /\ MaxLen \in Nat
    BY UnitsBounds, WordsAreLines
  <1>3. Units(A[Len(A)]) + 1 + Units(w) > MaxLen
    BY <1>1, <1>2
  <1>4. QED
    BY <1>3, FirstOfLine DEF Tight

(* And so do the full pieces of a long line.                                 *)
LEMMA FilledPieces ==
    ASSUME NEW A \in Seq(Seq(Char)), Filled(A), NEW q \in Seq(Word), FullPieces(q)
    PROVE  Filled(A \o q)
  <1> DEFINE T == {u \in Seq(Word) : FullPieces(u) => Filled(A \o u)}
  <1>1. <<>> \in T
    BY EmptySeq, ConcatEmptySeq
  <1>2. ASSUME NEW u \in Seq(Word), NEW w \in Word, u \in T PROVE Append(u, w) \in T
    <2> SUFFICES ASSUME FullPieces(Append(u, w)) PROVE Filled(A \o Append(u, w))
      BY AppendProperties
    <2>1. /\ DOMAIN Append(u, w) = 1..(Len(u) + 1) /\ Append(u, w)[Len(u) + 1] = w
          /\ \A i \in 1..Len(u) : Append(u, w)[i] = u[i]
          /\ DOMAIN u = 1..Len(u) /\ Len(u) \in Nat
      BY AppendProperties, LenProperties
    <2>2. FullPieces(u) /\ Units(w) \in (MaxLen - 1)..MaxLen
      <3>1. \A i \in 1..(Len(u) + 1) : Units(Append(u, w)[i]) \in (MaxLen - 1)..MaxLen
        BY <2>1 DEF FullPieces
      <3>2. Len(u) + 1 \in 1..(Len(u) + 1) /\ 1..Len(u) \subseteq 1..(Len(u) + 1)
        BY <2>1
      <3>3. Units(w) \in (MaxLen - 1)..MaxLen
        BY <2>1, <3>1, <3>2
      <3>4. \A i \in 1..Len(u) : Units(u[i]) \in (MaxLen - 1)..MaxLen
        <4>1. \A i \in 1..Len(u) : Units(Append(u, w)[i]) \in (MaxLen - 1)..MaxLen
          BY <3>1, <3>2
        <4>2. QED
          BY <2>1, <4>1
      <3>5. QED
        BY <2>1, <3>3, <3>4 DEF FullPieces
    <2>3. Filled(A \o u)
      BY <1>2, <2>2
    <2>4. u \in Seq(Seq(Char)) /\ w \in Seq(Char)
      BY WordsAreLines
    <2>5. A \o u \in Seq(Seq(Char))
      BY <2>4, ConcatProperties
    <2>6. A \o Append(u, w) = Append(A \o u, w)
      <3>1. \A x, y \in Seq(Seq(Char)) : \A e \in Seq(Char) : x \o Append(y, e) = Append(x \o y, e)
        BY ConcatThenAppend
      <3>2. QED
        BY <2>4, <3>1
    <2>7. Closed(A \o u, w) /\ Units(w) \in 1..MaxLen
      <3>1. Units(w) >= MaxLen - 1 /\ Units(w) \in 1..MaxLen
        BY <2>2, UnitsBounds
      <3>2. QED
        BY <2>3, <2>5, <3>1, FullPieceClosed
    <2>8. QED
      BY <2>3, <2>4, <2>5, <2>6, <2>7, FilledAppend
  <1> HIDE DEF T
  <1>3. Seq(Word) \subseteq T
    BY <1>1, <1>2, SeqInduct
  <1>4. QED
    BY <1>3 DEF T

(* What is left of a line that was cut does not fit behind its last piece.  *)
LEMMA ClosedByPieces ==
    ASSUME NEW A \in Seq(Seq(Char)), NEW q \in Seq(Word), FullPieces(q), q # <<>>,
           NEW w \in Word
    PROVE  Closed(A \o q, w)
  <1>1. q \in Seq(Seq(Char))
    BY WordsAreLines
  <1> DEFINE all == A \o q
  <1>2. Len(all) = Len(A) + Len(q) /\ all[Len(A) + Len(q)] = q[Len(q)]
    <2>1. \A i \in 1..Len(q) : all[Len(A) + i] = q[i]
      BY <1>1, ConcatOf
    <2>2. Len(all) = Len(A) + Len(q)
      BY <1>1, ConcatProperties
    <2>3. Len(q) \in 1..Len(q)
      BY LastOf, LenProperties
    <2>4. QED
      BY <2>1, <2>2, <2>3
  <1>3. Units(q[Len(q)]) \in (MaxLen - 1)..MaxLen
    BY LastOf DEF FullPieces
  <1>4. Units(w) \in Nat /\ Units(w) >= 1 /\ MaxLen \in Nat
    BY UnitsBounds, WordsAreLines DEF Word
  <1>5. Units(q[Len(q)]) + 1 + Units(w) > MaxLen
    BY <1>3, <1>4
  <1> HIDE DEF all
  <1>6. Tight(all[Len(all)], w)
    BY <1>2, <1>5, FirstOfLine DEF Tight
  <1>7. QED
    BY <1>6 DEF Closed, all

-----------------------------------------------------------------------------
(* The parts of a mail hold it.                                             *)

AllWords(A, u) == Pieces(A) \o Words(u)

(* What the lines put so far leave behind.                                  *)
GoodCut(cut, ls) ==
    \E A \in Seq(Seq(Char)), u \in Seq(Char) :
        /\ cut = [chunks |-> A, current |-> u]
        /\ Filled(A) /\ Units(u) <= MaxLen
        /\ IF u = <<>> THEN NoRoomFor(A, u) ELSE Closed(A, u)
        /\ Split(AllWords(A, u), Worded(ls))

LEMMA AllWordsType ==
    ASSUME NEW A \in Seq(Seq(Char)), NEW u \in Seq(Char)
    PROVE  /\ AllWords(A, u) \in Seq(Word)
           /\ u = <<>> => AllWords(A, u) = Pieces(A)
           /\ AllWords(Append(A, u), <<>>) = AllWords(A, u)
  <1>1. Pieces(A) \in Seq(Word) /\ Words(u) \in Seq(Word)
    BY PiecesIs, WordsIs
  <1>2. AllWords(A, u) \in Seq(Word)
    BY <1>1, ConcatProperties DEF AllWords
  <1>3. Words(<<>>) = <<>>
    BY WordsOfLine, EmptySeq DEF Line
  <1>4. Pieces(Append(A, u)) = AllWords(A, u)
    BY PiecesAppend DEF AllWords
  <1>5. AllWords(Append(A, u), <<>>) = AllWords(A, u)
    <2>1. AllWords(A, u) \o <<>> = AllWords(A, u)
      BY <1>2, ConcatEmptySeq
    <2>2. AllWords(Append(A, u), <<>>) = Pieces(Append(A, u)) \o <<>>
      BY <1>3 DEF AllWords
    <2>3. QED
      BY <1>4, <2>1, <2>2
  <1>6. u = <<>> => AllWords(A, u) = Pieces(A)
    BY <1>1, <1>3, ConcatEmptySeq DEF AllWords
  <1>7. QED
    BY <1>2, <1>5, <1>6

(* A line that fits is one more word, unless it is empty.                   *)
LEMMA SplitByLine ==
    ASSUME NEW p \in Seq(Word), NEW ls \in Seq(Line), Split(p, Worded(ls)), NEW line \in Line
    PROVE  Split(p \o Words(line), Worded(Append(ls, line)))
  <1>1. CASE line = <<>>
    BY <1>1, WordsOfLine, WordedAppend, ConcatEmptySeq
  <1>2. CASE line # <<>>
    <2>1. line \in Word /\ Words(line) = <<line>>
          /\ Worded(Append(ls, line)) = Append(Worded(ls), line)
      BY <1>2, WordsOfLine, WordedAppend DEF Word
    <2>2. CutInto(line, <<line>>)
      <3>1. <<line>> \in Seq(Word) /\ Len(<<line>>) = 1
        BY <2>1, OnlyOne
      <3>2. FlattenSeq(<<line>>) = line
        BY FlattenOne DEF Line
      <3>3. <<line>> # <<>>
        OBVIOUS
      <3>4. QED
        BY <3>1, <3>2, <3>3 DEF CutInto
    <2>3. Worded(ls) \in Seq(Word)
      BY WordedIs
    <2> DEFINE one == <<line>>
    <2>4. CutInto(line, one) /\ Words(line) = one
      BY <2>1, <2>2
    <2> HIDE DEF one
    <2>5. Split(p \o one, Append(Worded(ls), line))
      BY <2>1, <2>3, <2>4, SplitExtends
    <2>6. QED
      BY <2>1, <2>4, <2>5
  <1>3. QED
    BY <1>1, <1>2

(* Where a line is put: behind the part that is being made, or in a new one. *)
Room(A, u, line, B, v) ==
    /\ B \in Seq(Seq(Char)) /\ v \in Seq(Char) /\ Filled(B)
    /\ AllWords(B, v) = AllWords(A, u)
    /\ IF v = <<>> THEN NoRoomFor(B, line)
       ELSE Closed(B, v) /\ Units(v) + Units(line) + 1 <= MaxLen

(* The part under way is flushed only when the line does not fit into it.    *)
LEMMA RoomIs ==
    ASSUME NEW A \in Seq(Seq(Char)), NEW u \in Seq(Char), NEW line \in Line,
           Filled(A), Units(u) <= MaxLen,
           IF u = <<>> THEN NoRoomFor(A, u) ELSE Closed(A, u)
    PROVE  IF u # <<>> /\ Units(u) + Units(line) + 1 > MaxLen
           THEN Room(A, u, line, Append(A, u), <<>>) ELSE Room(A, u, line, A, u)
  <1>1. /\ Units(line) \in Nat /\ Units(u) \in Nat /\ MaxLen \in Nat /\ Units(<<>>) = 0
        /\ (u # <<>> => Units(u) >= 1)
    BY UnitsBounds, LinesAreTexts
  <1>2. CASE u # <<>> /\ Units(u) + Units(line) + 1 > MaxLen
    <2> DEFINE B == Append(A, u)
    <2>1. B \in Seq(Seq(Char)) /\ <<>> \in Seq(Char) /\ B[Len(B)] = u
      BY AppendProperties, EmptySeq
    <2>2. Units(u) \in 1..MaxLen
      BY <1>1, <1>2
    <2>3. Filled(B)
      BY <1>2, <2>2, FilledAppend
    <2>4. AllWords(B, <<>>) = AllWords(A, u)
      BY AllWordsType
    <2> HIDE DEF B
    <2>5. NoRoomFor(B, line)
      BY <1>1, <1>2, <2>1 DEF NoRoomFor
    <2>6. QED
      BY <1>2, <2>1, <2>3, <2>4, <2>5 DEF Room, B
  <1>3. CASE u = <<>>
    <2>1. NoRoomFor(A, line)
      <3> SUFFICES ASSUME A # <<>> PROVE Units(A[Len(A)]) + 1 + Units(line) > MaxLen
        BY DEF NoRoomFor
      <3>1. Units(A[Len(A)]) \in Nat
        BY LastOf, UnitsBounds
      <3>2. Units(A[Len(A)]) + 1 + Units(<<>>) > MaxLen
        BY <1>3 DEF NoRoomFor
      <3>3. QED
        BY <1>1, <3>1, <3>2
    <2>2. QED
      BY <1>3, <2>1 DEF Room
  <1>4. CASE u # <<>> /\ ~(Units(u) + Units(line) + 1 > MaxLen)
    <2>1. Units(u) + Units(line) + 1 <= MaxLen
      BY <1>1, <1>4
    <2>2. QED
      BY <1>4, <2>1 DEF Room
  <1>5. QED
    BY <1>2, <1>3, <1>4

(* Putting a line that fits a part keeps the parts good.                     *)
LEMMA ShortLineKeeps ==
    ASSUME NEW A, NEW u, NEW B, NEW v, NEW line \in Line, Room(A, u, line, B, v),
           Units(line) <= MaxLen, NEW ls \in Seq(Line), Split(AllWords(A, u), Worded(ls))
    PROVE  GoodCut([chunks |-> B,
                    current |-> IF v = <<>> THEN line ELSE Append(v, NewLine) \o line],
                   Append(ls, line))
  <1>1. B \in Seq(Seq(Char)) /\ v \in Seq(Char) /\ Filled(B) /\ AllWords(B, v) = AllWords(A, u)
    BY DEF Room
  <1>2. AllWords(B, v) \in Seq(Word) /\ line \in Seq(Char)
    BY <1>1, AllWordsType, LinesAreTexts
  <1>3. Split(AllWords(B, v) \o Words(line), Worded(Append(ls, line)))
    BY <1>1, <1>2, SplitByLine
  <1>4. CASE v = <<>>
    <2>1. AllWords(B, line) = AllWords(B, v) \o Words(line)
      BY <1>1, <1>4, AllWordsType DEF AllWords
    <2>2. IF line = <<>> THEN NoRoomFor(B, line) ELSE Closed(B, line)
      <3>1. NoRoomFor(B, line)
        BY <1>4 DEF Room
      <3>2. line # <<>> => Closed(B, line)
        BY <1>1, <3>1, NoRoomIsClosed DEF Word
      <3>3. QED
        BY <3>1, <3>2
    <2>3. QED
      BY <1>1, <1>2, <1>3, <1>4, <2>1, <2>2 DEF GoodCut
  <1>5. CASE v # <<>>
    <2> DEFINE front == Append(v, NewLine)
               t == front \o line
    <2>1. NewLine \in Char /\ front \in Seq(Char) /\ t \in Seq(Char)
      <3>1. NewLine \in Char
        BY CharIs DEF Blank
      <3>2. front \in Seq(Char)
        BY <1>1, <3>1, AppendProperties
      <3>3. QED
        BY <1>2, <3>1, <3>2, ConcatProperties
    <2>2. Units(t) = Units(v) + 1 + Units(line)
      <3>1. Units(front) = Units(v) + 1
        <4>1. Width(NewLine) = 1
          BY DEF Width, NewLine, Wide
        <4>2. QED
          BY <1>1, <2>1, <4>1, UnitsAppend
      <3>2. QED
        BY <1>2, <2>1, <3>1, UnitsConcat
    <2>3. Units(t) <= MaxLen
      BY <1>1, <1>2, <1>5, <2>2, UnitsBounds DEF Room
    <2>4. Closed(B, t)
      <3>1. Closed(B, v) /\ Lines(t)[1] = Lines(v)[1]
        BY <1>1, <1>2, <1>5, FirstLineStays DEF Room
      <3> HIDE DEF t
      <3>2. QED
        BY <3>1 DEF Closed, Tight
    <2>5. Words(t) = Words(v) \o Words(line)
      BY <1>1, <1>2, WordsBreak
    <2>6. AllWords(B, t) = AllWords(B, v) \o Words(line)
      <3>1. Pieces(B) \in Seq(Word) /\ Words(v) \in Seq(Word) /\ Words(line) \in Seq(Word)
        BY <1>1, <1>2, PiecesIs, WordsIs
      <3>2. (Pieces(B) \o Words(v)) \o Words(line) = Pieces(B) \o (Words(v) \o Words(line))
        BY <3>1, ConcatAssociative
      <3>3. QED
        BY <2>5, <3>2 DEF AllWords
    <2>7. t # <<>>
      <3>1. Units(line) \in Nat /\ Units(v) \in Nat /\ Units(<<>>) = 0
        BY <1>1, <1>2, UnitsBounds
      <3> HIDE DEF t
      <3>2. Units(t) # Units(<<>>)
        BY <2>2, <3>1
      <3>3. QED
        BY <3>2
    <2> HIDE DEF t
    <2>8. GoodCut([chunks |-> B, current |-> t], Append(ls, line))
      BY <1>1, <1>3, <2>1, <2>3, <2>4, <2>6, <2>7 DEF GoodCut
    <2>9. QED
      BY <1>5, <2>8 DEF t
  <1>6. QED
    BY <1>4, <1>5

(* Cutting a line that exceeds a part keeps the parts good.                  *)
LEMMA LongLineKeeps ==
    ASSUME NEW A, NEW u, NEW B, NEW line \in Line, Room(A, u, line, B, <<>>),
           Units(line) > MaxLen, NEW ls \in Seq(Line), Split(AllWords(A, u), Worded(ls))
    PROVE  GoodCut(PutChars([chunks |-> B, current |-> <<>>], line), Append(ls, line))
  <1>1. B \in Seq(Seq(Char)) /\ Filled(B) /\ AllWords(B, <<>>) = AllWords(A, u)
    BY DEF Room
  <1>2. Pieces(B) = AllWords(A, u) /\ Pieces(B) \in Seq(Word)
    BY <1>1, AllWordsType, PiecesIs, EmptySeq
  <1>3. line # <<>> /\ line \in Word
    BY UnitsBounds DEF Word
  <1> DEFINE cut == PutChars([chunks |-> B, current |-> <<>>], line)
  <1>4. Cutting(B, line, cut)
    BY <1>1, PutCharsCut
  <1> HIDE DEF cut
  <1>5. PICK q \in Seq(Word), r \in Line :
          /\ cut = [chunks |-> B \o q, current |-> r]
          /\ FlattenSeq(q) \o r = line /\ FullPieces(q)
          /\ Units(r) <= MaxLen /\ (line # <<>> => r # <<>>)
    BY <1>4 DEF Cutting
  <1>6. r \in Word /\ r # <<>> /\ r \in Seq(Char) /\ Words(r) = <<r>>
    BY <1>3, <1>5, LinesAreTexts, WordsOfLine DEF Word
  <1>7. q # <<>>
    <2> SUFFICES ASSUME q = <<>> PROVE FALSE
      OBVIOUS
    <2>1. r \in Seq(Letter)
      BY DEF Line
    <2>2. line = r
      BY <1>5, <2>1, FlattenEmpty, ConcatEmptySeq
    <2>3. QED
      BY <1>5, <1>6, <2>2, UnitsBounds
  <1>8. Filled(B \o q) /\ Closed(B \o q, r)
    BY <1>1, <1>5, <1>6, <1>7, FilledPieces, ClosedByPieces
  <1> DEFINE parts == Append(q, r)
  <1>9. CutInto(line, parts)
    <2>1. parts \in Seq(Word) /\ parts # <<>>
      BY <1>6, AppendProperties
    <2>2. FlattenSeq(parts) = line
      <3>1. q \in Seq(Seq(Letter)) /\ r \in Seq(Letter)
        BY WordsAreLines DEF Line
      <3>2. QED
        BY <1>5, <3>1, FlattenAppend
    <2>3. ~(Units(line) <= MaxLen)
      BY UnitsBounds, LinesAreTexts
    <2> HIDE DEF parts
    <2>4. QED
      BY <2>1, <2>2, <2>3 DEF CutInto
  <1>10. B \o q \in Seq(Seq(Char)) /\ AllWords(B \o q, r) = Pieces(B) \o parts
    <2>1. B \o q \in Seq(Seq(Char)) /\ Pieces(B \o q) = Pieces(B) \o q
      BY <1>1, PiecesOfWords
    <2>2. (Pieces(B) \o q) \o <<r>> = Pieces(B) \o Append(q, r)
      <3> DEFINE front == Pieces(B)
      <3>1. front \in Seq(Word)
        BY <1>2
      <3> HIDE DEF front
      <3>2. front \o q \in Seq(Word)
        BY <3>1, ConcatProperties
      <3>3. Append(front \o q, r) = (front \o q) \o <<r>>
        BY <1>6, <3>2, AppendIsConcat
      <3>4. \A x, y \in Seq(Word) : \A e \in Word : x \o Append(y, e) = Append(x \o y, e)
        BY ConcatThenAppend
      <3>5. front \o Append(q, r) = Append(front \o q, r)
        BY <1>6, <3>1, <3>4
      <3>6. QED
        BY <3>3, <3>5 DEF front
    <2>3. QED
      BY <1>6, <2>1, <2>2 DEF AllWords
  <1>11. Worded(Append(ls, line)) = Append(Worded(ls), line) /\ Worded(ls) \in Seq(Word)
    BY <1>3, WordedAppend, WordedIs
  <1> HIDE DEF parts
  <1>12. Split(Pieces(B) \o parts, Append(Worded(ls), line))
    BY <1>2, <1>3, <1>9, <1>11, SplitExtends
  <1>13. GoodCut(cut, Append(ls, line))
    BY <1>5, <1>6, <1>8, <1>10, <1>11, <1>12 DEF GoodCut
  <1>14. QED
    BY <1>13 DEF cut

(* Putting any line keeps the parts good.                                    *)
LEMMA PutLineKeeps ==
    ASSUME NEW cut, NEW ls \in Seq(Line), GoodCut(cut, ls), NEW line \in Line
    PROVE  GoodCut(PutLine(cut, line), Append(ls, line))
  <1>1. PICK A \in Seq(Seq(Char)), u \in Seq(Char) :
        /\ cut = [chunks |-> A, current |-> u]
        /\ Filled(A) /\ Units(u) <= MaxLen
        /\ IF u = <<>> THEN NoRoomFor(A, u) ELSE Closed(A, u)
        /\ Split(AllWords(A, u), Worded(ls))
    BY DEF GoodCut
  <1> DEFINE tight == u # <<>> /\ Units(u) + Units(line) + 1 > MaxLen
  <1>2. IF tight THEN Room(A, u, line, Append(A, u), <<>>) ELSE Room(A, u, line, A, u)
    BY <1>1, RoomIs
  <1>3. Units(line) \in Nat /\ Units(u) \in Nat /\ MaxLen \in Nat
    BY <1>1, UnitsBounds, LinesAreTexts
  <1>4. CASE Units(line) > MaxLen
    <2>1. CASE tight
      <3>1. PutLine(cut, line) = PutChars([chunks |-> Append(A, u), current |-> <<>>], line)
        BY <1>1, <1>4, <2>1, PutLineLong
      <3>2. QED
        BY <1>1, <1>2, <1>4, <2>1, <3>1, LongLineKeeps
    <2>2. CASE ~tight
      <3>1. u = <<>>
        BY <1>3, <1>4, <2>2
      <3>2. PutLine(cut, line) = PutChars([chunks |-> A, current |-> <<>>], line)
        BY <1>1, <1>4, <3>1, PutLineLong
      <3>3. QED
        BY <1>1, <1>2, <1>4, <3>1, <3>2, LongLineKeeps
    <2>3. QED
      BY <2>1, <2>2
  <1>5. CASE ~(Units(line) > MaxLen)
    <2>1. Units(line) <= MaxLen
      BY <1>3, <1>5
    <2>2. CASE tight
      <3>1. PutLine(cut, line) = [chunks |-> Append(A, u), current |-> line]
        BY <1>1, <1>5, <2>2, PutLineShort
      <3> DEFINE none == <<>>
      <3>2. Room(A, u, line, Append(A, u), none) /\ none = <<>>
        BY <1>2, <2>2
      <3> HIDE DEF none
      <3>3. GoodCut([chunks |-> Append(A, u),
                     current |-> IF none = <<>> THEN line ELSE Append(none, NewLine) \o line],
                    Append(ls, line))
        BY <1>1, <2>1, <3>2, ShortLineKeeps
      <3>4. QED
        BY <3>1, <3>2, <3>3
    <2>3. CASE ~tight
      <3>1. PutLine(cut, line) =
              [chunks |-> A, current |-> IF u = <<>> THEN line ELSE Append(u, NewLine) \o line]
        BY <1>1, <1>5, <2>3, PutLineShort
      <3>2. Room(A, u, line, A, u)
        BY <1>2, <2>3
      <3>3. QED
        BY <1>1, <2>1, <3>1, <3>2, ShortLineKeeps
    <2>4. QED
      BY <2>2, <2>3
  <1>6. QED
    BY <1>4, <1>5

(* All lines together: the invariant of the loop of chunk_text.              *)
LEMMA LinesCut ==
    ASSUME NEW ls \in Seq(Line)
    PROVE  GoodCut(FoldLeft(PutLine, [chunks |-> <<>>, current |-> <<>>], ls), ls)
  <1> DEFINE base == [chunks |-> <<>>, current |-> <<>>]
             T == {ks \in Seq(Line) : GoodCut(Fold(PutLineStep, base, ks), ks)}
  <1>1. base \in Cut
    BY EmptySeq DEF Cut
  <1>2. GoodCut(base, <<>>)
    <2> DEFINE A == <<>>
               u == <<>>
    <2>1. A \in Seq(Seq(Char)) /\ u \in Seq(Char) /\ Units(u) <= MaxLen
      BY EmptySeq, UnitsBounds
    <2>2. Filled(A) /\ NoRoomFor(A, u)
      BY EmptySeq DEF Filled, NoRoomFor
    <2>3. AllWords(A, u) = <<>> /\ Worded(<<>>) = <<>>
      <3>1. AllWords(A, u) = Pieces(A)
        BY <2>1, AllWordsType
      <3>2. Worded(<<>>) = <<>>
        BY EmptySeq, WordedIs, FlatEmpty
      <3>3. QED
        BY <3>1, <3>2, PiecesEmpty
    <2>4. Split(<<>>, <<>>)
      BY DEF Split, Ends
    <2>5. base = [chunks |-> A, current |-> u] /\ u = <<>>
      OBVIOUS
    <2> HIDE DEF A, u
    <2>6. QED
      BY <2>1, <2>2, <2>3, <2>4, <2>5 DEF GoodCut
  <1>3. FoldLeft(PutLine, base, ls) = Fold(PutLineStep, base, ls)
    BY <1>1, PutLineFold
  <1> HIDE DEF base
  <1>4. <<>> \in T
    BY <1>2, FoldEmpty, EmptySeq
  <1>5. ASSUME NEW ks \in Seq(Line), NEW line \in Line, ks \in T PROVE Append(ks, line) \in T
    <2> DEFINE cut == Fold(PutLineStep, base, ks)
    <2>1. cut \in Cut
      BY <1>1, PutLineStepIs, FoldType
    <2>2. Fold(PutLineStep, base, Append(ks, line)) = PutLineStep[<<cut, line>>]
      BY FoldAppend
    <2>3. GoodCut(cut, ks)
      BY <1>5
    <2> HIDE DEF cut
    <2>4. PutLineStep[<<cut, line>>] = PutLine(cut, line)
      BY <2>1, PutLineStepIs
    <2>5. GoodCut(PutLine(cut, line), Append(ks, line))
      BY <2>3, PutLineKeeps
    <2>6. Append(ks, line) \in Seq(Line)
      BY AppendProperties
    <2>7. QED
      BY <2>2, <2>4, <2>5, <2>6
  <1> HIDE DEF T
  <1>6. Seq(Line) \subseteq T
    BY <1>4, <1>5, SeqInduct
  <1>7. QED
    BY <1>3, <1>6 DEF T, base

(* What chunk_text returns.                                                 *)
LEMMA ChunksAre ==
    ASSUME NEW text \in Seq(Char), text # <<>>
    PROVE  Filled(chunk_text(text)) /\ Split(Pieces(chunk_text(text)), Words(text))
  <1> DEFINE end == FoldLeft(PutLine, [chunks |-> <<>>, current |-> <<>>], Lines(text))
  <1>1. GoodCut(end, Lines(text))
    BY LinesIs, LinesCut
  <1>2. chunk_text(text) = IF end.current = <<>> THEN end.chunks ELSE Flush(end).chunks
    BY DEF chunk_text
  <1> HIDE DEF end
  <1>3. PICK A \in Seq(Seq(Char)), u \in Seq(Char) :
        /\ end = [chunks |-> A, current |-> u]
        /\ Filled(A) /\ Units(u) <= MaxLen
        /\ IF u = <<>> THEN NoRoomFor(A, u) ELSE Closed(A, u)
        /\ Split(AllWords(A, u), Words(text))
    BY <1>1 DEF GoodCut, Words
  <1>4. CASE u = <<>>
    <2>1. chunk_text(text) = A
      BY <1>2, <1>3, <1>4
    <2>2. QED
      BY <1>3, <1>4, <2>1, AllWordsType
  <1>5. CASE u # <<>>
    <2>1. chunk_text(text) = Append(A, u)
      BY <1>2, <1>3, <1>5 DEF Flush
    <2>2. Units(u) \in 1..MaxLen
      BY <1>3, <1>5, UnitsBounds
    <2>3. Filled(Append(A, u))
      BY <1>3, <1>5, <2>2, FilledAppend
    <2>4. Pieces(Append(A, u)) = AllWords(A, u)
      BY <1>3, PiecesAppend DEF AllWords
    <2>5. QED
      BY <1>3, <2>1, <2>3, <2>4
  <1>6. QED
    BY <1>4, <1>5

(* The parts of a mail hold its text, are within the limit, are as long as   *)
(* its lines allow, and cut no line that fits into one.                      *)
THEOREM PartsHoldTheText == WritingSpec => []ChunksHoldTheText
  <1>1. WritingInv => ChunksHoldTheText
    <2> SUFFICES ASSUME WritingInv, writing.kind = "text" PROVE ChunksHoldTheText
      BY DEF ChunksHoldTheText
    <2>1. BeingRead
      BY Kinds DEF WritingInv
    <2>2. PICK text \in Seq(Char) \ {<<>>} : writing.text = text /\ writing.chunks = chunk_text(text)
      BY <2>1 DEF BeingRead
    <2> DEFINE chunks == chunk_text(text)
    <2>3. Filled(chunks) /\ Split(Pieces(chunks), Words(text))
      BY <2>2, ChunksAre
    <2>4. writing.chunks = chunks /\ writing.text = text
      BY <2>2
    <2> HIDE DEF chunks
    <2>5. QED
      BY <2>3, <2>4 DEF ChunksHoldTheText, Filled, Tight, Split, Uncut, Pieces, Words
  <1>2. QED
    BY <1>1, WritingInvariantHolds, PTL

-----------------------------------------------------------------------------
(* The reader of MarkdownV2.                                                *)

Item == {Plain(c) : c \in Char} \cup {Quote}
          \cup {Link(label, url) : label, url \in Seq(Char)}
Modes == {"text", "label", "bracket", "url"}
Acc == [mode: Modes, esc: BOOLEAN, ok: BOOLEAN, items: Seq(Item),
        label: Seq(Char), url: Seq(Char)]
ReadStep == [p \in Acc \X Char |-> ReadChar(p[1], p[2])]
Reading(acc, markup) == Fold(ReadStep, acc, markup)

LEMMA ItemsAre ==
    /\ \A c \in Char : Plain(c) \in Item
    /\ Quote \in Item
    /\ \A label, url \in Seq(Char) : Link(label, url) \in Item
  BY DEF Item

(* What the reader collects stays typed.                                     *)
LEMMA ItemsGrow ==
    ASSUME NEW x \in Acc, NEW c \in Char
    PROVE  /\ Append(x.items, Plain(c)) \in Seq(Item) /\ Append(x.items, Quote) \in Seq(Item)
           /\ Append(x.items, Link(x.label, x.url)) \in Seq(Item)
           /\ Append(x.label, c) \in Seq(Char) /\ Append(x.url, c) \in Seq(Char)
  <1> DEFINE item == Plain(c)
             quote == Quote
             link == Link(x.label, x.url)
  <1>1. x.items \in Seq(Item) /\ x.label \in Seq(Char) /\ x.url \in Seq(Char)
    BY DEF Acc
  <1>2. item \in Item /\ quote \in Item /\ link \in Item
    BY <1>1, ItemsAre
  <1> HIDE DEF item, quote, link
  <1>3. /\ Append(x.items, item) \in Seq(Item) /\ Append(x.items, quote) \in Seq(Item)
        /\ Append(x.items, link) \in Seq(Item)
    BY <1>1, <1>2, AppendProperties
  <1>4. Append(x.label, c) \in Seq(Char) /\ Append(x.url, c) \in Seq(Char)
    BY <1>1, AppendProperties
  <1>5. QED
    BY <1>3, <1>4 DEF item, quote, link

(* The reader goes from one of its states to another.                        *)
LEMMA LiteralType ==
    ASSUME NEW x \in Acc, NEW c \in Char
    PROVE  Literal(x, c) \in Acc
  <1> DEFINE items == Append(x.items, Plain(c))
             label == Append(x.label, c)
             url == Append(x.url, c)
  <1>2. items \in Seq(Item)
    BY ItemsGrow
  <1>3. label \in Seq(Char) /\ url \in Seq(Char)
    BY ItemsGrow
  <1>4. Literal(x, c) \in {[x EXCEPT !.items = items, !.esc = FALSE],
                           [x EXCEPT !.label = label, !.esc = FALSE],
                           [x EXCEPT !.url = url, !.esc = FALSE],
                           [x EXCEPT !.ok = FALSE]}
    <2> HIDE DEF items, label, url
    <2>1. CASE x.mode = "text"
      BY <2>1 DEF Literal, items
    <2>2. CASE x.mode = "label"
      BY <2>2 DEF Literal, label
    <2>3. CASE x.mode = "url"
      BY <2>3 DEF Literal, url
    <2>4. CASE x.mode \notin {"text", "label", "url"}
      BY <2>4 DEF Literal
    <2>5. QED
      BY <2>1, <2>2, <2>3, <2>4
  <1> HIDE DEF items, label, url
  <1>5. QED
    BY <1>2, <1>3, <1>4 DEF Acc

(* And so it does at a character of markup.                                  *)
LEMMA MarkupType ==
    ASSUME NEW x \in Acc, NEW c \in Char
    PROVE  Markup(x, c) \in Acc
  <1> DEFINE quoted == Append(x.items, Quote)
             linked == Append(x.items, Link(x.label, x.url))
  <1>2. quoted \in Seq(Item) /\ linked \in Seq(Item)
    BY ItemsGrow
  <1>3. Markup(x, c) \in {[x EXCEPT !.mode = "label"], [x EXCEPT !.items = quoted],
                          [x EXCEPT !.mode = "bracket"], [x EXCEPT !.mode = "url"],
                          [x EXCEPT !.mode = "text", !.label = <<>>, !.url = <<>>,
                                    !.items = linked],
                          [x EXCEPT !.ok = FALSE]}
    <2> HIDE DEF quoted, linked
    <2>1. CASE x.mode = "text" /\ c = "["
      BY <2>1 DEF Markup
    <2>2. CASE x.mode = "text" /\ c = ">" /\ AtLineStart(x.items)
      BY <2>2 DEF Markup, quoted
    <2>3. CASE x.mode = "label" /\ c = "]"
      BY <2>3 DEF Markup
    <2>4. CASE x.mode = "bracket" /\ c = "("
      BY <2>4 DEF Markup
    <2>5. CASE x.mode = "url" /\ c = ")"
      BY <2>5 DEF Markup, linked
    <2>6. CASE /\ ~(x.mode = "text" /\ c = "[")
               /\ ~(x.mode = "text" /\ c = ">" /\ AtLineStart(x.items))
               /\ ~(x.mode = "label" /\ c = "]") /\ ~(x.mode = "bracket" /\ c = "(")
               /\ ~(x.mode = "url" /\ c = ")")
      BY <2>6 DEF Markup
    <2>7. QED
      BY <2>1, <2>2, <2>3, <2>4, <2>5, <2>6
  <1>4. <<>> \in Seq(Char)
    BY EmptySeq
  <1> HIDE DEF quoted, linked
  <1>5. QED
    <2> DEFINE none == <<>>
    <2>1. none \in Seq(Char)
      BY <1>4
    <2> HIDE DEF none
    <2>2. \A mode \in Modes : [x EXCEPT !.mode = mode] \in Acc
      BY DEF Acc
    <2>3. [x EXCEPT !.items = quoted] \in Acc
      BY <1>2 DEF Acc
    <2>4. [x EXCEPT !.ok = FALSE] \in Acc
      BY DEF Acc
    <2>5. [x EXCEPT !.mode = "text", !.label = none, !.url = none, !.items = linked] \in Acc
      BY <1>2, <2>1 DEF Acc, Modes
    <2>6. "label" \in Modes /\ "bracket" \in Modes /\ "url" \in Modes
      BY DEF Modes
    <2>7. QED
      BY <1>3, <2>2, <2>3, <2>4, <2>5, <2>6 DEF none

LEMMA ReadStepIs ==
    /\ ReadStep \in Folder(Acc, Char)
    /\ \A x \in Acc, y \in Char : ReadStep[<<x, y>>] = ReadChar(x, y)
  <1>1. \A x \in Acc, y \in Char : ReadChar(x, y) \in Acc
    <2> TAKE x \in Acc, y \in Char
    <2>1. Literal(x, y) \in Acc /\ Markup(x, y) \in Acc
      BY LiteralType, MarkupType
    <2>2. [x EXCEPT !.esc = TRUE] \in Acc
      BY DEF Acc
    <2>3. QED
      BY <2>1, <2>2 DEF ReadChar
  <1>2. QED
    BY <1>1 DEF ReadStep, Folder

(* Reading markup is a fold over its characters.                             *)
LEMMA ReadFold ==
    ASSUME NEW s \in Seq(Char), NEW base \in Acc
    PROVE  FoldLeft(ReadChar, base, s) = Fold(ReadStep, base, s)
  <1> DEFINE X == Acc
             Y == Char
             first == base
             Turn(f) == [D \in SUBSET DOMAIN s |->
                           IF D = {} THEN first
                           ELSE ReadChar(f[D \ {Max(D)}], s[Max(D)])]
             it == CHOOSE f : f = Turn(f)
  <1>1. /\ ReadStep \in Folder(X, Y) /\ first \in X /\ s \in Seq(Y)
        /\ \A x \in X, y \in Y : ReadStep[<<x, y>>] = ReadChar(x, y)
    BY ReadStepIs
  <1>2. FoldLeft(ReadChar, base, s) = it[DOMAIN s]
    BY DEF FoldLeft, MapThenFoldSet
  <1> HIDE DEF X, Y, first
  <1>3. \A D \in SUBSET DOMAIN s : D # {} =>
          Max(D) \in D /\ D \ {Max(D)} \in SUBSET DOMAIN s /\ s[Max(D)] \in Y
    BY <1>1, InnerStep
  <1>4. PICK f \in [SUBSET DOMAIN s -> X] : Steps(f, ReadStep, first, s)
    BY <1>1, StepsExist DEF Stepped
  <1>5. f = Turn(f)
    <2>1. ASSUME NEW D \in SUBSET DOMAIN s
          PROVE  f[D] = IF D = {} THEN first
                        ELSE ReadChar(f[D \ {Max(D)}], s[Max(D)])
      <3>1. CASE D = {}
        BY <1>4, <3>1 DEF Steps
      <3>2. CASE D # {}
        <4>1. f[D] = ReadStep[<<f[D \ {Max(D)}], s[Max(D)]>>]
          BY <1>4, <3>2 DEF Steps
        <4>2. f[D \ {Max(D)}] \in X /\ s[Max(D)] \in Y
          BY <1>3, <3>2
        <4>3. QED
          BY <1>1, <3>2, <4>1, <4>2
      <3>3. QED
        BY <3>1, <3>2
    <2>2. QED
      BY <2>1
  <1>6. it = Turn(it)
    BY <1>5
  <1> HIDE DEF it
  <1>7. it[{}] = first
    BY <1>6
  <1>8. ASSUME NEW D \in SUBSET DOMAIN s, D # {}, it[D \ {Max(D)}] \in X
        PROVE  it[D] = ReadStep[<<it[D \ {Max(D)}], s[Max(D)]>>]
    <2>1. it[D] = ReadChar(it[D \ {Max(D)}], s[Max(D)])
      BY <1>6, <1>8
    <2>2. s[Max(D)] \in Y
      BY <1>3, <1>8
    <2>3. QED
      BY <1>1, <1>8, <2>1, <2>2
  <1>9. Walks(it, X, ReadStep, first, s)
    BY <1>7, <1>8 DEF Walks
  <1>10. Reached(it, s) = Fold(ReadStep, first, s)
    BY <1>1, <1>9, WalkFolds
  <1>11. QED
    BY <1>2, <1>10 DEF Reached, first

LEMMA ReadingEmpty ==
    ASSUME NEW acc
    PROVE  Reading(acc, <<>>) = acc
  BY FoldEmpty DEF Reading

(* One character more is read from where the reader was.                     *)
LEMMA ReadingAppend ==
    ASSUME NEW acc \in Acc, NEW s \in Seq(Char), NEW c \in Char
    PROVE  /\ Reading(acc, s) \in Acc
           /\ Reading(acc, Append(s, c)) = ReadChar(Reading(acc, s), c)
  <1>1. Reading(acc, s) \in Acc
    BY ReadStepIs, FoldType DEF Reading
  <1>2. Reading(acc, Append(s, c)) = ReadStep[<<Reading(acc, s), c>>]
    BY FoldAppend DEF Reading
  <1>3. QED
    BY <1>1, <1>2, ReadStepIs

(* A concatenation is read in two.                                           *)
LEMMA ReadingConcat ==
    ASSUME NEW acc, NEW s \in Seq(Char), NEW t \in Seq(Char)
    PROVE  Reading(acc, s \o t) = Reading(Reading(acc, s), t)
  BY FoldConcat DEF Reading

LEMMA ReadingOne ==
    ASSUME NEW acc \in Acc, NEW c \in Char
    PROVE  <<c>> \in Seq(Char) /\ Reading(acc, <<c>>) = ReadChar(acc, c)
  <1> DEFINE none == <<>>
  <1>1. none \in Seq(Char) /\ Append(none, c) = <<c>> /\ Reading(acc, none) = acc
    BY EmptySeq, ReadingEmpty
  <1> HIDE DEF none
  <1>2. Reading(acc, Append(none, c)) = ReadChar(Reading(acc, none), c)
    BY <1>1, ReadingAppend
  <1>3. QED
    BY <1>1, <1>2, OnlyOne

LEMMA ReadingTwo ==
    ASSUME NEW acc \in Acc, NEW c \in Char, NEW d \in Char
    PROVE  /\ <<c, d>> \in Seq(Char)
           /\ Reading(acc, <<c, d>>) = ReadChar(ReadChar(acc, c), d)
  <1> DEFINE one == <<c>>
  <1>1. one \in Seq(Char) /\ Reading(acc, one) = ReadChar(acc, c)
    BY ReadingOne
  <1>2. Append(one, d) = <<c, d>>
    <2>1. /\ Append(one, d) \in Seq(Char) /\ Len(Append(one, d)) = 2
          /\ Append(one, d)[1] = c /\ Append(one, d)[2] = d
      BY <1>1, AppendProperties
    <2>2. /\ <<c, d>> \in Seq(Char) /\ Len(<<c, d>>) = 2
          /\ <<c, d>>[1] = c /\ <<c, d>>[2] = d
      OBVIOUS
    <2>3. \A i \in 1..2 : Append(one, d)[i] = <<c, d>>[i]
      <3>1. \A i \in 1..2 : i = 1 \/ i = 2
        OBVIOUS
      <3>2. QED
        BY <2>1, <2>2, <3>1
    <2>4. QED
      BY <2>1, <2>2, <2>3, SeqEqual
  <1> HIDE DEF one
  <1>3. Reading(acc, Append(one, d)) = ReadChar(Reading(acc, one), d)
    BY <1>1, ReadingAppend
  <1>4. Append(one, d) \in Seq(Char)
    BY <1>1, AppendProperties
  <1>5. QED
    BY <1>1, <1>2, <1>3, <1>4

-----------------------------------------------------------------------------
(* Where the reader is.                                                     *)

Is(r, mode, items, label, url) ==
    /\ r \in Acc /\ r.ok /\ ~r.esc
    /\ r.mode = mode /\ r.items = items /\ r.label = label /\ r.url = url

(* It has read a backslash.                                                 *)
IsEscaping(r, mode, items, label, url) ==
    /\ r \in Acc /\ r.ok /\ r.esc
    /\ r.mode = mode /\ r.items = items /\ r.label = label /\ r.url = url

(* A backslash escapes, wherever it is read.                                 *)
LEMMA BackslashRead ==
    ASSUME NEW r, NEW mode, NEW items, NEW label, NEW url, Is(r, mode, items, label, url)
    PROVE  IsEscaping(ReadChar(r, "\\"), mode, items, label, url)
  <1>1. ReadChar(r, "\\") = [r EXCEPT !.esc = TRUE]
    BY DEF ReadChar, Is
  <1>2. QED
    BY <1>1 DEF Is, IsEscaping, Acc

(* A character that stands for itself goes to where the reader is.           *)
LEMMA LiteralRead ==
    ASSUME NEW r \in Acc, r.ok, NEW c \in Char
    PROVE  /\ r.mode = "text" =>
                Is(Literal(r, c), "text", Append(r.items, Plain(c)), r.label, r.url)
           /\ r.mode = "label" =>
                Is(Literal(r, c), "label", r.items, Append(r.label, c), r.url)
           /\ r.mode = "url" =>
                Is(Literal(r, c), "url", r.items, r.label, Append(r.url, c))
  <1> DEFINE m == Append(r.items, Plain(c))
             l == Append(r.label, c)
             u == Append(r.url, c)
  <1>1. m \in Seq(Item) /\ l \in Seq(Char) /\ u \in Seq(Char)
    BY ItemsGrow
  <1>2. /\ r.mode = "text" => Literal(r, c) = [r EXCEPT !.items = m, !.esc = FALSE]
        /\ r.mode = "label" => Literal(r, c) = [r EXCEPT !.label = l, !.esc = FALSE]
        /\ r.mode = "url" => Literal(r, c) = [r EXCEPT !.url = u, !.esc = FALSE]
    BY DEF Literal
  <1> HIDE DEF m, l, u
  <1>3. CASE r.mode = "text"
    <2> DEFINE s == [r EXCEPT !.items = m, !.esc = FALSE]
    <2>1. /\ s \in Acc /\ s.items = m /\ s.esc = FALSE /\ s.ok = r.ok /\ s.mode = r.mode
          /\ s.label = r.label /\ s.url = r.url
      BY <1>1 DEF Acc
    <2>2. Literal(r, c) = s
      BY <1>2, <1>3
    <2> HIDE DEF s
    <2>3. QED
      BY <1>3, <2>1, <2>2 DEF Is, m
  <1>4. CASE r.mode = "label"
    <2> DEFINE s == [r EXCEPT !.label = l, !.esc = FALSE]
    <2>1. /\ s \in Acc /\ s.label = l /\ s.esc = FALSE /\ s.ok = r.ok /\ s.mode = r.mode
          /\ s.items = r.items /\ s.url = r.url
      BY <1>1 DEF Acc
    <2>2. Literal(r, c) = s
      BY <1>2, <1>4
    <2> HIDE DEF s
    <2>3. QED
      BY <1>4, <2>1, <2>2 DEF Is, l
  <1>5. CASE r.mode = "url"
    <2> DEFINE s == [r EXCEPT !.url = u, !.esc = FALSE]
    <2>1. /\ s \in Acc /\ s.url = u /\ s.esc = FALSE /\ s.ok = r.ok /\ s.mode = r.mode
          /\ s.items = r.items /\ s.label = r.label
      BY <1>1 DEF Acc
    <2>2. Literal(r, c) = s
      BY <1>2, <1>5
    <2> HIDE DEF s
    <2>3. QED
      BY <1>5, <2>1, <2>2 DEF Is, u
  <1>6. QED
    BY <1>3, <1>4, <1>5 DEF m, l, u

(* A character that is escaped when it has to be stands for itself, in a     *)
(* text and in the label of a link, and so does one in a link's url.        *)
LEMMA CharIsRead ==
    ASSUME NEW r, NEW mode \in {"text", "label"}, NEW items, NEW label, NEW url,
           Is(r, mode, items, label, url), NEW c \in Char,
           NEW s, s = IF c \in Reserved THEN <<"\\", c>> ELSE <<c>>
    PROVE  /\ mode = "text" => Is(Reading(r, s), "text", Append(items, Plain(c)), label, url)
           /\ mode = "label" => Is(Reading(r, s), "label", items, Append(label, c), url)
  <1>1. r \in Acc /\ r.ok /\ r.items = items /\ r.label = label /\ r.url = url /\ r.mode = mode
        /\ ~r.esc
    BY DEF Is
  <1>2. "\\" \in Char
    BY CharIs DEF Reserved
  <1>3. CASE c \in Reserved
    <2> DEFINE e == ReadChar(r, "\\")
    <2>1. Reading(r, s) = ReadChar(e, c)
      BY <1>1, <1>2, <1>3, ReadingTwo
    <2>2. IsEscaping(e, mode, items, label, url)
      BY BackslashRead
    <2> HIDE DEF e
    <2>3. e \in Acc /\ e.ok /\ e.esc /\ e.items = items /\ e.label = label /\ e.url = url
          /\ e.mode = mode
      BY <2>2 DEF IsEscaping
    <2>4. Reading(r, s) = Literal(e, c)
      BY <2>1, <2>3 DEF ReadChar
    <2>5. QED
      BY <2>3, <2>4, LiteralRead
  <1>4. CASE c \notin Reserved
    <2>1. Reading(r, s) = ReadChar(r, c)
      BY <1>1, <1>4, ReadingOne
    <2>2. c # "\\" /\ r.mode # "url"
      BY <1>1, <1>4 DEF Reserved
    <2>3. Reading(r, s) = Literal(r, c)
      BY <1>1, <1>4, <2>1, <2>2 DEF ReadChar
    <2>4. QED
      BY <1>1, <2>3, LiteralRead
  <1>5. QED
    BY <1>3, <1>4

(* In the url of a link only the bracket and the backslash are escaped.      *)
LEMMA UrlCharIsRead ==
    ASSUME NEW r, NEW items, NEW label, NEW url, Is(r, "url", items, label, url),
           NEW c \in Char, NEW s, s = IF c \in {")", "\\"} THEN <<"\\", c>> ELSE <<c>>
    PROVE  Is(Reading(r, s), "url", items, label, Append(url, c))
  <1>1. r \in Acc /\ r.ok /\ r.items = items /\ r.label = label /\ r.url = url /\ r.mode = "url"
        /\ ~r.esc
    BY DEF Is
  <1>2. "\\" \in Char
    BY CharIs DEF Reserved
  <1>3. CASE c \in {")", "\\"}
    <2> DEFINE e == ReadChar(r, "\\")
    <2>1. Reading(r, s) = ReadChar(e, c)
      BY <1>1, <1>2, <1>3, ReadingTwo
    <2>2. IsEscaping(e, "url", items, label, url)
      BY BackslashRead
    <2> HIDE DEF e
    <2>3. e \in Acc /\ e.ok /\ e.esc /\ e.items = items /\ e.label = label /\ e.url = url
          /\ e.mode = "url"
      BY <2>2 DEF IsEscaping
    <2>4. Reading(r, s) = Literal(e, c)
      BY <2>1, <2>3 DEF ReadChar
    <2>5. QED
      BY <2>3, <2>4, LiteralRead
  <1>4. CASE c \notin {")", "\\"}
    <2>1. Reading(r, s) = ReadChar(r, c)
      BY <1>1, <1>4, ReadingOne
    <2>2. Reading(r, s) = Literal(r, c)
      BY <1>1, <1>4, <2>1 DEF ReadChar
    <2>3. QED
      BY <1>1, <2>2, LiteralRead
  <1>5. QED
    BY <1>3, <1>4

-----------------------------------------------------------------------------
(* Texts that are joined.                                                   *)

(* A function of a section is a sequence.                                    *)
LEMMA FunctionIsSeq ==
    ASSUME NEW X, NEW n \in Nat, NEW f \in [1..n -> X]
    PROVE  f \in Seq(X) /\ Len(f) = n
  OBVIOUS

LEMMA FourIs ==
    ASSUME NEW X, NEW a \in X, NEW b \in X, NEW c \in X, NEW d \in X
    PROVE  Append(Append(Append(<<a>>, b), c), d) = <<a, b, c, d>>
  <1> DEFINE one == <<a>>
             two == Append(one, b)
             three == Append(two, c)
             four == Append(three, d)
             tuple == <<a, b, c, d>>
  <1>0. \A x \in Seq(X), e \in X :
          /\ Append(x, e) \in Seq(X) /\ Len(Append(x, e)) = Len(x) + 1
          /\ Append(x, e)[Len(x) + 1] = e
          /\ \A i \in 1..Len(x) : Append(x, e)[i] = x[i]
    BY AppendProperties
  <1>1. one \in Seq(X) /\ Len(one) = 1 /\ one[1] = a
    BY OnlyOne
  <1>2. two \in Seq(X) /\ Len(two) = 2 /\ two[1] = a /\ two[2] = b
    <2> HIDE DEF one
    <2>1. /\ two \in Seq(X) /\ Len(two) = Len(one) + 1 /\ two[Len(one) + 1] = b
          /\ \A i \in 1..Len(one) : two[i] = one[i]
      BY <1>0, <1>1
    <2> HIDE DEF two
    <2>2. QED
      BY <1>1, <2>1
  <1>3. three \in Seq(X) /\ Len(three) = 3 /\ three[1] = a /\ three[2] = b /\ three[3] = c
    <2> HIDE DEF two
    <2>1. /\ three \in Seq(X) /\ Len(three) = Len(two) + 1 /\ three[Len(two) + 1] = c
          /\ \A i \in 1..Len(two) : three[i] = two[i]
      BY <1>0, <1>2
    <2> HIDE DEF three
    <2>2. QED
      BY <1>2, <2>1
  <1>4. four \in Seq(X) /\ Len(four) = 4 /\ four[1] = a /\ four[2] = b /\ four[3] = c
        /\ four[4] = d
    <2> HIDE DEF three
    <2>1. /\ four \in Seq(X) /\ Len(four) = Len(three) + 1 /\ four[Len(three) + 1] = d
          /\ \A i \in 1..Len(three) : four[i] = three[i]
      BY <1>0, <1>3
    <2> HIDE DEF four
    <2>2. QED
      BY <1>3, <2>1
  <1>5. tuple \in Seq(X) /\ Len(tuple) = 4 /\ tuple[1] = a /\ tuple[2] = b /\ tuple[3] = c
        /\ tuple[4] = d
    OBVIOUS
  <1> HIDE DEF four, tuple
  <1>6. \A i \in 1..4 : four[i] = tuple[i]
    <2>1. \A i \in 1..4 : i \in {1, 2, 3, 4}
      OBVIOUS
    <2>2. QED
      BY <1>4, <1>5, <2>1
  <1>7. four = tuple
    BY <1>4, <1>5, <1>6, SeqEqual
  <1>8. QED
    BY <1>7 DEF four, three, two, one, tuple

(* What is joined is a text.                                                 *)
LEMMA JoinedType ==
    ASSUME NEW S, NEW tt \in Seq(Seq(S)), NEW sep \in Seq(S)
    PROVE  /\ [i \in DOMAIN tt |-> IF i = 1 THEN tt[i] ELSE sep \o tt[i]] \in Seq(Seq(S))
           /\ Joined(tt, sep) \in Seq(S)
  <1> DEFINE js == [i \in DOMAIN tt |-> IF i = 1 THEN tt[i] ELSE sep \o tt[i]]
  <1>1. \A i \in 1..Len(tt) : tt[i] \in Seq(S) /\ sep \o tt[i] \in Seq(S)
    BY ElementOfSeq, ConcatProperties
  <1>2. DOMAIN tt = 1..Len(tt) /\ Len(tt) \in Nat
    BY LenProperties
  <1>3. js \in [1..Len(tt) -> Seq(S)]
    BY <1>1, <1>2
  <1> HIDE DEF js
  <1>4. js \in Seq(Seq(S))
    BY <1>2, <1>3, FunctionIsSeq
  <1>5. Joined(tt, sep) = FlattenSeq(js)
    BY DEF Joined, js
  <1>6. FlattenSeq(js) \in Seq(S)
    BY <1>4, FlattenType
  <1>7. QED
    BY <1>4, <1>5, <1>6 DEF js

LEMMA JoinedEmpty ==
    ASSUME NEW sep
    PROVE  Joined(<<>>, sep) = <<>>
  BY FlattenEmpty DEF Joined

LEMMA JoinedFirst ==
    ASSUME NEW S, NEW t \in Seq(S), NEW sep
    PROVE  Joined(<<t>>, sep) = t
  <1>1. DOMAIN <<t>> = {1} /\ <<t>>[1] = t
    OBVIOUS
  <1>2. [i \in DOMAIN <<t>> |-> IF i = 1 THEN <<t>>[i] ELSE sep \o <<t>>[i]] = <<t>>
    BY <1>1
  <1>3. FlattenSeq(<<t>>) = t
    BY FlattenOne
  <1>4. QED
    BY <1>2, <1>3 DEF Joined

(* One text more is joined by one separator more.                            *)
LEMMA JoinedAppend ==
    ASSUME NEW S, NEW sep \in Seq(S), NEW t \in Seq(S)
    PROVE  \A tt \in Seq(Seq(S)) :
             tt # <<>> => Joined(Append(tt, t), sep) = Joined(tt, sep) \o (sep \o t)
  <1> SUFFICES ASSUME NEW tt \in Seq(Seq(S)), tt # <<>>
               PROVE  Joined(Append(tt, t), sep) = Joined(tt, sep) \o (sep \o t)
    OBVIOUS
  <1> DEFINE n == Len(tt)
             more == Append(tt, t)
             js == [i \in DOMAIN tt |-> IF i = 1 THEN tt[i] ELSE sep \o tt[i]]
             ks == [i \in DOMAIN more |-> IF i = 1 THEN more[i] ELSE sep \o more[i]]
             last == sep \o t
  <1>1. /\ n \in Nat /\ DOMAIN tt = 1..n /\ DOMAIN more = 1..(n + 1) /\ more[n + 1] = t
        /\ more \in Seq(Seq(S)) /\ \A i \in 1..n : more[i] = tt[i]
    BY LenProperties, AppendProperties
  <1>2. n # 0
    BY <1>1, EmptySeq
  <1>3. last \in Seq(S)
    BY ConcatProperties
  <1>4. js \in Seq(Seq(S)) /\ ks \in Seq(Seq(S))
    BY <1>1, JoinedType
  <1>5. Len(js) = n /\ Len(ks) = n + 1
    <2>1. DOMAIN js = 1..n /\ DOMAIN ks = 1..(n + 1)
      BY <1>1
    <2> HIDE DEF js, ks, n, more
    <2>2. QED
      BY <1>1, <1>4, <2>1, LenProperties
  <1>6. \A i \in 1..n : ks[i] = js[i]
    <2> HIDE DEF n, more
    <2>1. QED
      BY <1>1
  <1>7. ks[n + 1] = last
    <2> HIDE DEF more
    <2>1. n + 1 \in 1..(n + 1) /\ n + 1 # 1
      BY <1>1, <1>2
    <2> HIDE DEF n
    <2>2. QED
      BY <1>1, <2>1
  <1>8. Joined(more, sep) = FlattenSeq(ks) /\ Joined(tt, sep) = FlattenSeq(js)
    BY DEF Joined
  <1> HIDE DEF js, ks, last, n, more
  <1>9. /\ Append(js, last) \in Seq(Seq(S)) /\ Len(Append(js, last)) = n + 1
        /\ Append(js, last)[n + 1] = last
        /\ \A i \in 1..n : Append(js, last)[i] = js[i]
    BY <1>3, <1>4, <1>5, AppendProperties
  <1>10. ks = Append(js, last)
    <2>1. \A i \in 1..(n + 1) : i \in 1..n \/ i = n + 1
      BY <1>1
    <2>2. \A i \in 1..(n + 1) : ks[i] = Append(js, last)[i]
      BY <1>6, <1>7, <1>9, <2>1
    <2>3. QED
      BY <1>4, <1>5, <1>9, <2>2, SeqEqual
  <1>11. FlattenSeq(Append(js, last)) = FlattenSeq(js) \o last
    BY <1>3, <1>4, FlattenAppend
  <1>12. QED
    BY <1>8, <1>10, <1>11 DEF last, more

(* Four texts, as those of a notification.                                  *)
FourTexts(S, a, b, c, d, sep) ==
    a \in Seq(S) /\ b \in Seq(S) /\ c \in Seq(S) /\ d \in Seq(S) /\ sep \in Seq(S)
FourJoined(a, b, c, d, sep) == Joined(<<a, b, c, d>>, sep)

LEMMA JoinedFour ==
    ASSUME NEW S, NEW a, NEW b, NEW c, NEW d, NEW sep, FourTexts(S, a, b, c, d, sep)
    PROVE  FourJoined(a, b, c, d, sep) =
             ((a \o (sep \o b)) \o (sep \o c)) \o (sep \o d)
  <1> DEFINE T == Seq(S)
             one == <<a>>
             two == Append(one, b)
             three == Append(two, c)
             four == Append(three, d)
  <1>2. a \in T /\ b \in T /\ c \in T /\ d \in T /\ sep \in T
    BY DEF FourTexts
  <1>1. \A tt \in Seq(T), t \in T :
           tt # <<>> => Joined(Append(tt, t), sep) = Joined(tt, sep) \o (sep \o t)
    BY <1>2, JoinedAppend
  <1>3. Joined(one, sep) = a
    BY <1>2, JoinedFirst
  <1> HIDE DEF T
  <1>4. four = <<a, b, c, d>>
    BY <1>2, FourIs
  <1>5. one \in Seq(T) /\ one # <<>>
    BY <1>2, OnlyOne
  <1>6. Append(one, b) \in Seq(T) /\ Append(one, b) # <<>>
    <2> HIDE DEF one
    <2>1. QED
      BY <1>2, <1>5, AppendProperties
  <1> HIDE DEF one
  <1>7. two \in Seq(T) /\ two # <<>>
    BY <1>6
  <1>8. Joined(two, sep) = a \o (sep \o b)
    BY <1>1, <1>2, <1>3, <1>5
  <1> HIDE DEF two
  <1>9. three \in Seq(T) /\ three # <<>>
    BY <1>2, <1>7, AppendProperties
  <1>10. Joined(three, sep) = (a \o (sep \o b)) \o (sep \o c)
    BY <1>1, <1>2, <1>7, <1>8
  <1> HIDE DEF three
  <1>11. Joined(four, sep) = Joined(three, sep) \o (sep \o d)
    BY <1>1, <1>2, <1>9
  <1> HIDE DEF four
  <1>12. QED
    BY <1>4, <1>10, <1>11 DEF FourJoined

-----------------------------------------------------------------------------
(* Escaping.                                                                *)

EscapeOf(special) == [c \in Char |-> IF c \in special THEN <<"\\", c>> ELSE <<c>>]

LEMMA EscapeOfIs ==
    ASSUME NEW special
    PROVE  EscapeOf(special) \in Spread(Char, Char)
  <1>1. "\\" \in Char
    BY CharIs DEF Reserved
  <1>2. \A c \in Char : <<"\\", c>> \in Seq(Char) /\ <<c>> \in Seq(Char)
    BY <1>1
  <1>3. QED
    BY <1>2 DEF EscapeOf, Spread

(* Escaping maps each character to one or two, and flattens.                 *)
LEMMA EscapeIs ==
    ASSUME NEW s \in Seq(Char), NEW special
    PROVE  /\ Escape(s, special) = FlatOf(EscapeOf(special), s)
           /\ Escape(s, special) \in Seq(Char)
  <1>1. \A i \in DOMAIN s : s[i] \in Char
    BY ElementOfSeq
  <1>2. EachOf(EscapeOf(special), s) =
          [i \in DOMAIN s |-> IF s[i] \in special THEN <<"\\", s[i]>> ELSE <<s[i]>>]
    BY <1>1 DEF EachOf, EscapeOf
  <1>3. FlatOf(EscapeOf(special), s) \in Seq(Char)
    BY EscapeOfIs, FlatType
  <1>4. QED
    BY <1>2, <1>3 DEF Escape, FlatOf

LEMMA EscapeEmpty ==
    ASSUME NEW special
    PROVE  Escape(<<>>, special) = <<>>
  BY EscapeIs, FlatEmpty, EmptySeq

(* One character more is escaped by itself.                                  *)
LEMMA EscapeAppend ==
    ASSUME NEW s \in Seq(Char), NEW c \in Char, NEW special
    PROVE  /\ EscapeOf(special)[c] = IF c \in special THEN <<"\\", c>> ELSE <<c>>
           /\ EscapeOf(special)[c] \in Seq(Char)
           /\ Escape(Append(s, c), special) = Escape(s, special) \o EscapeOf(special)[c]
  <1>1. Append(s, c) \in Seq(Char)
    BY AppendProperties
  <1>2. FlatOf(EscapeOf(special), Append(s, c)) =
          FlatOf(EscapeOf(special), s) \o EscapeOf(special)[c]
    BY EscapeOfIs, FlatAppend
  <1>3. EscapeOf(special)[c] = IF c \in special THEN <<"\\", c>> ELSE <<c>>
    BY DEF EscapeOf
  <1>4. EscapeOf(special)[c] \in Seq(Char)
    BY EscapeOfIs DEF Spread
  <1>5. QED
    BY <1>1, <1>2, <1>3, <1>4, EscapeIs

(* A concatenation is escaped in two.                                        *)
LEMMA EscapeConcat ==
    ASSUME NEW s \in Seq(Char), NEW t \in Seq(Char), NEW special
    PROVE  Escape(s \o t, special) = Escape(s, special) \o Escape(t, special)
  <1>1. s \o t \in Seq(Char)
    BY ConcatProperties
  <1>2. FlatOf(EscapeOf(special), s \o t) =
          FlatOf(EscapeOf(special), s) \o FlatOf(EscapeOf(special), t)
    BY EscapeOfIs, FlatConcat
  <1>3. QED
    BY <1>1, <1>2, EscapeIs

(* A joined text that is escaped.                                           *)
EscapedEach(tt, special) == [i \in DOMAIN tt |-> Escape(tt[i], special)]
EscapeText(special) == [t \in Seq(Char) |-> Escape(t, special)]

LEMMA EscapedEachIs ==
    ASSUME NEW tt \in Seq(Seq(Char)), NEW special
    PROVE  /\ EscapedEach(tt, special) = EachOf(EscapeText(special), tt)
           /\ EscapedEach(tt, special) \in Seq(Seq(Char))
  <1>1. \A i \in DOMAIN tt : tt[i] \in Seq(Char)
    BY ElementOfSeq
  <1>2. EscapedEach(tt, special) = EachOf(EscapeText(special), tt)
    BY <1>1 DEF EscapedEach, EachOf, EscapeText
  <1>3. EscapeText(special) \in Spread(Seq(Char), Char)
    BY EscapeIs DEF EscapeText, Spread
  <1>4. QED
    BY <1>2, <1>3, EachType

LEMMA EscapedEachAppend ==
    ASSUME NEW tt \in Seq(Seq(Char)), NEW t \in Seq(Char), NEW special
    PROVE  EscapedEach(Append(tt, t), special) =
             Append(EscapedEach(tt, special), Escape(t, special))
  <1>1. Append(tt, t) \in Seq(Seq(Char))
    BY AppendProperties
  <1>2. EachOf(EscapeText(special), Append(tt, t)) =
          Append(EachOf(EscapeText(special), tt), EscapeText(special)[t])
    BY EachAppend
  <1>3. EscapeText(special)[t] = Escape(t, special)
    BY DEF EscapeText
  <1>4. QED
    BY <1>1, <1>2, <1>3, EscapedEachIs

(* Escaping what was joined is joining what was escaped, separators          *)
(* included.                                                                 *)
LEMMA EscapeJoined ==
    ASSUME NEW tt \in Seq(Seq(Char)), NEW sep \in Seq(Char), NEW special
    PROVE  Escape(Joined(tt, sep), special) =
             Joined(EscapedEach(tt, special), Escape(sep, special))
  <1> DEFINE T == {uu \in Seq(Seq(Char)) :
                     Escape(Joined(uu, sep), special) =
                       Joined(EscapedEach(uu, special), Escape(sep, special))}
             es == Escape(sep, special)
  <1>1. es \in Seq(Char)
    BY EscapeIs
  <1>2. <<>> \in T
    <2>1. EscapedEach(<<>>, special) = <<>>
      BY DEF EscapedEach
    <2>2. QED
      BY <2>1, JoinedEmpty, EscapeEmpty, EmptySeq
  <1>3. ASSUME NEW uu \in Seq(Seq(Char)), NEW t \in Seq(Char), uu \in T
        PROVE  Append(uu, t) \in T
    <2> DEFINE ee == EscapedEach(uu, special)
               et == Escape(t, special)
    <2>1. ee \in Seq(Seq(Char)) /\ et \in Seq(Char)
      BY EscapedEachIs, EscapeIs
    <2>2. EscapedEach(Append(uu, t), special) = Append(ee, et)
      BY EscapedEachAppend
    <2>3. uu = <<>> <=> ee = <<>>
      <3>1. DOMAIN ee = DOMAIN uu
        BY DEF EscapedEach
      <3>2. DOMAIN uu = 1..Len(uu) /\ DOMAIN ee = 1..Len(ee) /\ Len(uu) \in Nat /\ Len(ee) \in Nat
        BY <2>1, LenProperties
      <3> HIDE DEF ee
      <3>3. Len(uu) = Len(ee)
        BY <3>1, <3>2
      <3>4. QED
        BY <2>1, <3>3, EmptySeq
    <2>4. Escape(Joined(uu, sep), special) = Joined(ee, es)
      BY <1>3
    <2>5. Joined(uu, sep) \in Seq(Char) /\ sep \o t \in Seq(Char) /\ Append(uu, t) \in Seq(Seq(Char))
      BY JoinedType, ConcatProperties, AppendProperties
    <2> DEFINE j == Joined(uu, sep)
    <2>6. \A x, y \in Seq(Char) : \A yy \in Seq(Seq(Char)) :
            yy # <<>> => Joined(Append(yy, y), x) = Joined(yy, x) \o (x \o y)
      BY JoinedAppend
    <2> HIDE DEF ee, et, es, j
    <2>7. Escape(j \o (sep \o t), special) = Joined(ee, es) \o (es \o et)
      <3>1. Escape(sep \o t, special) = es \o et
        BY EscapeConcat DEF es, et
      <3>2. j \in Seq(Char) /\ sep \o t \in Seq(Char)
        BY <2>5 DEF j
      <3> DEFINE st == sep \o t
      <3>3. Escape(st, special) = es \o et /\ st \in Seq(Char)
        BY <3>1, <3>2
      <3> HIDE DEF st
      <3>4. \A x, y \in Seq(Char) :
              Escape(x \o y, special) = Escape(x, special) \o Escape(y, special)
        BY EscapeConcat
      <3>5. QED
        BY <2>4, <3>2, <3>3, <3>4 DEF j, st
    <2>8. CASE uu = <<>>
      <3>1. Append(uu, t) = <<t>> /\ Append(ee, et) = <<et>>
        BY <2>3, <2>8
      <3>2. Joined(<<t>>, sep) = t /\ Joined(<<et>>, es) = et
        BY <2>1, JoinedFirst
      <3>3. QED
        BY <2>2, <2>5, <3>1, <3>2 DEF es, et
    <2>9. CASE uu # <<>>
      <3>1. Joined(Append(uu, t), sep) = j \o (sep \o t)
        BY <2>6, <2>9 DEF j
      <3>2. Joined(Append(ee, et), es) = Joined(ee, es) \o (es \o et)
        BY <1>1, <2>1, <2>3, <2>6, <2>9
      <3>3. QED
        BY <2>2, <2>5, <2>7, <3>1, <3>2 DEF es
    <2>10. QED
      BY <2>8, <2>9
  <1> HIDE DEF T, es
  <1>4. Seq(Seq(Char)) \subseteq T
    BY <1>2, <1>3, SeqInduct
  <1>5. QED
    BY <1>4 DEF T

-----------------------------------------------------------------------------
(* The lines of an escaped text.                                            *)

EscapedLine == [l \in Line |-> Escape(l, Reserved)]

(* An escaped line is a line, and empty only if the line was.                *)
LEMMA EscapedLineIs ==
    /\ "\\" \in Letter /\ NewLine \notin Reserved /\ NewLine \in Char
    /\ \A l \in Line : /\ EscapedLine[l] = Escape(l, Reserved)
                       /\ EscapedLine[l] \in Line
                       /\ (EscapedLine[l] = <<>> <=> l = <<>>)
    /\ EscapedLine \in Spread(Line, Letter)
  <1>1. "\\" \in Letter /\ NewLine \notin Reserved /\ NewLine \in Char
    BY CharIs DEF Letter, Reserved, NewLine, Blank
  <1> DEFINE T == {l \in Line : /\ Escape(l, Reserved) \in Line
                                /\ (Escape(l, Reserved) = <<>> <=> l = <<>>)}
  <1>2. <<>> \in T
    BY EscapeEmpty, EmptySeq DEF Line
  <1>3. ASSUME NEW l \in Line, NEW c \in Letter, l \in T PROVE Append(l, c) \in T
    <2> DEFINE e == Escape(l, Reserved)
               w == EscapeOf(Reserved)[c]
    <2>1. l \in Seq(Char) /\ c \in Char
      BY LinesAreTexts, LettersAreChars
    <2>2. Escape(Append(l, c), Reserved) = e \o w
          /\ w = IF c \in Reserved THEN <<"\\", c>> ELSE <<c>>
      BY <2>1, EscapeAppend
    <2>3. w \in Seq(Letter) /\ Len(w) >= 1
      <3>1. <<"\\", c>> \in Seq(Letter) /\ <<c>> \in Seq(Letter)
            /\ Len(<<"\\", c>>) = 2 /\ Len(<<c>>) = 1
        BY <1>1
      <3>2. QED
        BY <2>2, <3>1
    <2>4. e \in Seq(Letter)
      BY <1>3 DEF Line
    <2> HIDE DEF e, w
    <2>5. e \o w \in Seq(Letter) /\ Len(e \o w) = Len(e) + Len(w) /\ Len(e) \in Nat /\ Len(w) \in Nat
      BY <2>3, <2>4, ConcatProperties, LenProperties
    <2>6. e \o w # <<>>
      <3>1. Len(e \o w) # 0
        BY <2>3, <2>5
      <3> DEFINE v == e \o w
      <3> HIDE DEF v
      <3>2. Len(v) # 0 => v # <<>>
        OBVIOUS
      <3>3. QED
        BY <3>1, <3>2 DEF v
    <2>7. Append(l, c) \in Line /\ Append(l, c) # <<>>
      BY AppendProperties DEF Line
    <2>8. QED
      BY <2>2, <2>5, <2>6, <2>7 DEF Line
  <1> HIDE DEF T
  <1>4. Seq(Letter) \subseteq T
    BY <1>2, <1>3, SeqInduct DEF Line
  <1>5. \A l \in Line : Escape(l, Reserved) \in Line /\ (Escape(l, Reserved) = <<>> <=> l = <<>>)
    BY <1>4 DEF T, Line
  <1>6. QED
    BY <1>1, <1>5 DEF EscapedLine, Spread, Line

(* What holds no line feed only makes the last line longer.                 *)
LEMMA TookMore ==
    ASSUME NEW s \in Seq(Char), NEW t \in Line
    PROVE  Took(s \o t) = [done |-> Took(s).done, line |-> Took(s).line \o t]
  <1> DEFINE d == Took(s).done
             l == Took(s).line
             T == {u \in Seq(Letter) : Took(s \o u) = [done |-> d, line |-> l \o u]}
  <1>1. l \in Seq(Letter) /\ t \in Seq(Letter) /\ Took(s) = [done |-> d, line |-> l]
    BY TookType DEF Line
  <1> HIDE DEF d, l
  <1>2. <<>> \in T
    BY <1>1, EmptySeq, ConcatEmptySeq
  <1>3. ASSUME NEW u \in Seq(Letter), NEW c \in Letter, u \in T PROVE Append(u, c) \in T
    <2>1. u \in Seq(Char) /\ c \in Char /\ c # NewLine
      BY LinesAreTexts, LettersAreChars DEF Line, Letter
    <2>2. s \o u \in Seq(Char) /\ Append(u, c) \in Seq(Letter)
      BY <2>1, ConcatProperties, AppendProperties
    <2>3. s \o Append(u, c) = Append(s \o u, c)
      BY <2>1, ConcatThenAppend
    <2>4. l \o Append(u, c) = Append(l \o u, c)
      <3>1. \A x, y \in Seq(Letter) : \A e \in Letter : x \o Append(y, e) = Append(x \o y, e)
        BY ConcatThenAppend
      <3>2. QED
        BY <1>1, <3>1
    <2> DEFINE m == l \o u
    <2>5. Took(s \o u) = [done |-> d, line |-> m]
      BY <1>3
    <2> HIDE DEF m
    <2>6. TakeChar([done |-> d, line |-> m], c) = [done |-> d, line |-> Append(m, c)]
      BY <2>1, TakenChar
    <2>7. Took(Append(s \o u, c)) = TakeChar(Took(s \o u), c)
      BY <2>1, <2>2, TookAppend
    <2>8. Took(s \o Append(u, c)) = [done |-> d, line |-> l \o Append(u, c)]
      BY <2>3, <2>4, <2>5, <2>6, <2>7 DEF m
    <2>9. QED
      BY <2>2, <2>8
  <1> HIDE DEF T
  <1>4. Seq(Letter) \subseteq T
    BY <1>2, <1>3, SeqInduct
  <1>5. QED
    BY <1>1, <1>4 DEF T, d, l

(* Escaping a text and taking it apart into lines commute.                   *)
LEMMA TookEscaped ==
    ASSUME NEW s \in Seq(Char)
    PROVE  Took(Escape(s, Reserved)) =
             [done |-> EachOf(EscapedLine, Took(s).done), line |-> EscapedLine[Took(s).line]]
  <1> DEFINE T == {u \in Seq(Char) :
                     Took(Escape(u, Reserved)) =
                       [done |-> EachOf(EscapedLine, Took(u).done),
                        line |-> EscapedLine[Took(u).line]]}
  <1>1. <<>> \in Line /\ EscapedLine[<<>>] = <<>>
    BY EscapedLineIs, EmptySeq DEF Line
  <1>2. <<>> \in T
    <2>1. Took(<<>>) = [done |-> <<>>, line |-> <<>>]
      BY TookEmpty DEF Untaken
    <2>2. Took(<<>>).done = <<>> /\ Took(<<>>).line = <<>>
      BY <2>1
    <2>3. QED
      BY <1>1, <2>1, <2>2, EscapeEmpty, EachEmpty, EmptySeq
  <1>3. ASSUME NEW u \in Seq(Char), NEW c \in Char, u \in T PROVE Append(u, c) \in T
    <2>1. PICK d \in Seq(Line), l \in Line : Took(u) = [done |-> d, line |-> l]
      BY TookType
    <2> DEFINE e == Escape(u, Reserved)
               ed == EachOf(EscapedLine, d)
               el == EscapedLine[l]
               w == EscapeOf(Reserved)[c]
    <2>2. /\ e \in Seq(Char) /\ el \in Line /\ ed \in Seq(Line)
          /\ Append(u, c) \in Seq(Char)
      BY <2>1, EscapeIs, EscapedLineIs, EachType, AppendProperties DEF Line
    <2>3. Took(e) = [done |-> ed, line |-> el]
      BY <1>3, <2>1
    <2>4. Escape(Append(u, c), Reserved) = e \o w
          /\ w = IF c \in Reserved THEN <<"\\", c>> ELSE <<c>>
      BY EscapeAppend
    <2>5. Took(Append(u, c)) = TakeChar([done |-> d, line |-> l], c)
      BY <2>1, TookAppend
    <2>6. el = Escape(l, Reserved) /\ l \in Seq(Char)
      BY <2>1, EscapedLineIs, LinesAreTexts
    <2>7. CASE c = NewLine
      <3>1. w = <<c>>
        BY <2>4, <2>7, EscapedLineIs
      <3> HIDE DEF e
      <3>2. e \o w = Append(e, c)
        BY <2>2, <3>1, AppendIsConcat
      <3> HIDE DEF ed, el, w
      <3>3. Took(Append(e, c)) = TakeChar([done |-> ed, line |-> el], c)
        BY <2>2, <2>3, TookAppend
      <3>4. Took(Append(e, c)) = [done |-> Append(ed, el), line |-> <<>>]
        BY <2>7, <3>3, TakenChar
      <3>5. Took(Append(u, c)) = [done |-> Append(d, l), line |-> <<>>]
        BY <2>5, <2>7, TakenChar
      <3>6. EachOf(EscapedLine, Append(d, l)) = Append(ed, el)
        BY <2>1, EachAppend DEF ed, el
      <3>7. Took(Append(u, c)).done = Append(d, l) /\ Took(Append(u, c)).line = <<>>
        BY <3>5
      <3>8. Took(Escape(Append(u, c), Reserved)) = [done |-> Append(ed, el), line |-> <<>>]
        BY <2>4, <3>2, <3>4
      <3>9. QED
        BY <1>1, <2>2, <3>6, <3>7, <3>8
    <2>8. CASE c # NewLine
      <3>1. Took(Append(u, c)) = [done |-> d, line |-> Append(l, c)]
        <4>1. TakeChar([done |-> d, line |-> l], c) = [done |-> d, line |-> Append(l, c)]
          BY <2>8, TakenChar
        <4>2. QED
          BY <2>5, <4>1
      <3>2. Took(Append(u, c)).done = d /\ Took(Append(u, c)).line = Append(l, c)
        BY <3>1
      <3>3. Append(l, c) \in Line /\ EscapedLine[Append(l, c)] = el \o w
        <4>1. Append(l, c) \in Line
          BY <2>1, <2>8, AppendProperties DEF Line, Letter
        <4>2. Escape(Append(l, c), Reserved) = Escape(l, Reserved) \o w
          BY <2>6, EscapeAppend
        <4>3. QED
          BY <2>6, <4>1, <4>2, EscapedLineIs
      <3>4. w \in Line
        <4>1. c \in Letter /\ "\\" \in Letter
          BY <2>8, EscapedLineIs DEF Letter
        <4>2. <<"\\", c>> \in Seq(Letter) /\ <<c>> \in Seq(Letter)
          BY <4>1
        <4>3. QED
          BY <2>4, <4>2 DEF Line
      <3> HIDE DEF e, ed, el, w
      <3>5. Took(e \o w) = [done |-> ed, line |-> el \o w]
        <4>1. Took(e \o w) = [done |-> Took(e).done, line |-> Took(e).line \o w]
          BY <2>2, <3>4, TookMore
        <4>2. Took(e).done = ed /\ Took(e).line = el
          BY <2>3
        <4>3. QED
          BY <4>1, <4>2
      <3>6. QED
        BY <2>2, <2>4, <3>2, <3>3, <3>5 DEF ed
    <2>9. QED
      BY <2>7, <2>8
  <1> HIDE DEF T
  <1>4. Seq(Char) \subseteq T
    BY <1>2, <1>3, SeqInduct
  <1>5. QED
    BY <1>4 DEF T

-----------------------------------------------------------------------------
(* A text as the reader sees it.                                            *)

PlainOf == [c \in Char |-> Plain(c)]

(* A text's items are as many as its characters.                             *)
LEMMA PlainlyIs ==
    ASSUME NEW s \in Seq(Char)
    PROVE  /\ Plainly(s) = EachOf(PlainOf, s)
           /\ Plainly(s) \in Seq(Item) /\ Len(Plainly(s)) = Len(s)
  <1>1. \A i \in DOMAIN s : s[i] \in Char
    BY ElementOfSeq
  <1>2. Plainly(s) = EachOf(PlainOf, s)
    BY <1>1 DEF Plainly, EachOf, PlainOf
  <1>3. \A i \in 1..Len(s) : Plain(s[i]) \in Item
    BY <1>1, ItemsAre, LenProperties
  <1>4. Plainly(s) \in [1..Len(s) -> Item] /\ Len(s) \in Nat
    <2>1. DOMAIN s = 1..Len(s) /\ Len(s) \in Nat
      BY LenProperties
    <2>2. QED
      BY <1>3, <2>1 DEF Plainly
  <1>5. QED
    BY <1>2, <1>4, FunctionIsSeq

LEMMA PlainlyEmpty == Plainly(<<>>) = <<>>
  BY DEF Plainly

LEMMA PlainlyAppend ==
    ASSUME NEW s \in Seq(Char), NEW c \in Char
    PROVE  Plainly(Append(s, c)) = Append(Plainly(s), Plain(c))
  <1>1. Append(s, c) \in Seq(Char)
    BY AppendProperties
  <1>2. EachOf(PlainOf, Append(s, c)) = Append(EachOf(PlainOf, s), PlainOf[c])
    BY EachAppend
  <1>3. PlainOf[c] = Plain(c)
    BY DEF PlainOf
  <1>4. QED
    BY <1>1, <1>2, <1>3, PlainlyIs

(* Its items after those that were read before.                             *)
LEMMA PlainlyAfter ==
    ASSUME NEW items \in Seq(Item), NEW s \in Seq(Char), NEW c \in Char
    PROVE  items \o Plainly(Append(s, c)) = Append(items \o Plainly(s), Plain(c))
  <1>1. Plainly(s) \in Seq(Item) /\ Plain(c) \in Item
    BY PlainlyIs, ItemsAre
  <1>2. \A x, y \in Seq(Item) : \A e \in Item : x \o Append(y, e) = Append(x \o y, e)
    BY ConcatThenAppend
  <1>3. QED
    BY <1>1, <1>2, PlainlyAppend

(* An escaped text is read as its characters, whatever came before it.       *)
LEMMA EscapedTextIsRead ==
    ASSUME NEW r, NEW items, NEW label, NEW url, Is(r, "text", items, label, url),
           NEW t \in Seq(Char)
    PROVE  Is(Reading(r, Escape(t, Reserved)), "text", items \o Plainly(t), label, url)
  <1> DEFINE T == {u \in Seq(Char) :
                     Is(Reading(r, Escape(u, Reserved)), "text", items \o Plainly(u), label, url)}
  <1>1. r \in Acc /\ items \in Seq(Item)
    BY DEF Is, Acc
  <1>2. <<>> \in T
    <2>1. items \o <<>> = items
      BY <1>1, ConcatEmptySeq
    <2>2. QED
      BY <2>1, EmptySeq, EscapeEmpty, ReadingEmpty, PlainlyEmpty
  <1>3. ASSUME NEW u \in Seq(Char), NEW c \in Char, u \in T PROVE Append(u, c) \in T
    <2> DEFINE e == Escape(u, Reserved)
               w == EscapeOf(Reserved)[c]
               q == Reading(r, e)
    <2>1. /\ Escape(Append(u, c), Reserved) = e \o w /\ w \in Seq(Char)
          /\ w = IF c \in Reserved THEN <<"\\", c>> ELSE <<c>>
      BY EscapeAppend
    <2>2. e \in Seq(Char) /\ Append(u, c) \in Seq(Char)
      BY EscapeIs, AppendProperties
    <2>3. Is(q, "text", items \o Plainly(u), label, url)
      BY <1>3
    <2> HIDE DEF w, e
    <2>4. Reading(r, e \o w) = Reading(q, w)
      BY <2>1, <2>2, ReadingConcat
    <2> HIDE DEF q
    <2>5. Is(Reading(q, w), "text", Append(items \o Plainly(u), Plain(c)), label, url)
      BY <2>1, <2>3, CharIsRead
    <2>6. QED
      BY <1>1, <2>1, <2>2, <2>4, <2>5, PlainlyAfter
  <1> HIDE DEF T
  <1>4. Seq(Char) \subseteq T
    BY <1>2, <1>3, SeqInduct
  <1>5. QED
    BY <1>4 DEF T

(* In brackets it is read into the label of the link.                        *)
LEMMA EscapedLabelIsRead ==
    ASSUME NEW r, NEW items, NEW label, NEW url, Is(r, "label", items, label, url),
           NEW t \in Seq(Char)
    PROVE  Is(Reading(r, Escape(t, Reserved)), "label", items, label \o t, url)
  <1> DEFINE T == {u \in Seq(Char) :
                     Is(Reading(r, Escape(u, Reserved)), "label", items, label \o u, url)}
  <1>1. r \in Acc /\ label \in Seq(Char)
    BY DEF Is, Acc
  <1>2. <<>> \in T
    <2>1. label \o <<>> = label
      BY <1>1, ConcatEmptySeq
    <2>2. QED
      BY <2>1, EmptySeq, EscapeEmpty, ReadingEmpty
  <1>3. ASSUME NEW u \in Seq(Char), NEW c \in Char, u \in T PROVE Append(u, c) \in T
    <2> DEFINE e == Escape(u, Reserved)
               w == EscapeOf(Reserved)[c]
               q == Reading(r, e)
    <2>1. /\ Escape(Append(u, c), Reserved) = e \o w /\ w \in Seq(Char)
          /\ w = IF c \in Reserved THEN <<"\\", c>> ELSE <<c>>
      BY EscapeAppend
    <2>2. e \in Seq(Char) /\ Append(u, c) \in Seq(Char)
      BY EscapeIs, AppendProperties
    <2>3. Is(q, "label", items, label \o u, url)
      BY <1>3
    <2> HIDE DEF w, e
    <2>4. Reading(r, e \o w) = Reading(q, w)
      BY <2>1, <2>2, ReadingConcat
    <2> HIDE DEF q
    <2>5. Is(Reading(q, w), "label", items, Append(label \o u, c), url)
      BY <2>1, <2>3, CharIsRead
    <2>6. label \o Append(u, c) = Append(label \o u, c)
      BY <1>1, ConcatThenAppend
    <2>7. QED
      BY <2>1, <2>2, <2>4, <2>5, <2>6
  <1> HIDE DEF T
  <1>4. Seq(Char) \subseteq T
    BY <1>2, <1>3, SeqInduct
  <1>5. QED
    BY <1>4 DEF T

(* And a url, escaped as urls are, into the url of the link.                 *)
LEMMA EscapedUrlIsRead ==
    ASSUME NEW r, NEW items, NEW label, NEW url, Is(r, "url", items, label, url),
           NEW t \in Seq(Char)
    PROVE  Is(Reading(r, Escape(t, {")", "\\"})), "url", items, label, url \o t)
  <1> DEFINE special == {")", "\\"}
             T == {u \in Seq(Char) :
                     Is(Reading(r, Escape(u, special)), "url", items, label, url \o u)}
  <1>1. r \in Acc /\ url \in Seq(Char)
    BY DEF Is, Acc
  <1>2. <<>> \in T
    <2>1. url \o <<>> = url
      BY <1>1, ConcatEmptySeq
    <2>2. QED
      BY <2>1, EmptySeq, EscapeEmpty, ReadingEmpty
  <1>3. ASSUME NEW u \in Seq(Char), NEW c \in Char, u \in T PROVE Append(u, c) \in T
    <2> DEFINE e == Escape(u, special)
               w == EscapeOf(special)[c]
               q == Reading(r, e)
    <2>1. /\ Escape(Append(u, c), special) = e \o w /\ w \in Seq(Char)
          /\ w = IF c \in special THEN <<"\\", c>> ELSE <<c>>
      BY EscapeAppend
    <2>2. e \in Seq(Char) /\ Append(u, c) \in Seq(Char)
      BY EscapeIs, AppendProperties
    <2>3. Is(q, "url", items, label, url \o u)
      BY <1>3
    <2> HIDE DEF w, e
    <2>4. Reading(r, e \o w) = Reading(q, w)
      BY <2>1, <2>2, ReadingConcat
    <2> HIDE DEF q
    <2>5. Is(Reading(q, w), "url", items, label, Append(url \o u, c))
      BY <2>1, <2>3, UrlCharIsRead
    <2>6. url \o Append(u, c) = Append(url \o u, c)
      BY <1>1, ConcatThenAppend
    <2>7. QED
      BY <2>1, <2>2, <2>4, <2>5, <2>6
  <1> HIDE DEF T
  <1>4. Seq(Char) \subseteq T
    BY <1>2, <1>3, SeqInduct
  <1>5. QED
    BY <1>4 DEF T

-----------------------------------------------------------------------------
(* Pieces of markup that read one after the other.                          *)

Anywhere == Seq(Item)
LineStart == {items \in Seq(Item) : AtLineStart(items)}

(* After any of the items of P, the markup shows what was meant.            *)
Reads(P, markup, meant) ==
    /\ markup \in Seq(Char) /\ meant \in Seq(Item)
    /\ \A r : \A prior \in P :
         Is(r, "text", prior, <<>>, <<>>) =>
            Is(Reading(r, markup), "text", prior \o meant, <<>>, <<>>)

(* Two pieces of markup show what each of them shows, one after the other,   *)
(* if the first one leaves what the second one needs.                        *)
LEMMA ReadsThen ==
    ASSUME NEW P \in SUBSET Anywhere, NEW Q, NEW a, NEW x, NEW b, NEW y,
           Reads(P, a, x), Reads(Q, b, y), \A p \in P : p \o x \in Q
    PROVE  Reads(P, a \o b, x \o y)
  <1>1. a \in Seq(Char) /\ b \in Seq(Char) /\ x \in Seq(Item) /\ y \in Seq(Item)
    BY DEF Reads
  <1>2. a \o b \in Seq(Char)
    BY <1>1, ConcatProperties
  <1>3. x \o y \in Seq(Item)
    BY <1>1, ConcatProperties
  <1>4. ASSUME NEW r, NEW prior \in P, Is(r, "text", prior, <<>>, <<>>)
        PROVE  Is(Reading(r, a \o b), "text", prior \o (x \o y), <<>>, <<>>)
    <2>1. Is(Reading(r, a), "text", prior \o x, <<>>, <<>>)
      BY <1>4 DEF Reads
    <2>2. Is(Reading(Reading(r, a), b), "text", (prior \o x) \o y, <<>>, <<>>)
      BY <2>1 DEF Reads
    <2>3. (prior \o x) \o y = prior \o (x \o y)
      BY <1>1, ConcatAssociative DEF Anywhere
    <2>4. QED
      BY <1>1, <2>2, <2>3, ReadingConcat
  <1>5. QED
    BY <1>2, <1>3, <1>4 DEF Reads

(* A piece that may stand anywhere follows any other.                        *)
LEMMA ReadsNext ==
    ASSUME NEW P \in SUBSET Anywhere, NEW a, NEW x, NEW b, NEW y,
           Reads(P, a, x), Reads(Anywhere, b, y)
    PROVE  Reads(P, a \o b, x \o y)
  <1>1. \A p \in P : p \o x \in Anywhere
    BY ConcatProperties DEF Anywhere, Reads
  <1>2. QED
    BY <1>1, ReadsThen

(* An escaped text may stand anywhere and shows the text.                    *)
LEMMA TextReads ==
    ASSUME NEW t \in Seq(Char)
    PROVE  Reads(Anywhere, Escape(t, Reserved), Plainly(t))
  BY EscapedTextIsRead, EscapeIs, PlainlyIs DEF Reads

LEMMA EscapedChar ==
    ASSUME NEW c \in Char
    PROVE  /\ <<c>> \in Seq(Char)
           /\ Escape(<<c>>, Reserved) = IF c \in Reserved THEN <<"\\", c>> ELSE <<c>>
  <1> DEFINE none == <<>>
             w == EscapeOf(Reserved)[c]
  <1>1. none \in Seq(Char) /\ Append(none, c) = <<c>> /\ Escape(none, Reserved) = <<>>
    BY EmptySeq, EscapeEmpty
  <1> HIDE DEF none
  <1>2. /\ w \in Seq(Char) /\ w = IF c \in Reserved THEN <<"\\", c>> ELSE <<c>>
        /\ Escape(Append(none, c), Reserved) = Escape(none, Reserved) \o w
    BY <1>1, EscapeAppend
  <1> HIDE DEF w
  <1>3. <<>> \o w = w
    BY <1>2, ConcatEmptySeq
  <1>4. <<c>> \in Seq(Char)
    OBVIOUS
  <1>5. QED
    BY <1>1, <1>2, <1>3, <1>4

Break == Plainly(<<NewLine>>)

(* A line feed may stand anywhere, and a line starts after it.               *)
LEMMA BreakReads ==
    /\ Reads(Anywhere, <<NewLine>>, Break)
    /\ \A p \in Anywhere : p \o Break \in LineStart
  <1> DEFINE nl == <<NewLine>>
             n == Plain(NewLine)
  <1>1. NewLine \in Char /\ NewLine \notin Reserved
    BY EscapedLineIs
  <1>2. nl \in Seq(Char) /\ Escape(nl, Reserved) = nl
    BY <1>1, EscapedChar
  <1>3. Break = <<n>> /\ n \in Item
    <2>1. Break = <<n>>
      BY DEF Break, Plainly
    <2>2. QED
      BY <1>1, <2>1, ItemsAre
  <1>4. Reads(Anywhere, nl, Break)
    <2> HIDE DEF nl, n
    <2>1. QED
      BY <1>2, TextReads DEF Break, nl
  <1>5. ASSUME NEW p \in Anywhere PROVE p \o Break \in LineStart
    <2> HIDE DEF n
    <2>1. p \in Seq(Item)
      BY DEF Anywhere
    <2>2. p \o Break = Append(p, n)
      BY <1>3, <2>1, AppendIsConcat
    <2>3. Append(p, n) \in Seq(Item) /\ Len(Append(p, n)) = Len(p) + 1
          /\ Append(p, n)[Len(p) + 1] = n
      BY <1>3, <2>1, AppendProperties
    <2>4. Last(Append(p, n)) = n
      BY <2>3 DEF Last
    <2>5. QED
      BY <2>2, <2>3, <2>4 DEF LineStart, AtLineStart, n
  <1>6. QED
    BY <1>4, <1>5

-----------------------------------------------------------------------------
(* A quoted line, and a link.                                               *)

(* A quote mark at the start of a line is a quote.                           *)
LEMMA QuoteReads == Reads(LineStart, <<">">>, <<Quote>>)
  <1> DEFINE quote == Quote
  <1>1. ">" \in Char /\ ">" \in Reserved /\ quote \in Item
    BY CharIs, ItemsAre DEF Reserved
  <1>2. <<">">> \in Seq(Char) /\ <<quote>> \in Seq(Item)
    BY <1>1
  <1>3. ASSUME NEW r, NEW prior \in LineStart, Is(r, "text", prior, <<>>, <<>>)
        PROVE  Is(Reading(r, <<">">>), "text", prior \o <<quote>>, <<>>, <<>>)
    <2> DEFINE more == Append(prior, quote)
    <2>1. r \in Acc /\ r.ok /\ ~r.esc /\ r.mode = "text" /\ r.items = prior
          /\ r.label = <<>> /\ r.url = <<>>
      BY <1>3 DEF Is
    <2>2. AtLineStart(prior) /\ prior \in Seq(Item)
      BY DEF LineStart
    <2>3. Reading(r, <<">">>) = ReadChar(r, ">")
      BY <1>1, <2>1, ReadingOne
    <2>4. ReadChar(r, ">") = Markup(r, ">")
      BY <1>1, <2>1 DEF ReadChar
    <2>5. Markup(r, ">") = [r EXCEPT !.items = more]
      BY <2>1, <2>2 DEF Markup
    <2>6. more \in Seq(Item) /\ more = prior \o <<quote>>
      <3> HIDE DEF quote
      <3>1. QED
        BY <1>1, <2>2, AppendProperties, AppendIsConcat
    <2> DEFINE s == [r EXCEPT !.items = more]
    <2> HIDE DEF more, quote
    <2>7. s \in Acc /\ s.items = more /\ s.ok = r.ok /\ s.esc = r.esc /\ s.mode = r.mode
          /\ s.label = r.label /\ s.url = r.url
      BY <2>1, <2>6 DEF Acc
    <2>8. Reading(r, <<">">>) = s
      BY <2>3, <2>4, <2>5
    <2> HIDE DEF s
    <2>9. QED
      BY <2>1, <2>6, <2>7, <2>8 DEF Is
  <1>4. QED
    BY <1>2, <1>3 DEF Reads

(* A mark that only changes what is being read.                             *)
LEMMA MarkRead ==
    ASSUME NEW r, NEW mode, NEW items, NEW label, NEW url, Is(r, mode, items, label, url),
           NEW c \in Char, NEW next \in Modes,
           \/ mode = "text" /\ c = "[" /\ next = "label"
           \/ mode = "label" /\ c = "]" /\ next = "bracket"
           \/ mode = "bracket" /\ c = "(" /\ next = "url"
    PROVE  Is(ReadChar(r, c), next, items, label, url)
  <1>1. r \in Acc /\ r.ok /\ ~r.esc /\ r.mode = mode /\ r.items = items
        /\ r.label = label /\ r.url = url
    BY DEF Is
  <1>2. c \in Reserved /\ c # "\\" /\ mode # "url"
    BY DEF Reserved
  <1>3. ReadChar(r, c) = Markup(r, c)
    BY <1>1, <1>2 DEF ReadChar
  <1> DEFINE s == [r EXCEPT !.mode = next]
  <1>4. Markup(r, c) = s
    <2>1. CASE mode = "text" /\ c = "[" /\ next = "label"
      BY <1>1, <2>1 DEF Markup
    <2>2. CASE mode = "label" /\ c = "]" /\ next = "bracket"
      BY <1>1, <2>2 DEF Markup
    <2>3. CASE mode = "bracket" /\ c = "(" /\ next = "url"
      BY <1>1, <2>3 DEF Markup
    <2>4. QED
      BY <2>1, <2>2, <2>3
  <1>5. s \in Acc /\ s.mode = next /\ s.items = r.items /\ s.ok = r.ok /\ s.esc = r.esc
        /\ s.label = r.label /\ s.url = r.url
    BY <1>1 DEF Acc
  <1> HIDE DEF s
  <1>6. QED
    BY <1>1, <1>3, <1>4, <1>5 DEF Is

(* The bracket after the url ends the link.                                  *)
LEMMA LinkEnds ==
    ASSUME NEW r, NEW items, NEW label, NEW url, Is(r, "url", items, label, url)
    PROVE  Is(ReadChar(r, ")"), "text", Append(items, Link(label, url)), <<>>, <<>>)
  <1> DEFINE link == Link(label, url)
             more == Append(items, link)
             none == <<>>
  <1>1. r \in Acc /\ r.ok /\ ~r.esc /\ r.mode = "url" /\ r.items = items
        /\ r.label = label /\ r.url = url
    BY DEF Is
  <1>2. items \in Seq(Item) /\ label \in Seq(Char) /\ url \in Seq(Char) /\ none \in Seq(Char)
    BY <1>1, EmptySeq DEF Acc
  <1>3. link \in Item
    BY <1>2, ItemsAre
  <1>4. more \in Seq(Item)
    <2> HIDE DEF link
    <2>1. QED
      BY <1>2, <1>3, AppendProperties
  <1>5. ReadChar(r, ")") = Markup(r, ")")
    BY <1>1 DEF ReadChar, Reserved
  <1> DEFINE s == [r EXCEPT !.mode = "text", !.label = none, !.url = none, !.items = more]
  <1>6. Markup(r, ")") = s
    BY <1>1 DEF Markup
  <1> HIDE DEF more, none, link
  <1>7. s \in Acc /\ s.mode = "text" /\ s.items = more /\ s.ok = r.ok /\ s.esc = r.esc
        /\ s.label = none /\ s.url = none
    BY <1>1, <1>2, <1>4 DEF Acc, Modes
  <1> HIDE DEF s
  <1>8. Is(ReadChar(r, ")"), "text", more, none, none)
    BY <1>1, <1>5, <1>6, <1>7 DEF Is
  <1>9. QED
    BY <1>8 DEF more, none, link

(* A link may stand anywhere, and is one item with its label and its url.    *)
LEMMA LinkReads ==
    ASSUME NEW label \in Seq(Char), NEW url \in Seq(Char)
    PROVE  Reads(Anywhere,
                 <<"[">> \o Escape(label, Reserved) \o <<"]", "(">>
                   \o Escape(url, {")", "\\"}) \o <<")">>,
                 <<Link(label, url)>>)
  <1> DEFINE open == <<"[">>
             middle == <<"]", "(">>
             close == <<")">>
             el == Escape(label, Reserved)
             eu == Escape(url, {")", "\\"})
             link == Link(label, url)
  <1>1. "[" \in Char /\ "]" \in Char /\ "(" \in Char /\ ")" \in Char
    BY CharIs DEF Reserved
  <1>2. open \in Seq(Char) /\ middle \in Seq(Char) /\ close \in Seq(Char)
        /\ el \in Seq(Char) /\ eu \in Seq(Char)
    BY <1>1, EscapeIs
  <1>3. link \in Item
    BY ItemsAre
  <1>4. <<link>> \in Seq(Item)
    BY <1>3
  <1>5. ASSUME NEW r, NEW prior \in Anywhere, Is(r, "text", prior, <<>>, <<>>)
        PROVE  Is(Reading(r, open \o el \o middle \o eu \o close), "text",
                  prior \o <<link>>, <<>>, <<>>)
    <2> DEFINE r1 == Reading(r, open)
               r2 == Reading(r1, el)
               r3 == Reading(r2, middle)
               r4 == Reading(r3, eu)
               r5 == Reading(r4, close)
    <2>1. Is(r1, "label", prior, <<>>, <<>>)
      <3>1. r1 = ReadChar(r, "[") /\ "label" \in Modes
        BY <1>1, <1>5, ReadingOne DEF Is, Modes
      <3>2. QED
        BY <1>1, <1>5, <3>1, MarkRead
    <2> HIDE DEF r1
    <2>2. Is(r2, "label", prior, label, <<>>)
      <3>1. <<>> \o label = label
        BY ConcatEmptySeq
      <3>2. QED
        BY <2>1, <3>1, EscapedLabelIsRead
    <2> HIDE DEF r2
    <2>3. Is(r3, "url", prior, label, <<>>)
      <3>1. r3 = ReadChar(ReadChar(r2, "]"), "(") /\ "bracket" \in Modes /\ "url" \in Modes
        BY <1>1, <2>2, ReadingTwo DEF Is, Modes
      <3>2. Is(ReadChar(r2, "]"), "bracket", prior, label, <<>>)
        BY <1>1, <2>2, <3>1, MarkRead
      <3>3. QED
        BY <1>1, <3>1, <3>2, MarkRead
    <2> HIDE DEF r3
    <2>4. Is(r4, "url", prior, label, url)
      <3>1. <<>> \o url = url
        BY ConcatEmptySeq
      <3>2. QED
        BY <2>3, <3>1, EscapedUrlIsRead
    <2> HIDE DEF r4
    <2>5. Is(r5, "text", Append(prior, link), <<>>, <<>>)
      <3>1. r5 = ReadChar(r4, ")")
        BY <1>1, <2>4, ReadingOne DEF Is
      <3>2. QED
        BY <2>4, <3>1, LinkEnds
    <2>6. prior \o <<link>> = Append(prior, link)
      <3> HIDE DEF link
      <3>1. QED
        BY <1>3, AppendIsConcat DEF Anywhere
    <2> HIDE DEF r5, open, middle, close, el, eu, link
    <2>7. \A x, y \in Seq(Char) : \A z : Reading(z, x \o y) = Reading(Reading(z, x), y)
      BY ReadingConcat
    <2>8. \A x, y \in Seq(Char) : x \o y \in Seq(Char)
      BY ConcatProperties
    <2>9. Reading(r, open \o el) = r2
      BY <1>2, <2>7 DEF r1, r2
    <2>10. Reading(r, open \o el \o middle) = r3
      BY <1>2, <2>7, <2>8, <2>9 DEF r3
    <2>11. Reading(r, open \o el \o middle \o eu) = r4
      BY <1>2, <2>7, <2>8, <2>10 DEF r4
    <2>12. Reading(r, open \o el \o middle \o eu \o close) = r5
      BY <1>2, <2>7, <2>8, <2>11 DEF r5
    <2>13. QED
      BY <2>5, <2>6, <2>12
  <1> HIDE DEF open, middle, close, el, eu, link
  <1>6. open \o el \o middle \o eu \o close \in Seq(Char)
    <2>1. \A x, y \in Seq(Char) : x \o y \in Seq(Char)
      BY ConcatProperties
    <2>2. QED
      BY <1>2, <2>1
  <1>7. Reads(Anywhere, open \o el \o middle \o eu \o close, <<link>>)
    BY <1>4, <1>5, <1>6 DEF Reads
  <1>8. QED
    BY <1>7 DEF open, middle, close, el, eu, link

-----------------------------------------------------------------------------
(* The quoted preview.                                                      *)

(* The lines of an escaped text are its lines, each escaped.                 *)
LEMMA EscapedLines ==
    ASSUME NEW s \in Seq(Char)
    PROVE  /\ Lines(s) \in Seq(Line)
           /\ Lines(Escape(s, Reserved)) = EachOf(EscapedLine, Lines(s))
  <1> DEFINE e == Escape(s, Reserved)
             d == Took(s).done
             l == Took(s).line
  <1>1. e \in Seq(Char) /\ d \in Seq(Line) /\ l \in Line
    BY EscapeIs, TookType
  <1>2. Took(e) = [done |-> EachOf(EscapedLine, d), line |-> EscapedLine[l]]
    BY TookEscaped
  <1>3. Lines(s) = IF l = <<>> THEN d ELSE Append(d, l)
    BY LinesIs
  <1> HIDE DEF e, d, l
  <1>4. Took(e).done = EachOf(EscapedLine, d) /\ Took(e).line = EscapedLine[l]
    BY <1>2
  <1>5. Lines(e) = IF EscapedLine[l] = <<>> THEN EachOf(EscapedLine, d)
                   ELSE Append(EachOf(EscapedLine, d), EscapedLine[l])
    BY <1>1, <1>4, LinesIs
  <1>6. EscapedLine[l] = <<>> <=> l = <<>>
    BY <1>1, EscapedLineIs
  <1>7. EachOf(EscapedLine, Append(d, l)) = Append(EachOf(EscapedLine, d), EscapedLine[l])
    BY <1>1, EachAppend
  <1>8. Lines(e) = EachOf(EscapedLine, Lines(s))
    BY <1>3, <1>5, <1>6, <1>7
  <1>9. QED
    BY <1>8, LinesIs DEF e

QuoteMark == [l \in Line |-> <<">">> \o Escape(l, Reserved)]
QuoteItems == [l \in Line |-> <<Quote>> \o Plainly(l)]

LEMMA QuoteTypes ==
    /\ QuoteMark \in Spread(Line, Char) /\ QuoteItems \in Spread(Line, Item)
    /\ <<NewLine>> \in Seq(Char) /\ Break \in Seq(Item)
    /\ \A l \in Line : Reads(LineStart, QuoteMark[l], QuoteItems[l])
  <1>1. <<NewLine>> \in Seq(Char) /\ Break \in Seq(Item)
    BY BreakReads DEF Reads
  <1>2. ASSUME NEW l \in Line
        PROVE  Reads(LineStart, QuoteMark[l], QuoteItems[l])
    <2>1. l \in Seq(Char)
      BY LinesAreTexts
    <2>2. LineStart \in SUBSET Anywhere
      BY DEF LineStart, Anywhere
    <2>3. Reads(LineStart, <<">">> \o Escape(l, Reserved), <<Quote>> \o Plainly(l))
      BY <2>1, <2>2, QuoteReads, TextReads, ReadsNext
    <2>4. QED
      BY <2>3 DEF QuoteMark, QuoteItems
  <1>3. \A l \in Line : QuoteMark[l] \in Seq(Char) /\ QuoteItems[l] \in Seq(Item)
    BY <1>2 DEF Reads
  <1>4. QED
    BY <1>1, <1>2, <1>3 DEF Spread, QuoteMark, QuoteItems

LEMMA EachNonEmpty ==
    ASSUME NEW X, NEW Y, NEW G \in Spread(X, Y), NEW s \in Seq(X), s # <<>>
    PROVE  EachOf(G, s) \in Seq(Seq(Y)) /\ EachOf(G, s) # <<>>
  <1> DEFINE e == EachOf(G, s)
  <1>1. e \in Seq(Seq(Y)) /\ Len(e) = Len(s)
    BY EachType
  <1>2. Len(s) # 0
    BY EmptySeq
  <1> HIDE DEF e
  <1>3. e # <<>>
    <2>1. Len(<<>>) = 0
      OBVIOUS
    <2>2. QED
      BY <1>1, <1>2, <2>1
  <1>4. QED
    BY <1>1, <1>3 DEF e

Quoting(ls) == Joined(EachOf(QuoteMark, ls), <<NewLine>>)
Quoted(ls) == Joined(EachOf(QuoteItems, ls), Break)

(* One quoted line more comes after one line feed more.                      *)
LEMMA QuotingMore ==
    ASSUME NEW ls \in Seq(Line), ls # <<>>, NEW l \in Line
    PROVE  /\ Quoting(Append(ls, l)) = Quoting(ls) \o (<<NewLine>> \o QuoteMark[l])
           /\ Quoted(Append(ls, l)) = Quoted(ls) \o (Break \o QuoteItems[l])
  <1> DEFINE nl == <<NewLine>>
             ms == EachOf(QuoteMark, ls)
             is == EachOf(QuoteItems, ls)
             m == QuoteMark[l]
             it == QuoteItems[l]
  <1>1. nl \in Seq(Char) /\ Break \in Seq(Item) /\ m \in Seq(Char) /\ it \in Seq(Item)
    BY QuoteTypes DEF Spread
  <1>2. ms \in Seq(Seq(Char)) /\ ms # <<>>
    BY QuoteTypes, EachNonEmpty
  <1>3. is \in Seq(Seq(Item)) /\ is # <<>>
    BY QuoteTypes, EachNonEmpty
  <1>4. EachOf(QuoteMark, Append(ls, l)) = Append(ms, m)
        /\ EachOf(QuoteItems, Append(ls, l)) = Append(is, it)
    BY EachAppend
  <1>5. \A sep, t \in Seq(Char) : \A tt \in Seq(Seq(Char)) :
          tt # <<>> => Joined(Append(tt, t), sep) = Joined(tt, sep) \o (sep \o t)
    BY JoinedAppend
  <1>6. \A sep, t \in Seq(Item) : \A tt \in Seq(Seq(Item)) :
          tt # <<>> => Joined(Append(tt, t), sep) = Joined(tt, sep) \o (sep \o t)
    BY JoinedAppend
  <1> HIDE DEF nl, ms, is, m, it
  <1>7. Joined(Append(ms, m), nl) = Joined(ms, nl) \o (nl \o m)
    BY <1>1, <1>2, <1>5
  <1>8. Joined(Append(is, it), Break) = Joined(is, Break) \o (Break \o it)
    BY <1>1, <1>3, <1>6
  <1>9. QED
    BY <1>4, <1>7, <1>8 DEF Quoting, Quoted, nl, ms, is, m, it

LEMMA QuotingOne ==
    ASSUME NEW l \in Line
    PROVE  /\ Quoting(Append(<<>>, l)) = QuoteMark[l]
           /\ Quoted(Append(<<>>, l)) = QuoteItems[l]
  <1> DEFINE none == <<>>
             m == QuoteMark[l]
             it == QuoteItems[l]
  <1>1. none \in Seq(Line)
    BY EmptySeq
  <1>2. EachOf(QuoteMark, none) = <<>> /\ EachOf(QuoteItems, none) = <<>>
    BY EachEmpty
  <1>3. m \in Seq(Char) /\ it \in Seq(Item)
    BY QuoteTypes DEF Spread
  <1> HIDE DEF none
  <1>4. EachOf(QuoteMark, Append(none, l)) = Append(EachOf(QuoteMark, none), m)
        /\ EachOf(QuoteItems, Append(none, l)) = Append(EachOf(QuoteItems, none), it)
    BY <1>1, EachAppend
  <1> HIDE DEF m, it
  <1>5. Append(<<>>, m) = <<m>> /\ Append(<<>>, it) = <<it>>
    OBVIOUS
  <1>6. Joined(<<m>>, <<NewLine>>) = m
    BY <1>3, JoinedFirst
  <1>7. Joined(<<it>>, Break) = it
    BY <1>3, JoinedFirst
  <1>8. QED
    BY <1>2, <1>4, <1>5, <1>6, <1>7 DEF Quoting, Quoted, none, m, it

(* Quoted lines that start at the start of a line read as quoted lines.      *)
LEMMA QuotedReads ==
    ASSUME NEW ls \in Seq(Line)
    PROVE  Reads(LineStart, Quoting(ls), Quoted(ls))
  <1> DEFINE T == {ks \in Seq(Line) : Reads(LineStart, Quoting(ks), Quoted(ks))}
  <1>1. LineStart \in SUBSET Anywhere
    BY DEF LineStart, Anywhere
  <1>2. <<>> \in T
    <2>1. Quoting(<<>>) = <<>> /\ Quoted(<<>>) = <<>>
      BY EachEmpty, JoinedEmpty DEF Quoting, Quoted
    <2>2. <<>> \in Seq(Char) /\ <<>> \in Seq(Item) /\ <<>> \in Seq(Line)
      BY EmptySeq
    <2>3. \A prior \in LineStart : prior \o <<>> = prior
      BY ConcatEmptySeq DEF LineStart
    <2>4. Reads(LineStart, <<>>, <<>>)
      BY <2>2, <2>3, ReadingEmpty DEF Reads
    <2>5. QED
      BY <2>1, <2>2, <2>4
  <1>3. ASSUME NEW ks \in Seq(Line), NEW l \in Line, ks \in T PROVE Append(ks, l) \in T
    <2>1. Append(ks, l) \in Seq(Line)
      BY AppendProperties
    <2>2. Reads(LineStart, QuoteMark[l], QuoteItems[l])
      BY QuoteTypes
    <2>3. CASE ks = <<>>
      BY <2>1, <2>2, <2>3, QuotingOne
    <2>4. CASE ks # <<>>
      <3>1. Reads(Anywhere, <<NewLine>> \o QuoteMark[l], Break \o QuoteItems[l])
        BY <2>2, BreakReads, ReadsThen
      <3>2. Reads(LineStart, Quoting(ks), Quoted(ks))
        BY <1>3
      <3>3. Reads(LineStart, Quoting(ks) \o (<<NewLine>> \o QuoteMark[l]),
                  Quoted(ks) \o (Break \o QuoteItems[l]))
        BY <1>1, <3>1, <3>2, ReadsNext
      <3>4. QED
        BY <2>1, <2>4, <3>3, QuotingMore
    <2>5. QED
      BY <2>3, <2>4
  <1> HIDE DEF T
  <1>4. Seq(Line) \subseteq T
    BY <1>2, <1>3, SeqInduct
  <1>5. QED
    BY <1>4 DEF T

(* So the preview, escaped and then quoted, shows each of its lines quoted.  *)
LEMMA BlockquoteReads ==
    ASSUME NEW s \in Seq(Char)
    PROVE  Reads(LineStart, blockquote(Escape(s, Reserved)),
                 Joined([i \in DOMAIN Lines(s) |-> <<Quote>> \o Plainly(Lines(s)[i])], Break))
  <1> DEFINE ls == Lines(s)
             es == Lines(Escape(s, Reserved))
  <1>1. ls \in Seq(Line) /\ es = EachOf(EscapedLine, ls)
    BY EscapedLines
  <1> HIDE DEF ls, es
  <1>2. \A i \in DOMAIN ls : ls[i] \in Line
    BY <1>1, ElementOfSeq
  <1>3. [i \in DOMAIN es |-> <<">">> \o es[i]] = EachOf(QuoteMark, ls)
    <2>1. DOMAIN es = DOMAIN ls /\ \A i \in DOMAIN ls : es[i] = EscapedLine[ls[i]]
      BY <1>1 DEF EachOf
    <2>2. \A i \in DOMAIN ls : QuoteMark[ls[i]] = <<">">> \o es[i]
      BY <1>2, <2>1 DEF QuoteMark, EscapedLine
    <2>3. QED
      BY <2>1, <2>2 DEF EachOf
  <1>4. [i \in DOMAIN ls |-> <<Quote>> \o Plainly(ls[i])] = EachOf(QuoteItems, ls)
    <2>1. \A i \in DOMAIN ls : QuoteItems[ls[i]] = <<Quote>> \o Plainly(ls[i])
      BY <1>2 DEF QuoteItems
    <2>2. QED
      BY <2>1 DEF EachOf
  <1>5. blockquote(Escape(s, Reserved)) = Quoting(ls)
    BY <1>3 DEF blockquote, Quoting, es
  <1>6. Joined([i \in DOMAIN ls |-> <<Quote>> \o Plainly(ls[i])], Break) = Quoted(ls)
    BY <1>4 DEF Quoted
  <1>7. Reads(LineStart, Quoting(ls), Quoted(ls))
    BY <1>1, QuotedReads
  <1>8. QED
    BY <1>5, <1>6, <1>7 DEF ls

-----------------------------------------------------------------------------
(* The fields' texts.                                                       *)

(* A non-empty part of a section has a least element.                        *)
LEMMA LeastInSection ==
    ASSUME NEW n \in Nat, NEW D \in SUBSET (1..n), D # {}
    PROVE  Min(D) \in D
  <1> DEFINE T == {k \in Nat : \A B \in SUBSET (1..k) :
                                  B # {} => \E x \in B : \A y \in B : x <= y}
  <1>1. 0 \in T
    <2>1. 1..0 = {}
      OBVIOUS
    <2>2. QED
      BY <2>1
  <1>2. ASSUME NEW k \in Nat, k \in T PROVE k + 1 \in T
    <2> SUFFICES ASSUME NEW B \in SUBSET (1..(k + 1)), B # {}
                 PROVE  \E x \in B : \A y \in B : x <= y
      OBVIOUS
    <2>1. B \ {k + 1} \in SUBSET (1..k)
      OBVIOUS
    <2>2. CASE B \ {k + 1} = {}
      <3>1. \A y \in B : y = k + 1
        BY <2>2
      <3>2. k + 1 \in B
        BY <3>1
      <3>3. \A y \in B : k + 1 <= y
        BY <3>1
      <3>4. QED
        BY <3>2, <3>3
    <2>3. CASE B \ {k + 1} # {}
      <3>1. PICK x \in B \ {k + 1} : \A y \in B \ {k + 1} : x <= y
        BY <1>2, <2>1, <2>3
      <3>2. x \in 1..k
        BY <2>1
      <3>3. QED
        BY <3>1, <3>2
    <2>4. QED
      BY <2>2, <2>3
  <1> HIDE DEF T
  <1>3. Nat \subseteq T
    BY <1>1, <1>2, NatInduct
  <1>4. PICK x \in D : \A y \in D : x <= y
    BY <1>3 DEF T
  <1>5. Min(D) = x
    BY <1>4, MinIs
  <1>6. QED
    BY <1>5

(* A text that is truncated is a text,                                       *)
LEMMA TruncateType ==
    ASSUME NEW s \in Seq(Char)
    PROVE  truncate(s, FieldLimit) \in Seq(Char)
  <1> DEFINE cut == SubSeq(s, 1, FieldLimit)
  <1>1. FieldLimit \in Nat /\ "..." \in Char
    BY TextsAssumption, CharIs
  <1>2. CASE Len(s) > FieldLimit
    <2>1. \A i \in 1..FieldLimit : s[i] \in Char
      <3>1. \A i \in 1..FieldLimit : i \in 1..Len(s)
        BY <1>1, <1>2, LenProperties
      <3>2. QED
        BY <3>1, ElementOfSeq
    <2>2. cut \in Seq(Char)
      BY <1>1, <2>1, SubSeqProperties
    <2> HIDE DEF cut
    <2>3. Append(cut, "...") \in Seq(Char)
      BY <1>1, <2>2, AppendProperties
    <2>4. QED
      BY <1>2, <2>3 DEF truncate, cut
  <1>3. CASE ~(Len(s) > FieldLimit)
    BY <1>3 DEF truncate
  <1>4. QED
    BY <1>2, <1>3

(* and so is one that is trimmed,                                            *)
LEMMA TrimmedType ==
    ASSUME NEW s \in Seq(Char)
    PROVE  Trimmed(s) \in Seq(Char)
  <1> DEFINE I == {i \in 1..Len(s) : s[i] \notin Blank}
             first == IF I # {} THEN Min(I) ELSE 0
             last == IF I # {} THEN Max(I) ELSE 0
  <1>1. Trimmed(s) = IF first = 0 THEN <<>> ELSE SubSeq(s, first, last)
    BY DEF Trimmed, SelectInSeq, SelectLastInSeq
  <1>2. CASE I = {}
    <2>1. Trimmed(s) = <<>>
      BY <1>1, <1>2
    <2>2. QED
      BY <2>1, EmptySeq
  <1>3. CASE I # {}
    <2>1. Len(s) \in Nat /\ I \in SUBSET (1..Len(s))
      BY LenProperties
    <2> HIDE DEF I
    <2>2. Min(I) \in 1..Len(s) /\ Max(I) \in 1..Len(s)
      BY <1>3, <2>1, LeastInSection, MaxInSection
    <2>3. first \in 1..Len(s) /\ last \in 1..Len(s)
      BY <1>3, <2>2
    <2>4. Trimmed(s) = SubSeq(s, first, last)
      BY <1>1, <2>3
    <2> HIDE DEF first, last
    <2>5. \A i \in first..last : s[i] \in Char
      <3>1. \A i \in first..last : i \in 1..Len(s)
        BY <2>1, <2>3
      <3>2. QED
        BY <3>1, ElementOfSeq
    <2>6. QED
      BY <2>3, <2>4, <2>5, SubSeqProperties
  <1>4. QED
    BY <1>2, <1>3

SolidOf == [c \in Char |-> IF c \in Blank THEN <<>> ELSE <<c>>]

(* one that loses its blanks,                                                *)
LEMMA MailtoType ==
    ASSUME NEW s \in Seq(Char)
    PROVE  mailto_url(s) \in Seq(Char)
  <1>1. \A i \in DOMAIN s : s[i] \in Char
    BY ElementOfSeq
  <1>2. EachOf(SolidOf, s) = [i \in DOMAIN s |-> IF s[i] \in Blank THEN <<>> ELSE <<s[i]>>]
    BY <1>1 DEF EachOf, SolidOf
  <1>3. SolidOf \in Spread(Char, Char)
    BY EmptySeq DEF Spread, SolidOf
  <1>4. FlatOf(SolidOf, s) \in Seq(Char)
    BY <1>3, FlatType
  <1>5. QED
    BY <1>2, <1>4 DEF mailto_url, FlatOf

LEMMA ShownType ==
    ASSUME NEW s \in Seq(Char)
    PROVE  Shown(s) \in Seq(Char)
  BY TrimmedType, TruncateType DEF Shown

(* and the name and address of a sender.                                     *)
LEMMA SenderType ==
    ASSUME NEW name \in Seq(Char), NEW address \in Seq(Char)
    PROVE  Sender(<<name>>, <<address>>) \in Seq(Char)
  <1> DEFINE shown == truncate(address, FieldLimit)
             named == truncate(name, FieldLimit)
             open == <<" ", "<">>
             close == <<">">>
  <1>1. " " \in Char /\ "<" \in Char /\ ">" \in Char
    BY CharIs DEF Blank, Reserved
  <1>2. open \in Seq(Char) /\ close \in Seq(Char)
    <2>1. \A c, d \in Char : <<c, d>> \in Seq(Char) /\ <<c>> \in Seq(Char)
      OBVIOUS
    <2>2. QED
      BY <1>1, <2>1
  <1>3. shown \in Seq(Char) /\ named \in Seq(Char)
    BY TruncateType
  <1>4. Sender(<<name>>, <<address>>) \in {shown, named \o open \o shown \o close}
    BY DEF Sender
  <1> HIDE DEF shown, named, open, close
  <1>5. \A x, y \in Seq(Char) : x \o y \in Seq(Char)
    BY ConcatProperties
  <1>6. named \o open \o shown \o close \in Seq(Char)
    BY <1>2, <1>3, <1>5
  <1>7. QED
    BY <1>3, <1>4, <1>6

-----------------------------------------------------------------------------
(* The fields.                                                              *)

Seen1(name, address) ==
    LET url == mailto_url(truncate(address, FieldLimit))
        sender == Sender(<<name>>, <<address>>)
    IN IF url = <<>> THEN Plainly(sender) ELSE <<Link(sender, url)>>

(* The sender reads as one link to its address, or as a text when it has     *)
(* none.                                                                     *)
LEMMA FromReads ==
    ASSUME NEW name \in Seq(Char), NEW address \in Seq(Char)
    PROVE  Reads(Anywhere, from_field(<<name>>, <<address>>), Seen1(name, address))
  <1> DEFINE url == mailto_url(truncate(address, FieldLimit))
             sender == Sender(<<name>>, <<address>>)
             given == <<address>>
  <1>1. url \in Seq(Char) /\ sender \in Seq(Char)
    BY TruncateType, MailtoType, SenderType
  <1>2. given # <<>> /\ given[1] = address
    OBVIOUS
  <1>3. from_field(<<name>>, given) =
          IF url = <<>> THEN Escape(sender, Reserved)
          ELSE <<"[">> \o Escape(sender, Reserved) \o <<"]", "(">>
                 \o Escape(url, {")", "\\"}) \o <<")">>
    <2> HIDE DEF given
    <2>1. from_field(<<name>>, given) =
            IF given = <<>> THEN <<>>
            ELSE IF mailto_url(truncate(given[1], FieldLimit)) = <<>>
                 THEN Escape(Sender(<<name>>, given), Reserved)
            ELSE <<"[">> \o Escape(Sender(<<name>>, given), Reserved) \o <<"]", "(">>
                   \o Escape(mailto_url(truncate(given[1], FieldLimit)), {")", "\\"}) \o <<")">>
      BY DEF from_field, escape_markdown, escape_markdown_url
    <2>2. QED
      BY <1>2, <2>1 DEF given
  <1>4. Seen1(name, address) = IF url = <<>> THEN Plainly(sender) ELSE <<Link(sender, url)>>
    BY DEF Seen1
  <1> HIDE DEF url, sender
  <1>5. Reads(Anywhere, Escape(sender, Reserved), Plainly(sender))
    BY <1>1, TextReads
  <1>6. Reads(Anywhere, <<"[">> \o Escape(sender, Reserved) \o <<"]", "(">>
                          \o Escape(url, {")", "\\"}) \o <<")">>, <<Link(sender, url)>>)
    BY <1>1, LinkReads
  <1>7. CASE url = <<>>
    BY <1>3, <1>4, <1>5, <1>7
  <1>8. CASE url # <<>>
    BY <1>3, <1>4, <1>6, <1>8
  <1>9. QED
    BY <1>7, <1>8

(* The subject reads as its text.                                            *)
LEMMA SubjectReads ==
    ASSUME NEW s \in Seq(Char)
    PROVE  Reads(Anywhere, escape_markdown(truncate(Trimmed(s), FieldLimit)), Plainly(Shown(s)))
  BY ShownType, TextReads DEF Shown, escape_markdown

SeenQuoted(preview) ==
    Joined([i \in DOMAIN Lines(Shown(preview)) |->
              <<Quote>> \o Plainly(Lines(Shown(preview))[i])], Break)

(* The preview, at the start of a line, reads as its lines quoted.           *)
LEMMA PreviewReads ==
    ASSUME NEW s \in Seq(Char)
    PROVE  Reads(LineStart, Preview(s), SeenQuoted(s))
  <1> DEFINE shown == Shown(s)
  <1>1. shown \in Seq(Char)
    BY ShownType
  <1>2. Preview(s) = blockquote(Escape(shown, Reserved))
    BY DEF Preview, escape_markdown, Shown
  <1>3. SeenQuoted(s) = Joined([i \in DOMAIN Lines(shown) |->
                                  <<Quote>> \o Plainly(Lines(shown)[i])], Break)
    BY DEF SeenQuoted
  <1> HIDE DEF shown
  <1>4. QED
    BY <1>1, <1>2, <1>3, BlockquoteReads

-----------------------------------------------------------------------------
(* The attachments.                                                         *)

Size4 == <<" ", "(", ".", ")">>
Kept(names) == SubSeq(names, 1, IF Len(names) > MaxShown THEN MaxShown ELSE Len(names))
Named(names) == [i \in DOMAIN Kept(names) |-> truncate(Kept(names)[i], FieldLimit) \o Size4]
Rest(names) == IF Len(names) > MaxShown THEN <<"(", "+", ")">> ELSE <<>>
NamesShown(names) == Joined(Named(names), <<",">>) \o Rest(names)

(* The brackets and the size that follow a name are what escaping makes of   *)
(* them.                                                                     *)
LEMMA SizeIsEscaped ==
    /\ Size4 \in Seq(Char) /\ <<",">> \in Seq(Char) /\ Escape(<<",">>, Reserved) = <<",">>
    /\ \A e \in Seq(Char) :
         e \o <<" ", "\\", "(">> \o Escape(<<".">>, Reserved) \o <<"\\", ")">> =
           e \o Escape(Size4, Reserved)
  <1>1. /\ " " \in Char /\ "(" \in Char /\ "." \in Char /\ ")" \in Char /\ "\\" \in Char
        /\ "," \in Char
    BY CharIs DEF Reserved, Blank
  <1>2. "(" \in Reserved /\ "." \in Reserved /\ ")" \in Reserved /\ " " \notin Reserved
        /\ "," \notin Reserved
    BY DEF Reserved
  <1> DEFINE s0 == <<" ">>
             s1 == Append(s0, "(")
             s2 == Append(s1, ".")
             s3 == Append(s2, ")")
             p == <<"\\", "(">>
             d == <<"\\", ".">>
             q == <<"\\", ")">>
             m == <<" ", "\\", "(">>
  <1>3. /\ Escape(s0, Reserved) = s0 /\ Escape(<<".">>, Reserved) = d
        /\ Escape(<<",">>, Reserved) = <<",">> /\ <<",">> \in Seq(Char)
        /\ s0 \in Seq(Char)
    BY <1>1, <1>2, EscapedChar
  <1>4. p \in Seq(Char) /\ d \in Seq(Char) /\ q \in Seq(Char) /\ m \in Seq(Char)
    <2>1. \A x, y, z \in Char : <<x, y>> \in Seq(Char) /\ <<x, y, z>> \in Seq(Char)
      OBVIOUS
    <2>2. QED
      BY <1>1, <2>1
  <1>5. m = s0 \o p
    <2>1. \A x, y, z \in Char : <<x, y, z>> = <<x>> \o <<y, z>>
      <3> TAKE x \in Char, y \in Char, z \in Char
      <3> DEFINE whole == <<x, y, z>>
                 two == <<x>> \o <<y, z>>
      <3>1. whole \in Seq(Char) /\ Len(whole) = 3 /\ whole[1] = x /\ whole[2] = y /\ whole[3] = z
        OBVIOUS
      <3>2. two \in Seq(Char) /\ Len(two) = 3 /\ two[1] = x /\ two[2] = y /\ two[3] = z
        OBVIOUS
      <3> HIDE DEF whole, two
      <3>3. \A i \in 1..3 : whole[i] = two[i]
        <4>1. \A i \in 1..3 : i \in {1, 2, 3}
          OBVIOUS
        <4>2. QED
          BY <3>1, <3>2, <4>1
      <3>4. whole = two
        BY <3>1, <3>2, <3>3, SeqEqual
      <3>5. QED
        BY <3>4 DEF whole, two
    <2>2. QED
      BY <1>1, <2>1
  <1>6. Size4 = s3
    <2>1. \A x, y, z, v \in Char : Append(Append(Append(<<x>>, y), z), v) = <<x, y, z, v>>
      BY FourIs
    <2>2. QED
      BY <1>1, <2>1 DEF Size4
  <1> HIDE DEF s0
  <1>7. \A x \in Seq(Char), c \in Char :
          /\ Append(x, c) \in Seq(Char)
          /\ c \in Reserved => Escape(Append(x, c), Reserved) = Escape(x, Reserved) \o <<"\\", c>>
    <2> TAKE x \in Seq(Char), c \in Char
    <2>1. Append(x, c) \in Seq(Char)
      BY AppendProperties
    <2>2. QED
      BY <2>1, EscapeAppend
  <1>8. s1 \in Seq(Char) /\ Escape(s1, Reserved) = s0 \o p
    BY <1>1, <1>2, <1>3, <1>7
  <1> HIDE DEF s1
  <1>9. s2 \in Seq(Char) /\ Escape(s2, Reserved) = (s0 \o p) \o d
    BY <1>1, <1>2, <1>7, <1>8
  <1> HIDE DEF s2
  <1>10. s3 \in Seq(Char) /\ Escape(s3, Reserved) = ((s0 \o p) \o d) \o q
    BY <1>1, <1>2, <1>7, <1>9
  <1> HIDE DEF s3, p, d, q, m
  <1>11. ASSUME NEW e \in Seq(Char) PROVE e \o m \o d \o q = e \o ((m \o d) \o q)
    <2>1. \A x, y, z \in Seq(Char) : (x \o y) \o z = x \o (y \o z)
      BY ConcatAssociative
    <2>2. \A x, y \in Seq(Char) : x \o y \in Seq(Char)
      BY ConcatProperties
    <2>3. m \o d \in Seq(Char)
      BY <1>4, <2>2
    <2>4. (e \o m) \o d = e \o (m \o d)
      BY <1>4, <2>1
    <2>5. (e \o (m \o d)) \o q = e \o ((m \o d) \o q)
      BY <1>4, <2>1, <2>3
    <2>6. QED
      BY <2>4, <2>5
  <1>12. ASSUME NEW e \in Seq(Char)
         PROVE  e \o <<" ", "\\", "(">> \o Escape(<<".">>, Reserved) \o <<"\\", ")">> =
                  e \o Escape(Size4, Reserved)
    <2>1. e \o m \o d \o q = e \o Escape(Size4, Reserved)
      BY <1>5, <1>6, <1>10, <1>11
    <2>2. QED
      BY <1>3, <2>1 DEF m, q
  <1>13. QED
    BY <1>3, <1>6, <1>10, <1>12

LEMMA KeptType ==
    ASSUME NEW names \in Seq(Seq(Char))
    PROVE  Kept(names) \in Seq(Seq(Char))
  <1> DEFINE n == IF Len(names) > MaxShown THEN MaxShown ELSE Len(names)
  <1>1. Len(names) \in Nat /\ MaxShown \in Nat
    BY LenProperties, TextsAssumption
  <1>2. n \in Nat /\ n <= Len(names)
    BY <1>1
  <1>3. Kept(names) = SubSeq(names, 1, n)
    BY DEF Kept
  <1> HIDE DEF n
  <1>4. \A i \in 1..n : names[i] \in Seq(Char)
    <2>1. \A i \in 1..n : i \in 1..Len(names)
      BY <1>1, <1>2
    <2>2. QED
      BY <2>1, ElementOfSeq
  <1>5. SubSeq(names, 1, n) \in Seq(Seq(Char))
    <2> DEFINE X == Seq(Char)
    <2>1. \A i \in 1..n : names[i] \in X
      BY <1>4
    <2> HIDE DEF X
    <2>2. SubSeq(names, 1, n) \in Seq(X)
      BY <1>2, <2>1, SubSeqProperties
    <2>3. QED
      BY <2>2 DEF X
  <1>6. QED
    BY <1>3, <1>5

LEMMA NamedType ==
    ASSUME NEW names \in Seq(Seq(Char))
    PROVE  /\ Named(names) \in Seq(Seq(Char)) /\ Rest(names) \in Seq(Char)
           /\ \A i \in DOMAIN Kept(names) : truncate(Kept(names)[i], FieldLimit) \in Seq(Char)
  <1> DEFINE kept == Kept(names)
  <1>1. kept \in Seq(Seq(Char))
    BY KeptType
  <1>2. Size4 \in Seq(Char)
    BY SizeIsEscaped
  <1> HIDE DEF kept
  <1>3. ASSUME NEW i \in 1..Len(kept)
        PROVE  /\ truncate(kept[i], FieldLimit) \in Seq(Char)
               /\ truncate(kept[i], FieldLimit) \o Size4 \in Seq(Char)
    <2>1. kept[i] \in Seq(Char)
      BY <1>1, ElementOfSeq
    <2>2. truncate(kept[i], FieldLimit) \in Seq(Char)
      BY <2>1, TruncateType
    <2>3. QED
      BY <1>2, <2>2, ConcatProperties
  <1>4. DOMAIN kept = 1..Len(kept) /\ Len(kept) \in Nat
    BY <1>1, LenProperties
  <1>5. [i \in DOMAIN kept |-> truncate(kept[i], FieldLimit) \o Size4]
          \in [1..Len(kept) -> Seq(Char)]
    BY <1>3, <1>4
  <1>6. Named(names) \in Seq(Seq(Char))
    BY <1>4, <1>5, FunctionIsSeq DEF Named, kept
  <1>7. Rest(names) \in Seq(Char)
    <2>1. "(" \in Char /\ "+" \in Char /\ ")" \in Char
      BY CharIs DEF Reserved
    <2>2. \A x, y, z \in Char : <<x, y, z>> \in Seq(Char)
      OBVIOUS
    <2>3. QED
      BY <2>1, <2>2, EmptySeq DEF Rest
  <1>8. QED
    BY <1>3, <1>4, <1>6, <1>7 DEF kept

(* The field of the attachments is the escaped text of their names.          *)
LEMMA AttachmentsAre ==
    ASSUME NEW names \in Seq(Seq(Char))
    PROVE  /\ NamesShown(names) \in Seq(Char)
           /\ attachments_field(names) = Escape(NamesShown(names), Reserved)
  <1> DEFINE kept == Kept(names)
             named == Named(names)
             comma == <<",">>
             rest == Rest(names)
             one(i) == escape_markdown(truncate(kept[i], FieldLimit))
                         \o <<" ", "\\", "(">> \o escape_markdown(<<".">>) \o <<"\\", ")">>
  <1>1. named \in Seq(Seq(Char)) /\ rest \in Seq(Char) /\ comma \in Seq(Char)
    BY NamedType, SizeIsEscaped
  <1>2. Joined(named, comma) \in Seq(Char)
    BY <1>1, JoinedType
  <1>3. NamesShown(names) \in Seq(Char)
    BY <1>1, <1>2, ConcatProperties DEF NamesShown
  <1>4. ASSUME NEW i \in DOMAIN kept PROVE one(i) = Escape(named[i], Reserved)
    <2> DEFINE t == truncate(kept[i], FieldLimit)
    <2>1. t \in Seq(Char) /\ Size4 \in Seq(Char)
      BY NamedType, SizeIsEscaped
    <2>2. named[i] = t \o Size4
      BY DEF Named
    <2> HIDE DEF t, named
    <2>3. Escape(t \o Size4, Reserved) = Escape(t, Reserved) \o Escape(Size4, Reserved)
      BY <2>1, EscapeConcat
    <2>4. Escape(t, Reserved) \in Seq(Char)
      BY <2>1, EscapeIs
    <2>5. one(i) = Escape(t, Reserved) \o Escape(Size4, Reserved)
      BY <2>4, SizeIsEscaped DEF escape_markdown, t
    <2>6. QED
      BY <2>2, <2>3, <2>5
  <1>5. [i \in DOMAIN kept |-> one(i)] = EscapedEach(named, Reserved)
    <2>1. DOMAIN named = DOMAIN kept
      BY DEF Named
    <2> HIDE DEF kept, named, one
    <2>2. QED
      BY <1>4, <2>1 DEF EscapedEach
  <1>6. (IF Len(names) > MaxShown THEN escape_markdown(<<"(", "+", ")">>) ELSE <<>>)
          = Escape(rest, Reserved)
    BY EscapeEmpty DEF Rest, escape_markdown
  <1>7. attachments_field(names) =
          Joined([i \in DOMAIN kept |-> one(i)], comma) \o
            (IF Len(names) > MaxShown THEN escape_markdown(<<"(", "+", ")">>) ELSE <<>>)
    BY DEF attachments_field, Kept
  <1>8. attachments_field(names) =
          Joined(EscapedEach(named, Reserved), comma) \o Escape(rest, Reserved)
    <2> HIDE DEF kept, one, comma, named, rest
    <2>1. QED
      BY <1>5, <1>6, <1>7
  <1>9. Escape(Joined(named, comma), Reserved) = Joined(EscapedEach(named, Reserved), comma)
    <2>1. Escape(comma, Reserved) = comma
      BY SizeIsEscaped
    <2> HIDE DEF comma, named
    <2>2. Escape(Joined(named, comma), Reserved) =
            Joined(EscapedEach(named, Reserved), Escape(comma, Reserved))
      BY <1>1, EscapeJoined
    <2>3. QED
      BY <2>1, <2>2
  <1>10. Escape(Joined(named, comma) \o rest, Reserved) =
           Escape(Joined(named, comma), Reserved) \o Escape(rest, Reserved)
    <2> HIDE DEF comma, named, rest
    <2>1. QED
      BY <1>1, <1>2, EscapeConcat
  <1>11. NamesShown(names) = Joined(named, comma) \o rest
    BY DEF NamesShown
  <1> HIDE DEF kept, named, comma, rest, one
  <1>12. QED
    BY <1>3, <1>8, <1>9, <1>10, <1>11

(* So it reads as that text.                                                 *)
LEMMA AttachmentsRead ==
    ASSUME NEW names \in Seq(Seq(Char))
    PROVE  Reads(Anywhere, attachments_field(names), Plainly(NamesShown(names)))
  BY AttachmentsAre, TextReads

-----------------------------------------------------------------------------
(* The notification.                                                        *)

(* What the reader is to see, field by field.                                *)
LEMMA SeenIs ==
    ASSUME NEW name, NEW address, NEW subject, NEW names, NEW preview
    PROVE  Seen(name, address, subject, names, preview) =
             Joined(<<Seen1(name, address), Plainly(Shown(subject)),
                      Plainly(NamesShown(names)), SeenQuoted(preview)>>, Break)
  BY DEF Seen, Seen1, NamesShown, Named, Kept, Rest, Size4, SeenQuoted, Break

(* A notification reads as its four fields, whatever they hold.              *)
LEMMA NotificationReads ==
    ASSUME NEW name \in Seq(Char), NEW address \in Seq(Char), NEW subject \in Seq(Char),
           NEW names \in Seq(Seq(Char)), NEW preview \in Seq(Char)
    PROVE  Reads(Anywhere, notification_text(<<name>>, <<address>>, subject, names, preview),
                 Seen(name, address, subject, names, preview))
  <1> DEFINE a == from_field(<<name>>, <<address>>)
             b == escape_markdown(truncate(Trimmed(subject), FieldLimit))
             c == attachments_field(names)
             d == Preview(preview)
             w == Seen1(name, address)
             x == Plainly(Shown(subject))
             y == Plainly(NamesShown(names))
             z == SeenQuoted(preview)
             nl == <<NewLine>>
  <1>1. Reads(Anywhere, a, w) /\ Reads(Anywhere, b, x) /\ Reads(Anywhere, c, y)
        /\ Reads(LineStart, d, z)
    BY FromReads, SubjectReads, AttachmentsRead, PreviewReads
  <1>2. Reads(Anywhere, nl, Break) /\ \A p \in Anywhere : p \o Break \in LineStart
    BY BreakReads
  <1>3. notification_text(<<name>>, <<address>>, subject, names, preview) =
          FourJoined(a, b, c, d, nl)
    BY DEF notification_text, FourJoined
  <1>4. Seen(name, address, subject, names, preview) = FourJoined(w, x, y, z, Break)
    BY SeenIs DEF FourJoined
  <1> HIDE DEF a, b, c, d, w, x, y, z, nl
  <1>5. /\ a \in Seq(Char) /\ b \in Seq(Char) /\ c \in Seq(Char) /\ d \in Seq(Char)
        /\ nl \in Seq(Char) /\ w \in Seq(Item) /\ x \in Seq(Item) /\ y \in Seq(Item)
        /\ z \in Seq(Item) /\ Break \in Seq(Item)
    BY <1>1, <1>2 DEF Reads
  <1>6. FourJoined(a, b, c, d, nl) = ((a \o (nl \o b)) \o (nl \o c)) \o (nl \o d)
    <2>1. FourTexts(Char, a, b, c, d, nl)
      BY <1>5 DEF FourTexts
    <2>2. QED
      BY <2>1, JoinedFour
  <1>7. FourJoined(w, x, y, z, Break) =
          ((w \o (Break \o x)) \o (Break \o y)) \o (Break \o z)
    <2>1. FourTexts(Item, w, x, y, z, Break)
      BY <1>5 DEF FourTexts
    <2>2. QED
      BY <2>1, JoinedFour
  <1>8. Anywhere \in SUBSET Anywhere
    OBVIOUS
  <1>9. Reads(Anywhere, nl \o b, Break \o x)
    BY <1>1, <1>2, <1>8, ReadsNext
  <1>10. Reads(Anywhere, nl \o c, Break \o y)
    BY <1>1, <1>2, <1>8, ReadsNext
  <1>11. Reads(Anywhere, nl \o d, Break \o z)
    BY <1>1, <1>2, <1>8, ReadsThen
  <1>12. Reads(Anywhere, a \o (nl \o b), w \o (Break \o x))
    BY <1>1, <1>8, <1>9, ReadsNext
  <1>13. Reads(Anywhere, (a \o (nl \o b)) \o (nl \o c), (w \o (Break \o x)) \o (Break \o y))
    BY <1>8, <1>10, <1>12, ReadsNext
  <1>14. Reads(Anywhere, ((a \o (nl \o b)) \o (nl \o c)) \o (nl \o d),
                         ((w \o (Break \o x)) \o (Break \o y)) \o (Break \o z))
    BY <1>8, <1>11, <1>13, ReadsNext
  <1>15. QED
    BY <1>3, <1>4, <1>6, <1>7, <1>14

(* What the reader has read, once it comes to the end.                      *)
LEMMA ReadsToTheEnd ==
    ASSUME NEW markup, NEW meant, Reads(Anywhere, markup, meant)
    PROVE  ReadMarkup(markup) = [ok |-> TRUE, items |-> meant]
  <1>1. markup \in Seq(Char) /\ meant \in Seq(Item)
    BY DEF Reads
  <1>2. Is(Unread, "text", <<>>, <<>>, <<>>)
    <2>1. <<>> \in Seq(Item) /\ <<>> \in Seq(Char)
      BY EmptySeq
    <2> DEFINE none == <<>>
    <2>2. none \in Seq(Item) /\ none \in Seq(Char)
      BY <2>1
    <2>3. Unread = [mode |-> "text", esc |-> FALSE, ok |-> TRUE, items |-> none,
                    label |-> none, url |-> none]
      BY DEF Unread
    <2> HIDE DEF none
    <2>4. Is(Unread, "text", none, none, none)
      BY <2>2, <2>3 DEF Is, Acc, Modes
    <2>5. QED
      BY <2>4 DEF none
  <1>3. Is(Reading(Unread, markup), "text", <<>> \o meant, <<>>, <<>>)
    BY <1>2, EmptySeq DEF Reads, Anywhere
  <1> DEFINE end == FoldLeft(ReadChar, Unread, markup)
  <1>4. end = Reading(Unread, markup)
    BY <1>1, <1>2, ReadFold DEF Reading, Is
  <1>5. <<>> \o meant = meant
    BY <1>1, ConcatEmptySeq
  <1>6. ReadMarkup(markup) =
          [ok |-> end.ok /\ ~end.esc /\ end.mode = "text", items |-> end.items]
    BY DEF ReadMarkup
  <1> HIDE DEF end
  <1>7. end.ok /\ ~end.esc /\ end.mode = "text" /\ end.items = meant
    BY <1>3, <1>4, <1>5 DEF Is
  <1>8. (end.ok /\ ~end.esc /\ end.mode = "text") = TRUE
    BY <1>7
  <1>9. QED
    BY <1>6, <1>7, <1>8

(* Whatever mail puts into its fields, Telegram takes the notification and   *)
(* shows the fields as they are: nothing in them becomes a link, a quote or  *)
(* an error (format.rs:394-427).                                            *)
THEOREM NotificationReadsBack == WritingSpec => []MarkdownReadsBack
  <1>1. WritingInv => MarkdownReadsBack
    <2> SUFFICES ASSUME WritingInv, writing.kind = "notice"
                 PROVE  MarkdownReadsBack
      BY DEF MarkdownReadsBack
    <2>1. Notice(writing)
      BY Kinds DEF WritingInv
    <2>2. PICK one \in Field, other \in Field :
            writing = [kind |-> "notice", one |-> one, other |-> other,
                       sent |-> notification_text(<<one>>, <<other>>, other,
                                                  <<one, other>>, one)]
      BY <2>1 DEF Notice
    <2>3. one \in Seq(Char) /\ other \in Seq(Char)
      BY WritingAssumption, StringsAreTexts
    <2>4. <<one, other>> \in Seq(Seq(Char))
      <3> DEFINE X == Seq(Char)
      <3>1. one \in X /\ other \in X
        BY <2>3
      <3> HIDE DEF X
      <3>2. <<one, other>> \in Seq(X)
        BY <3>1
      <3>3. QED
        BY <3>2 DEF X
    <2> DEFINE sent == notification_text(<<one>>, <<other>>, other, <<one, other>>, one)
               meant == Seen(one, other, other, <<one, other>>, one)
    <2>5. Reads(Anywhere, sent, meant)
      BY <2>3, <2>4, NotificationReads
    <2>6. writing.one = one /\ writing.other = other /\ writing.sent = sent
      BY <2>2
    <2> HIDE DEF sent
    <2>7. ReadMarkup(sent) = [ok |-> TRUE, items |-> meant]
      BY <2>5, ReadsToTheEnd
    <2>8. QED
      BY <2>6, <2>7 DEF MarkdownReadsBack
  <1>2. QED
    BY <1>1, WritingInvariantHolds, PTL

=============================================================================
