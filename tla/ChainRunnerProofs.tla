-------------------------- MODULE ChainRunnerProofs --------------------------
(***************************************************************************)
(* Sampling is right for any number of chains, workers and options: the    *)
(* call is never left while a chain is being sampled, the caller's rows    *)
(* are the kept transitions in their order, and no progress event is lost. *)
(***************************************************************************)
EXTENDS ChainRunner, FunctionTheorems, FiniteSetTheorems, SequenceTheorems, TLAPS

Active == {"init", "check", "step", "report"}
Sampling == {"warmup", "sampling"}
Pool == Threads > 1
Over == at \in {"threw", "terminated"}
Gone == {w \in Workers : pc[w] = "exited"}

(* A chain has one runner. *)
OneRunner == \A r, s \in Runners : job[r] = job[s] /\ job[r] # None => r = s

(* The caller's stage decides which runners there are. *)
StageInv ==
  /\ at = "begin" => next = 0 /\ live = 0 /\ \A r \in Runners : pc[r] = "unborn"
  /\ at = "loop" => ~Pool /\ pc[Main] \in Active \cup {"claim"}
  /\ at \in {"spawn", "poll", "wait", "observe", "join"} => Pool
  /\ Pool => pc[Main] = "unborn"
  /\ ~Pool => live = 0 /\ \A w \in Workers : pc[w] = "unborn"
  /\ pc[Main] # "leave"
  /\ at \in {"rethrow", "copy", "returned"} =>
       next >= NChains /\ \A r \in Runners : pc[r] \in {"unborn", "exited"}
  /\ (\E r \in Runners : pc[r] \in {"leave", "exited"}) => next >= NChains

(* live_workers counts the workers of the pool that have not left. *)
LiveInv ==
  Pool /\ at # "begin" =>
    /\ live + Cardinality(Gone) = Threads
    /\ Cardinality(Born) <= Threads
    /\ at # "spawn" => Cardinality(Born) = Threads

(* The chains below the cursor are the ones that were claimed, and one that *)
(* is not finished is in its runner's hands.                                *)
RunnerInv ==
  /\ \A r \in Runners : pc[r] \in Active =>
       /\ job[r] \in Chains
       /\ phase[job[r]] \in (IF pc[r] = "init" THEN {"init"} ELSE Sampling)
  /\ \A r \in Runners : job[r] # None => job[r] < next
  /\ \A c \in Chains : phase[c] = "todo" <=> c >= next
  /\ \A c \in Chains : phase[c] \in Sampling \cup {"init"} =>
       \E r \in Runners : pc[r] \in Active /\ job[r] = c

(* The transitions kept before t, and a sequence of them from the first on. *)
Before(K, t) == {s \in K : Earlier(s, t)}
Numbered(K, s) ==
  \A k \in 1 .. Len(s) : s[k] \in K /\ Cardinality(Before(K, s[k])) = k - 1

(* The part of s that the announced number of rows has room for. *)
Top(s) == SubSeq(s, 1, Least(Len(s), NStored))

(* The rows of a chain, and what the writer has put into the caller's buffer. *)
RowOK(c) ==
  /\ Numbered(AllKept, rows[c])
  /\ phase[c] # "failed" => values[c] = Top(rows[c])
  /\ phase[c] \in {"todo", "init", "failed"} => rows[c] = <<>> /\ stored[c] = 0 /\ iter[c] = 0
  /\ phase[c] \in Sampling => stored[c] = Len(rows[c])
  /\ phase[c] = "done" /\ ~interrupted[c] => Len(rows[c]) = Cardinality(AllKept)
  /\ draws[c] = IF at = "returned" THEN Top(rows[c]) ELSE <<>>

RowsInv == \A c \in Chains : RowOK(c)

Limit(c) == IF phase[c] = "warmup" THEN opts.warmup ELSE opts.samples

(* Where a runner is in its chain's loops, and how many rows that makes. *)
PlaceOK(r) ==
  LET c == job[r]
  IN /\ pc[r] \in {"check", "step"} =>
          /\ iter[c] <= Limit(c)
          /\ Len(rows[c]) = Cardinality(Before(AllKept, <<phase[c], iter[c]>>))
     /\ pc[r] \in {"step", "report"} => iter[c] < Limit(c)
     /\ pc[r] = "report" =>
          Len(rows[c]) = Cardinality(Before(AllKept, <<phase[c], iter[c] + 1>>))

PlaceInv == \A r \in Runners : PlaceOK(r)

(* Until the observer throws, the events owed to it are the one in the        *)
(* caller's hand and the queued ones, in that order.                          *)
QueueInv ==
  /\ IF at = "observe" THEN Len(event) = 1 ELSE event = <<>>
  /\ ordered
  /\ ~opts.progress \/ ~Pool => events = <<>> /\ event = <<>> /\ owed = <<>>
  /\ ~progressError => owed = event \o events
  /\ Pool /\ opts.progress /\ at \in {"join", "rethrow", "copy", "returned"} => events = <<>> /\ live = 0

(* The inductive invariant: once the call has been left nothing happens any *)
(* more.                                                                    *)
IInv ==
  /\ TypeOK /\ OneRunner
  /\ Over => ordered /\ \A r \in Runners : pc[r] \in {"unborn", "exited"}
  /\ ~Over => StageInv /\ LiveInv /\ RunnerInv /\ RowsInv /\ PlaceInv /\ QueueInv

-----------------------------------------------------------------------------
(* Arithmetic of the thinned rows. *)
LEMMA Division ==
  ASSUME NEW n \in Nat, NEW t \in Nat \ {0}
  PROVE  /\ n \div t \in Nat /\ n % t \in 0 .. t - 1
         /\ n = t * (n \div t) + (n % t)
  BY SMT

(* The multiples of t are what leaves no remainder. *)
LEMMA Multiple ==
  ASSUME NEW k \in Nat, NEW t \in Nat \ {0}
  PROVE  k * t \in Nat /\ (k * t) % t = 0
  BY SMT

(* Different numbers have different multiples. *)
LEMMA MultipleOnce ==
  ASSUME NEW k \in Nat, NEW j \in Nat, NEW t \in Nat \ {0}, k * t = j * t
  PROVE  k = j
  BY SMT

(* n / t, rounded up. *)
Ceil(n, t) == (n + t - 1) \div t

(* The ceiling of n / t counts the multiples of t below n. *)
LEMMA Ceiling ==
  ASSUME NEW n \in Nat, NEW t \in Nat \ {0}
  PROVE  /\ Ceil(n, t) \in Nat
         /\ \A k \in Nat : k * t < n <=> k < Ceil(n, t)
<1> DEFINE a == (n + t - 1) \div t
           r == (n + t - 1) % t
<1>1. n + t - 1 \in Nat
  OBVIOUS
<1>2. a \in Nat /\ r \in 0 .. t - 1 /\ n + t - 1 = t * a + r
  BY <1>1, Division
<1> HIDE DEF a, r
<1>3. \A k \in Nat : k * t < n <=> k < a
  BY <1>2, SMT
<1>4. Ceil(n, t) = a
  BY DEF Ceil, a
<1> QED
  BY <1>2, <1>3, <1>4

(* A loop of n transitions of which every t-th is kept keeps the ceiling. *)
LEMMA ThinnedCount ==
  ASSUME NEW n \in Nat, NEW t \in Nat \ {0}
  PROVE  LET K == {j \in 0 .. n - 1 : j % t = 0}
         IN IsFiniteSet(K) /\ Cardinality(K) = Ceil(n, t)
<1> DEFINE m == Ceil(n, t)
           K == {j \in 0 .. n - 1 : j % t = 0}
           f == [k \in 0 .. m - 1 |-> k * t]
<1>1. m \in Nat /\ \A k \in Nat : k * t < n <=> k < m
  BY Ceiling
<1>2. \A k \in 0 .. m - 1 : k * t \in K
  BY <1>1, Multiple
<1>3. \A j \in K : \E k \in 0 .. m - 1 : k * t = j
  <2> SUFFICES ASSUME NEW j \in K PROVE \E k \in 0 .. m - 1 : k * t = j
    OBVIOUS
  <2>1. j \in Nat /\ j < n /\ j % t = 0
    OBVIOUS
  <2>2. j \div t \in Nat /\ j = t * (j \div t) + (j % t)
    BY <2>1, Division
  <2>3. (j \div t) * t = j
    BY <2>1, <2>2
  <2>4. j \div t < m
    BY <1>1, <2>1, <2>2, <2>3
  <2> QED
    BY <1>1, <2>2, <2>3, <2>4
<1> HIDE DEF m, K
<1>4. f \in Bijection(0 .. m - 1, K)
  <2>1. f \in [0 .. m - 1 -> K]
    BY <1>2
  <2>2. \A j, k \in 0 .. m - 1 : f[j] = f[k] => j = k
    BY <1>1, MultipleOnce
  <2>3. \A j \in K : \E k \in 0 .. m - 1 : f[k] = j
    BY <1>3
  <2> QED
    BY <2>1, <2>2, <2>3, Fun_IsBij
<1>5. IsFiniteSet(0 .. m - 1) /\ Cardinality(0 .. m - 1) = m
  <2>1. /\ IsFiniteSet(0 .. m - 1)
        /\ Cardinality(0 .. m - 1) = IF 0 > m - 1 THEN 0 ELSE (m - 1) - 0 + 1
    BY <1>1, FS_Interval
  <2> QED
    BY <1>1, <2>1
<1>6. IsFiniteSet(K) /\ Cardinality(K) = m
  BY <1>4, <1>5, FS_Bijection, Fun_ExistsBij
<1> QED
  BY <1>6 DEF m, K

(* What the code computes is a number, and the ceiling when no sum overflows. *)
LEMMA CeilDivFacts ==
  ASSUME NEW n \in Nat, NEW t \in Nat \ {0}
  PROVE  /\ CeilDiv(n, t) \in Int
         /\ n + t <= IntMax => CeilDiv(n, t) = Ceil(n, t)
<1> DEFINE x == n + t - 1
           y == IntOf(x)
<1>1. x \in Nat /\ IntMax \in Nat
  BY SizesAssumption
<1>2. y \in Int /\ (x <= IntMax => y = x)
  BY <1>1 DEF IntOf
<1>3. CeilDiv(n, t) = Quotient(y, t)
  BY DEF CeilDiv
<1>4. n + t <= IntMax => x <= IntMax
  BY <1>1
<1>5. Ceil(n, t) = x \div t
  BY DEF Ceil
<1> HIDE DEF x, y
<1>6. Quotient(y, t) \in Int
  <2>1. CASE y >= 0
    <3>1. y \in Nat
      BY <1>2, <2>1
    <3> QED
      BY <2>1, <3>1, Division DEF Quotient
  <2>2. CASE ~(y >= 0)
    <3>1. -y \in Nat
      BY <1>2, <2>2
    <3>2. (-y) \div t \in Nat
      BY <3>1, Division
    <3> QED
      BY <2>2, <3>2 DEF Quotient
  <2> QED
    BY <2>1, <2>2
<1>7. y = x => Quotient(y, t) = x \div t
  BY <1>1 DEF Quotient
<1> QED
  BY <1>2, <1>3, <1>4, <1>5, <1>6, <1>7

-----------------------------------------------------------------------------
(* The kept transitions. *)
Size(l) == IF l = "warmup" THEN opts.warmup ELSE opts.samples

(* What the options are. *)
LEMMA OptionFacts ==
  ASSUME TypeOK
  PROVE  /\ opts.warmup \in Nat /\ opts.samples \in Nat /\ opts.thin \in Nat \ {0}
         /\ opts.saveWarmup \in BOOLEAN /\ opts.progress \in BOOLEAN /\ opts.poll \in BOOLEAN
         /\ opts.threads \in 1 .. Cardinality(Workers)
<1>1. (\A n : n \in 0 .. IntMax => n \in Nat) /\ (\A n : n \in 1 .. IntMax => n \in Nat \ {0})
  <2>1. IntMax \in Nat
    BY SizesAssumption
  <2> QED
    BY <2>1
<1>2. opts \in Options
  BY DEF TypeOK
<1> QED
  BY <1>1, <1>2 DEF Options

(* A transition is kept when the loop it belongs to keeps its index. *)
LEMMA KeptMember ==
  ASSUME TypeOK
  PROVE  \A s : s \in AllKept <=>
           \E l \in Sampling, i \in Nat : s = <<l, i>> /\ i < Size(l) /\ Keep(l = "warmup", i)
<1>1. \A n \in Nat : \A i : i \in 0 .. n - 1 <=> i \in Nat /\ i < n
  OBVIOUS
<1> QED
  BY <1>1, OptionFacts DEF AllKept, Size, Sampling

(* Naming numbers by their loop changes neither their being finitely many *)
(* nor how many they are.                                                 *)
LEMMA Tagged ==
  ASSUME NEW K, IsFiniteSet(K), NEW l
  PROVE  /\ IsFiniteSet({<<l, i>> : i \in K})
         /\ Cardinality({<<l, i>> : i \in K}) = Cardinality(K)
<1> DEFINE T == {<<l, i>> : i \in K}
           f == [i \in K |-> <<l, i>>]
<1>1. f \in [K -> T] /\ (\A i, j \in K : f[i] = f[j] => i = j) /\ \A t \in T : \E i \in K : f[i] = t
  OBVIOUS
<1>2. f \in Bijection(K, T)
  BY <1>1, Fun_IsBij
<1> QED
  BY <1>2, FS_Bijection, Fun_ExistsBij

(* There are as many as stanli_n_stored_draws announces, if it does not *)
(* overflow.                                                            *)
LEMMA KeptCount ==
  ASSUME TypeOK
  PROVE  /\ IsFiniteSet(AllKept) /\ Cardinality(AllKept) \in Nat
         /\ NStored \in Int
         /\ SizesFit => Cardinality(AllKept) = NStored
<1> DEFINE w == {j \in 0 .. opts.warmup - 1 : Keep(TRUE, j)}
           s == {j \in 0 .. opts.samples - 1 : Keep(FALSE, j)}
           W == {<<"warmup", i>> : i \in w}
           S == {<<"sampling", i>> : i \in s}
           nw == IF opts.saveWarmup THEN Ceil(opts.warmup, opts.thin) ELSE 0
           ns == Ceil(opts.samples, opts.thin)
           cw == IF opts.saveWarmup THEN CeilDiv(opts.warmup, opts.thin) ELSE 0
           cs == CeilDiv(opts.samples, opts.thin)
<1>1. nw \in Nat /\ ns \in Nat
  BY OptionFacts, Ceiling
<1>2. IsFiniteSet(s) /\ Cardinality(s) = ns
  <2>1. s = {j \in 0 .. opts.samples - 1 : j % opts.thin = 0}
    BY DEF Keep
  <2> QED
    BY <2>1, OptionFacts, ThinnedCount
<1>3. IsFiniteSet(w) /\ Cardinality(w) = nw
  <2>1. CASE opts.saveWarmup
    <3>1. w = {j \in 0 .. opts.warmup - 1 : j % opts.thin = 0}
      BY <2>1 DEF Keep
    <3> QED
      BY <2>1, <3>1, OptionFacts, ThinnedCount
  <2>2. CASE ~opts.saveWarmup
    <3>1. w = {}
      BY <2>2 DEF Keep
    <3> QED
      BY <2>2, <3>1, FS_EmptySet
  <2> QED
    BY <2>1, <2>2
<1>4. AllKept = W \cup S
  BY DEF AllKept
<1>5. NStored \in Int /\ (SizesFit => NStored = nw + ns)
  <2>1. cs \in Int /\ (SizesFit => cs = ns)
    BY OptionFacts, CeilDivFacts DEF SizesFit
  <2>2. cw \in Int /\ (SizesFit => cw = nw)
    <3>1. CASE opts.saveWarmup
      BY <3>1, OptionFacts, CeilDivFacts DEF SizesFit
    <3>2. CASE ~opts.saveWarmup
      BY <3>2
    <3> QED
      BY <3>1, <3>2
  <2>3. NStored = cs + cw
    BY DEF NStored
  <2> HIDE DEF cs, cw, ns, nw
  <2> QED
    BY <1>1, <2>1, <2>2, <2>3
<1>6. W \cap S = {}
  <2>1. \A i, j : <<"warmup", i>> # <<"sampling", j>>
    OBVIOUS
  <2> QED
    BY <2>1
<1> HIDE DEF w, s, nw, ns
<1>7. IsFiniteSet(W) /\ Cardinality(W) = nw
  BY <1>3, Tagged
<1>8. IsFiniteSet(S) /\ Cardinality(S) = ns
  BY <1>2, Tagged
<1> HIDE DEF W, S
<1>9. IsFiniteSet(W \cup S) /\ Cardinality(W \cup S) = nw + ns - 0
  BY <1>6, <1>7, <1>8, FS_Union, FS_EmptySet
<1> QED
  BY <1>1, <1>4, <1>5, <1>9

(* No transition precedes the first, and none of sampling the warmup's. *)
LEMMA BeforeEnds ==
  ASSUME TypeOK
  PROVE  /\ Before(AllKept, <<"warmup", 0>>) = {}
         /\ Before(AllKept, <<"sampling", 0>>) = Before(AllKept, <<"warmup", opts.warmup>>)
         /\ Before(AllKept, <<"sampling", opts.samples>>) = AllKept
<1>1. Before(AllKept, <<"warmup", 0>>) = {}
  BY KeptMember DEF Before, Earlier, Sampling
<1>2. Before(AllKept, <<"sampling", 0>>) = Before(AllKept, <<"warmup", opts.warmup>>)
  <2> SUFFICES ASSUME NEW s \in AllKept
               PROVE  Earlier(s, <<"sampling", 0>>) <=> Earlier(s, <<"warmup", opts.warmup>>)
    BY DEF Before
  <2>1. PICK l \in Sampling, i \in Nat : s = <<l, i>> /\ i < Size(l)
    BY KeptMember
  <2> QED
    BY <2>1, OptionFacts DEF Earlier, Sampling, Size
<1>3. Before(AllKept, <<"sampling", opts.samples>>) = AllKept
  <2> SUFFICES ASSUME NEW s \in AllKept PROVE Earlier(s, <<"sampling", opts.samples>>)
    BY DEF Before
  <2>1. PICK l \in Sampling, i \in Nat : s = <<l, i>> /\ i < Size(l)
    BY KeptMember
  <2> QED
    BY <2>1 DEF Earlier, Sampling, Size
<1> QED
  BY <1>1, <1>2, <1>3

(* One transition further there is one more, if it is kept. *)
LEMMA BeforeStep ==
  ASSUME TypeOK, NEW l \in Sampling, NEW i \in Nat, i < Size(l)
  PROVE  /\ <<l, i>> \notin Before(AllKept, <<l, i>>)
         /\ <<l, i>> \in AllKept <=> Keep(l = "warmup", i)
         /\ Before(AllKept, <<l, i + 1>>) =
              IF Keep(l = "warmup", i) THEN Before(AllKept, <<l, i>>) \cup {<<l, i>>} ELSE Before(AllKept, <<l, i>>)
<1>1. <<l, i>> \in AllKept <=> Keep(l = "warmup", i)
  <2>1. ASSUME <<l, i>> \in AllKept PROVE Keep(l = "warmup", i)
    <3>1. PICK m \in Sampling, j \in Nat : <<l, i>> = <<m, j>> /\ Keep(m = "warmup", j)
      BY <2>1, KeptMember
    <3> QED
      BY <3>1
  <2> QED
    BY <2>1, KeptMember
<1>2. <<l, i>> \notin Before(AllKept, <<l, i>>)
  BY DEF Before, Earlier, Sampling
<1>3. ASSUME NEW s \in AllKept
      PROVE  Earlier(s, <<l, i + 1>>) <=> Earlier(s, <<l, i>>) \/ s = <<l, i>>
  <2>1. PICK m \in Sampling, j \in Nat : s = <<m, j>>
    BY <1>3, KeptMember
  <2>2. j < i + 1 <=> j < i \/ j = i
    OBVIOUS
  <2> QED
    BY <2>1, <2>2 DEF Earlier, Sampling
<1>4. \A s : s \in Before(AllKept, <<l, i + 1>>) <=>
        s \in Before(AllKept, <<l, i>>) \/ (s = <<l, i>> /\ Keep(l = "warmup", i))
  BY <1>1, <1>3 DEF Before
<1> QED
  BY <1>1, <1>2, <1>4

(* The number of rows grows with it. *)
LEMMA BeforeCount ==
  ASSUME TypeOK, NEW l \in Sampling, NEW i \in Nat, i < Size(l)
  PROVE  /\ Cardinality(Before(AllKept, <<l, i>>)) \in Nat
         /\ Cardinality(Before(AllKept, <<l, i + 1>>)) =
              Cardinality(Before(AllKept, <<l, i>>)) + (IF Keep(l = "warmup", i) THEN 1 ELSE 0)
<1>1. \A t : IsFiniteSet(Before(AllKept, t)) /\ Cardinality(Before(AllKept, t)) \in Nat
             /\ Cardinality(Before(AllKept, t)) <= Cardinality(AllKept)
  <2> SUFFICES ASSUME NEW t
               PROVE  IsFiniteSet(Before(AllKept, t)) /\ Cardinality(Before(AllKept, t)) \in Nat
                      /\ Cardinality(Before(AllKept, t)) <= Cardinality(AllKept)
    OBVIOUS
  <2>1. Before(AllKept, t) \in SUBSET AllKept
    BY DEF Before
  <2> QED
    BY <2>1, KeptCount, FS_Subset, FS_CardinalityType
<1>2. CASE Keep(l = "warmup", i)
  <2>1. /\ <<l, i>> \notin Before(AllKept, <<l, i>>)
        /\ Before(AllKept, <<l, i + 1>>) = Before(AllKept, <<l, i>>) \cup {<<l, i>>}
    BY <1>2, BeforeStep
  <2>2. Cardinality(Before(AllKept, <<l, i + 1>>)) = Cardinality(Before(AllKept, <<l, i>>)) + 1
    BY <1>1, <2>1, FS_AddElement
  <2> QED
    BY <1>1, <1>2, <2>2
<1>3. CASE ~Keep(l = "warmup", i)
  <2>1. Before(AllKept, <<l, i + 1>>) = Before(AllKept, <<l, i>>)
    BY <1>3, BeforeStep
  <2>2. Cardinality(Before(AllKept, <<l, i + 1>>)) = Cardinality(Before(AllKept, <<l, i>>)) + 0
    BY <1>1, <2>1
  <2> QED
    BY <1>1, <1>3, <2>2
<1> QED
  BY <1>2, <1>3

-----------------------------------------------------------------------------
(* The rows that the announced number has room for. *)
LEMMA TopFacts ==
  ASSUME TypeOK, NEW s \in Seq(Transitions)
  PROVE  /\ Top(s) \in Seq(Transitions) /\ Len(s) \in Nat /\ NStored \in Int
         /\ Len(Top(s)) = IF 1 <= Least(Len(s), NStored) THEN Least(Len(s), NStored) ELSE 0
         /\ \A k \in 1 .. Len(Top(s)) : k \in 1 .. Len(s) /\ Top(s)[k] = s[k]
<1> DEFINE n == Least(Len(s), NStored)
<1>1. Len(s) \in Nat /\ NStored \in Int
  BY LenProperties, KeptCount
<1>2. n \in Int /\ n <= Len(s)
  BY <1>1 DEF Least
<1>3. Top(s) = SubSeq(s, 1, n)
  BY DEF Top
<1> HIDE DEF n
<1>4. \A k \in 1 .. n : s[k] \in Transitions
  BY <1>1, <1>2, ElementOfSeq
<1>5. /\ SubSeq(s, 1, n) \in Seq(Transitions)
      /\ Len(SubSeq(s, 1, n)) = IF 1 <= n THEN n - 1 + 1 ELSE 0
      /\ \A k \in 1 .. n - 1 + 1 : SubSeq(s, 1, n)[k] = s[1 + k - 1]
  BY <1>2, <1>4, SubSeqProperties
<1>6. \A k \in 1 .. Len(Top(s)) : k \in 1 .. Len(s) /\ Top(s)[k] = s[k]
  BY <1>1, <1>2, <1>3, <1>5
<1> QED
  BY <1>1, <1>2, <1>3, <1>5, <1>6 DEF n

(* All of them, while there are no more than announced ... *)
LEMMA TopAll ==
  ASSUME TypeOK, NEW s \in Seq(Transitions), Len(s) <= NStored
  PROVE  Top(s) = s
<1>1. Len(Top(s)) = Len(s)
  BY TopFacts DEF Least
<1> QED
  BY <1>1, TopFacts, SeqEqual

(* ... and none of those that follow. *)
LEMMA TopAppend ==
  ASSUME TypeOK, NEW s \in Seq(Transitions), NEW h \in Transitions
  PROVE  Top(Append(s, h)) = IF Len(s) >= NStored THEN Top(s) ELSE Append(s, h)
<1> DEFINE a == Append(s, h)
<1>1. /\ a \in Seq(Transitions) /\ Len(a) = Len(s) + 1 /\ Len(s) \in Nat /\ NStored \in Int
      /\ \A k \in 1 .. Len(s) : a[k] = s[k]
  BY AppendProperties, LenProperties, KeptCount
<1> HIDE DEF a
<1>2. CASE Len(s) >= NStored
  <2>1. Least(Len(a), NStored) = NStored
    BY <1>1, <1>2 DEF Least
  <2>2. Least(Len(s), NStored) = NStored
    BY <1>1, <1>2 DEF Least
  <2>3. Len(Top(a)) = Len(Top(s))
    BY <1>1, <2>1, <2>2, TopFacts
  <2>4. \A k \in 1 .. Len(Top(s)) : k \in 1 .. Len(s) /\ Top(s)[k] = s[k]
    BY TopFacts
  <2>5. \A k \in 1 .. Len(Top(a)) : Top(a)[k] = a[k]
    BY <1>1, TopFacts
  <2>6. \A k \in 1 .. Len(Top(a)) : Top(a)[k] = Top(s)[k]
    BY <1>1, <2>3, <2>4, <2>5
  <2>7. Top(a) \in Seq(Transitions) /\ Top(s) \in Seq(Transitions)
    BY <1>1, TopFacts
  <2>8. Top(a) = Top(s)
    BY <2>3, <2>6, <2>7, SeqEqual
  <2> QED
    BY <1>2, <2>8 DEF a
<1>3. CASE ~(Len(s) >= NStored)
  <2>1. Len(a) <= NStored
    BY <1>1, <1>3
  <2> QED
    BY <1>1, <1>3, <2>1, TopAll DEF a
<1> QED
  BY <1>2, <1>3

(* Nothing of nothing. *)
LEMMA TopEmpty ==
  ASSUME TypeOK
  PROVE  Top(<<>>) = <<>>
<1>1. <<>> \in Seq(Transitions) /\ Len(<<>>) = 0
  BY EmptySeq
<1>2. Top(<<>>) \in Seq(Transitions) /\ Len(Top(<<>>)) = 0
  <2>1. NStored \in Int
    BY KeptCount
  <2>2. ~(1 <= Least(0, NStored))
    BY <2>1 DEF Least
  <2> QED
    BY <1>1, <2>2, TopFacts
<1> QED
  BY <1>2, EmptySeq

-----------------------------------------------------------------------------
(* The options are never assigned, and nothing that depends on them changes. *)
LEMMA OptionsStay ==
  ASSUME opts' = opts
  PROVE  /\ AllKept' = AllKept /\ NStored' = NStored /\ Threads' = Threads /\ Pool' = Pool
<1>1. \A w, i : Keep(w, i)' = Keep(w, i)
  BY DEF Keep
<1>2. AllKept' = AllKept
  BY DEF AllKept, Keep
<1>3. NStored' = NStored
  BY DEF NStored, CeilDiv, Quotient, IntOf
<1>4. Threads' = Threads /\ Pool' = Pool
  BY DEF Threads, Pool
<1> QED
  BY <1>2, <1>3, <1>4

(* No step assigns them. *)
LEMMA StepKeepsOptions ==
  ASSUME [Next]_vars
  PROVE  opts' = opts
  BY DEF Next, vars, Caller, Runner, Begin, Spawn, SpawnFails, Spawned, Poll, Wait, Observe, Join,
         Rethrow, CopyOut, Claim, InitChain, NextLoop, Check, Step, StepStores, StepThrows, Report, Leave

(* How many threads the pool has. *)
LEMMA ThreadFacts ==
  ASSUME TypeOK
  PROVE  /\ Threads \in Nat \ {0} /\ Threads <= Cardinality(Workers)
         /\ IsFiniteSet(Workers) /\ Cardinality(Workers) \in Nat
         /\ NChains \in Nat \ {0}
<1>1. IsFiniteSet(Workers) /\ Cardinality(Workers) \in Nat
  BY WorkersAssumption, FS_CardinalityType
<1> QED
  BY <1>1, OptionFacts, SizesAssumption DEF Threads

(* There are NChains chains. *)
LEMMA ChainCount ==
  ASSUME TypeOK
  PROVE  IsFiniteSet(Chains) /\ Cardinality(Chains) = NChains
<1>1. NChains \in Nat \ {0}
  BY ThreadFacts
<1>2. /\ IsFiniteSet(0 .. NChains - 1)
      /\ Cardinality(0 .. NChains - 1) = IF 0 > NChains - 1 THEN 0 ELSE (NChains - 1) - 0 + 1
  BY <1>1, FS_Interval
<1> QED
  BY <1>1, <1>2 DEF Chains

(* The workers that were started, and those that have left. *)
LEMMA BornFacts ==
  ASSUME TypeOK
  PROVE  /\ IsFiniteSet(Born) /\ IsFiniteSet(Gone) /\ Gone \subseteq Born /\ Born \subseteq Workers
         /\ Cardinality(Born) \in Nat /\ Cardinality(Gone) \in Nat
         /\ Cardinality(Gone) <= Cardinality(Born)
         /\ Cardinality(Gone) = Cardinality(Born) => Gone = Born
<1>1. Gone \subseteq Born /\ Born \subseteq Workers
  BY DEF Gone, Born
<1>2. IsFiniteSet(Born)
  BY <1>1, ThreadFacts, FS_Subset
<1>3. IsFiniteSet(Gone) /\ Cardinality(Gone) <= Cardinality(Born)
      /\ (Cardinality(Gone) = Cardinality(Born) => Gone = Born)
  BY <1>1, <1>2, FS_Subset
<1> QED
  BY <1>1, <1>2, <1>3, FS_CardinalityType

(* A worker that is about to leave is one of those that live counts. *)
LEMMA LeaverIsCounted ==
  ASSUME TypeOK, StageInv, LiveInv, NEW w \in Workers, pc[w] = "leave"
  PROVE  Pool /\ at # "begin" /\ live > 0
<1>1. Pool /\ at # "begin"
  BY DEF StageInv, Runners
<1>2. live + Cardinality(Gone) = Threads /\ Cardinality(Born) <= Threads
  BY <1>1 DEF LiveInv
<1>3. Gone # Born
  BY DEF Gone, Born
<1> QED
  BY <1>1, <1>2, <1>3, BornFacts, ThreadFacts DEF TypeOK

(* As long as the pool is short of a thread there is a worker to start. *)
LEMMA SpawnHasAWorker ==
  ASSUME TypeOK, Cardinality(Born) < Threads
  PROVE  /\ (CHOOSE w \in Workers : pc[w] = "unborn") \in Workers
         /\ pc[CHOOSE w \in Workers : pc[w] = "unborn"] = "unborn"
<1>1. \E w \in Workers : pc[w] = "unborn"
  <2> SUFFICES ASSUME Born = Workers PROVE FALSE
    BY DEF Born
  <2> QED
    BY BornFacts, ThreadFacts
<1> QED
  BY <1>1

(* A stage of the calling thread has its facts, and a runner at work too. *)
LEMMA RowRoom ==
  ASSUME TypeOK, RunnerInv, RowsInv, PlaceInv,
         NEW r \in Runners, pc[r] = "step"
  PROVE  LET c == job[r]
         IN /\ c \in Chains /\ phase[c] \in Sampling
            /\ iter[c] \in Nat /\ iter[c] < Size(phase[c])
            /\ stored[c] = Len(rows[c]) /\ values[c] = Top(rows[c])
            /\ Len(rows[c]) = Cardinality(Before(AllKept, Here(c)))
            /\ Cardinality(Before(AllKept, <<phase[c], iter[c] + 1>>)) =
                 Len(rows[c]) + (IF Keep(phase[c] = "warmup", iter[c]) THEN 1 ELSE 0)
<1> DEFINE c == job[r]
<1>1. c \in Chains /\ phase[c] \in Sampling
  BY DEF RunnerInv, Active
<1>2. iter[c] \in Nat /\ iter[c] < Size(phase[c])
  BY <1>1 DEF PlaceInv, PlaceOK, Limit, Size, TypeOK
<1>3. stored[c] = Len(rows[c]) /\ values[c] = Top(rows[c])
  BY <1>1 DEF RowsInv, RowOK, Sampling
<1>4. Len(rows[c]) = Cardinality(Before(AllKept, Here(c)))
  BY DEF PlaceInv, PlaceOK, Here
<1> HIDE DEF c
<1> DEFINE l == phase[c]
           i == iter[c]
<1>5. l \in Sampling /\ i \in Nat /\ i < Size(l)
  BY <1>1, <1>2
<1>6. Here(c) = <<l, i>>
  BY DEF Here
<1> HIDE DEF l, i
<1>7. Cardinality(Before(AllKept, <<l, i + 1>>)) =
        Cardinality(Before(AllKept, <<l, i>>)) + (IF Keep(l = "warmup", i) THEN 1 ELSE 0)
  BY <1>5, BeforeCount
<1> QED
  BY <1>1, <1>2, <1>3, <1>4, <1>6, <1>7 DEF c, l, i

-----------------------------------------------------------------------------
(* The steps with their conditionals resolved: the form the proofs split on. *)

BeginAlone ==
  /\ at = "begin" /\ ~Pool /\ at' = "loop" /\ pc' = [pc EXCEPT ![Main] = "claim"]
  /\ UNCHANGED <<opts, next, job, chain, stop, queue, buffers>>

BeginPool ==
  /\ at = "begin" /\ Pool /\ at' = "spawn" /\ live' = Threads /\ stop' \in BOOLEAN
  /\ UNCHANGED <<opts, next, pc, job, chain, events, event, progressError, owed, ordered, buffers>>

SpawnOne(w) ==
  /\ at = "spawn" /\ Cardinality(Born) < Threads
  /\ pc[w] = "unborn" /\ pc' = [pc EXCEPT ![w] = "claim"]
  /\ UNCHANGED <<opts, at, next, job, chain, stop, queue, buffers>>

(* A step of the caller that only moves on: to l, when P. *)
Moves(k, l, P) ==
  /\ at = k /\ P /\ at' = l /\ stop' \in BOOLEAN
  /\ UNCHANGED <<opts, next, pc, job, chain, queue, buffers>>

Idle == events = <<>> /\ live # 0
Drained == events = <<>> /\ live = 0
BornExited == \A w \in Born : pc[w] = "exited"

CallerMoves ==
  \/ Moves("spawn", "poll", Cardinality(Born) = Threads)
  \/ Moves("spawn", "join", Cardinality(Born) = Threads /\ ~opts.progress)
  \/ Moves("poll", "wait", TRUE)
  \/ Moves("wait", "poll", Idle)
  \/ Moves("wait", "join", Drained)
  \/ Moves("join", "rethrow", BornExited)
  \/ Moves("rethrow", "copy", ~progressError)
  \/ Moves("rethrow", "threw", progressError)

Takes ==
  /\ at = "wait" /\ events # <<>> /\ at' = "observe"
  /\ event' = <<Head(events)>> /\ events' = Tail(events)
  /\ UNCHANGED <<opts, next, pc, job, chain, stop, live, progressError, owed, ordered, buffers>>

Observes ==
  /\ at = "observe" /\ ~progressError /\ at' = "poll"
  /\ CallObserver(event[1], owed) /\ event' = <<>>
  /\ UNCHANGED <<opts, next, pc, job, chain, stop, events, live, buffers>>

Discards ==
  /\ at = "observe" /\ progressError /\ at' = "poll" /\ event' = <<>>
  /\ UNCHANGED <<opts, next, pc, job, chain, stop, events, live, progressError, owed, ordered, buffers>>

ClaimsOne(r) ==
  /\ pc[r] = "claim" /\ next < NChains /\ next' = next + 1
  /\ job' = [job EXCEPT ![r] = next] /\ phase' = [phase EXCEPT ![next] = "init"]
  /\ pc' = [pc EXCEPT ![r] = "init"]
  /\ UNCHANGED <<opts, at, iter, rows, stored, interrupted, stop, queue, buffers>>

ClaimsNone(r) ==
  /\ pc[r] = "claim" /\ next >= NChains /\ next' = next + 1
  /\ job' = [job EXCEPT ![r] = None] /\ pc' = [pc EXCEPT ![r] = "leave"]
  /\ UNCHANGED <<opts, at, chain, stop, queue, buffers>>

MainDone ==
  /\ pc[Main] = "claim" /\ next >= NChains /\ next' = next + 1
  /\ job' = [job EXCEPT ![Main] = None] /\ pc' = [pc EXCEPT ![Main] = "exited"] /\ at' = "rethrow"
  /\ UNCHANGED <<opts, chain, stop, queue, buffers>>

Fails(r, c) ==
  /\ pc[r] \in {"init", "step"} /\ pc' = [pc EXCEPT ![r] = "claim"]
  /\ phase' = [phase EXCEPT ![c] = "failed"] /\ rows' = [rows EXCEPT ![c] = <<>>]
  /\ iter' = [iter EXCEPT ![c] = 0] /\ stored' = [stored EXCEPT ![c] = 0]
  /\ UNCHANGED <<opts, at, next, job, interrupted, stop, queue, buffers>>

WarmsUp(r, c) ==
  /\ pc[r] = "init" /\ pc' = [pc EXCEPT ![r] = "check"]
  /\ phase' = [phase EXCEPT ![c] = "warmup"]
  /\ UNCHANGED <<opts, at, next, job, iter, rows, stored, interrupted, stop, queue, buffers>>

StartsSampling(r, c) ==
  /\ pc[r] = "check" /\ phase[c] = "warmup" /\ iter[c] = opts.warmup
  /\ phase' = [phase EXCEPT ![c] = "sampling"] /\ iter' = [iter EXCEPT ![c] = 0]
  /\ UNCHANGED <<opts, at, next, pc, job, rows, stored, interrupted, stop, queue, buffers>>

(* The chain returns what it has, stopped (i) or at its end. *)
Returns(r, c, i) ==
  /\ pc[r] = "check" /\ pc' = [pc EXCEPT ![r] = "claim"]
  /\ ~i => phase[c] # "warmup" /\ iter[c] = opts.samples
  /\ phase' = [phase EXCEPT ![c] = "done"]
  /\ iter' = [iter EXCEPT ![c] = 0] /\ stored' = [stored EXCEPT ![c] = 0]
  /\ interrupted' = [interrupted EXCEPT ![c] = i \/ interrupted[c]] /\ stop' \in BOOLEAN
  /\ UNCHANGED <<opts, at, next, job, rows, queue, buffers>>

GoesOn(r, c) ==
  /\ pc[r] = "check" /\ pc' = [pc EXCEPT ![r] = "step"] /\ iter[c] # Limit(c) /\ stop' \in BOOLEAN
  /\ UNCHANGED <<opts, at, next, job, chain, queue, buffers>>

Drops(r, c) ==
  /\ pc[r] = "step" /\ pc' = [pc EXCEPT ![r] = "report"] /\ ~Keep(phase[c] = "warmup", iter[c])
  /\ UNCHANGED <<opts, at, next, job, chain, stop, queue, buffers>>

Stores(r, c) ==
  /\ pc[r] = "step" /\ pc' = [pc EXCEPT ![r] = "report"] /\ Keep(phase[c] = "warmup", iter[c])
  /\ rows' = [rows EXCEPT ![c] = Append(rows[c], Here(c))]
  /\ values' = [values EXCEPT ![c] = Top(Append(rows[c], Here(c)))]
  /\ stored' = [stored EXCEPT ![c] = @ + 1]
  /\ UNCHANGED <<opts, at, next, job, phase, iter, interrupted, stop, queue, draws, result>>

(* A transition is over: without a report, with one of the caller's own, with *)
(* one that is queued.                                                       *)
Advances(r, c) ==
  /\ pc[r] = "report" /\ pc' = [pc EXCEPT ![r] = "check"] /\ iter' = [iter EXCEPT ![c] = @ + 1]
  /\ UNCHANGED <<opts, at, next, job, phase, rows, stored, interrupted, stop, live, event, buffers>>
Silent == UNCHANGED <<events, progressError, owed, ordered>>
Told(c) ==
  /\ opts.progress /\ CallObserver(<<c, Here(c)>>, Append(owed, <<c, Here(c)>>)) /\ UNCHANGED events
Enqueued(c) ==
  /\ opts.progress /\ events' = Append(events, <<c, Here(c)>>) /\ owed' = Append(owed, <<c, Here(c)>>)
  /\ UNCHANGED <<ordered, progressError>>

Leaves(w) ==
  /\ pc[w] = "leave" /\ live' = live - 1 /\ pc' = [pc EXCEPT ![w] = "exited"]
  /\ UNCHANGED <<opts, at, next, job, chain, stop, events, event, progressError, owed, ordered, buffers>>

(* What a runner does with its chain. *)
Works(r, c) ==
  \/ Fails(r, c) \/ WarmsUp(r, c) \/ StartsSampling(r, c) \/ (\E i \in BOOLEAN : Returns(r, c, i))
  \/ GoesOn(r, c) \/ Drops(r, c) \/ Stores(r, c)
  \/ Advances(r, c) /\ Silent
  \/ r = Main /\ Advances(r, c) /\ Told(c)
  \/ r # Main /\ Advances(r, c) /\ Enqueued(c)

Steps ==
  \/ BeginAlone \/ BeginPool \/ (\E w \in Workers : SpawnOne(w)) \/ CallerMoves
  \/ Takes \/ Observes \/ Discards \/ CopyOut
  \/ (\E r \in Runners : ClaimsOne(r)) \/ (\E w \in Workers : ClaimsNone(w)) \/ MainDone
  \/ (\E w \in Workers : Leaves(w))
  \/ \E r \in Runners : pc[r] \in Active /\ job[r] \in Chains /\ phase[job[r]] \in Sampling \cup {"init"} /\ Works(r, job[r])

-----------------------------------------------------------------------------
(* The calling thread's steps are among those. *)
LEMMA CallerSteps ==
  ASSUME TypeOK, ~Over, Caller
  PROVE  Steps
<1>1. CASE Begin
  <2>1. Threads \in Nat \ {0}
    BY ThreadFacts
  <2>2. CASE Threads <= 1
    <3>1. BeginAlone
      BY <1>1, <2>1, <2>2 DEF Begin, BeginAlone, Pool, Goto, chain, queue, buffers
    <3> QED
      BY <3>1 DEF Steps
  <2>3. CASE ~(Threads <= 1)
    <3>0. Pool
      BY <2>1, <2>3 DEF Pool
    <3>3. stop' \in (IF opts.poll THEN BOOLEAN ELSE {FALSE})
      BY <1>1, <2>3 DEF Begin
    <3>2. stop' \in BOOLEAN
      BY <3>3
    <3>1. BeginPool
      BY <1>1, <2>3, <3>0, <3>2 DEF Begin, BeginPool
    <3> QED
      BY <3>1 DEF Steps
  <2> QED
    BY <2>2, <2>3
<1>2. CASE Spawn
  <2> DEFINE w == CHOOSE v \in Workers : pc[v] = "unborn"
  <2>1. w \in Workers /\ pc[w] = "unborn"
    BY <1>2, SpawnHasAWorker DEF Spawn
  <2>2. at = "spawn" /\ Cardinality(Born) < Threads /\ pc' = [pc EXCEPT ![w] = "claim"]
        /\ UNCHANGED <<opts, at, next, job, chain, stop, queue, buffers>>
    BY <1>2 DEF Spawn, Goto
  <2> HIDE DEF w
  <2>3. SpawnOne(w)
    BY <2>1, <2>2 DEF SpawnOne
  <2> QED
    BY <2>1, <2>3 DEF Steps
<1>3. CASE Spawned \/ Poll \/ Join \/ Rethrow
  <2>1. CallerMoves
    BY <1>3 DEF Spawned, Poll, Join, Rethrow, CallerMoves, Moves, BornExited, TypeOK
  <2> QED
    BY <2>1 DEF Steps
<1>4. CASE Wait
  <2>1. CASE events # <<>>
    <3>1. Takes
      BY <1>4, <2>1 DEF Wait, Takes
    <3> QED
      BY <3>1 DEF Steps
  <2>2. CASE events = <<>>
    <3>1. CallerMoves
      BY <1>4, <2>2 DEF Wait, CallerMoves, Moves, Idle, Drained, TypeOK, queue
    <3> QED
      BY <3>1 DEF Steps
  <2> QED
    BY <2>1, <2>2
<1>5. CASE Observe
  <2>1. Observes \/ Discards
    BY <1>5 DEF Observe, Observes, Discards, TypeOK
  <2> QED
    BY <2>1 DEF Steps
<1>6. CASE CopyOut
  BY <1>6 DEF Steps
<1> QED
  BY <1>1, <1>2, <1>3, <1>4, <1>5, <1>6 DEF Caller

(* A runner's steps are, too. *)
LEMMA RunnerSteps ==
  ASSUME TypeOK, ~Over, StageInv, LiveInv, RunnerInv, RowsInv, PlaceInv, QueueInv,
         NEW r \in Runners, Runner(r)
  PROVE  Steps
<1> DEFINE c == job[r]
<1>1. CASE Claim(r)
  <2>1. CASE next < NChains
    <3>1. ClaimsOne(r)
      BY <1>1, <2>1 DEF Claim, ClaimsOne, Goto
    <3> QED
      BY <3>1 DEF Steps
  <2>2. CASE ~(next < NChains)
    <3>1. next >= NChains
      BY <2>2, ThreadFacts DEF TypeOK
    <3>2. CASE r = Main
      <4>1. MainDone
        BY <1>1, <2>2, <3>1, <3>2 DEF Claim, MainDone, Goto, chain
      <4> QED
        BY <4>1 DEF Steps
    <3>3. CASE r # Main
      <4>1. ClaimsNone(r) /\ r \in Workers
        BY <1>1, <2>2, <3>1, <3>3 DEF Claim, ClaimsNone, Goto, chain, Runners
      <4> QED
        BY <4>1 DEF Steps
    <3> QED
      BY <3>2, <3>3
  <2> QED
    BY <2>1, <2>2
<1>2. CASE Leave(r)
  <2>1. r \in Workers /\ Leaves(r)
    BY <1>2 DEF Leave, Leaves, Goto, StageInv, Runners
  <2> QED
    BY <2>1 DEF Steps
<1> DEFINE Old == pc[r] \in Active /\ c \in Chains /\ phase[c] \in Sampling \cup {"init"}
<1>3. pc[r] \in Active => Old
  BY DEF RunnerInv
<1> SUFFICES ASSUME ~Claim(r), ~Leave(r)
             PROVE  pc[r] \in Active /\ Works(r, c)
  BY <1>1, <1>2, <1>3 DEF Steps
<1> HIDE DEF c
<1>4. CASE InitChain(r)
  <2>1. Fails(r, c) \/ WarmsUp(r, c)
    BY <1>4 DEF InitChain, ChainThrows, LocalsEnd, Goto, Fails, WarmsUp, c
  <2> QED
    BY <1>4, <2>1 DEF InitChain, Active, Works
<1>5. CASE NextLoop(r)
  <2>0. c \in Chains /\ interrupted \in [Chains -> BOOLEAN]
    BY <1>3, <1>5 DEF NextLoop, Active, TypeOK
  <2>1. CASE phase[c] = "warmup"
    <3>1. StartsSampling(r, c)
      BY <1>5, <2>1 DEF NextLoop, LoopEnd, StartsSampling, c
    <3> QED
      BY <1>5, <3>1 DEF NextLoop, Active, Works
  <2>2. CASE phase[c] # "warmup"
    <3>1. interrupted = [interrupted EXCEPT ![c] = FALSE \/ interrupted[c]]
      BY <2>0
    <3>2. interrupted' = interrupted /\ stop' = stop /\ stop \in BOOLEAN
      BY <1>5 DEF NextLoop, TypeOK
    <3>3. Returns(r, c, FALSE)
      BY <1>5, <2>2, <3>1, <3>2 DEF NextLoop, LoopEnd, LocalsEnd, Returns, Goto, c
    <3> QED
      BY <1>5, <3>3 DEF NextLoop, Active, Works
  <2> QED
    BY <2>1, <2>2
<1>6. ASSUME NEW answer \in BOOLEAN, Check(r, answer) PROVE pc[r] \in Active /\ Works(r, c)
  <2>0. pc[r] \in Active /\ stop' \in BOOLEAN
    BY <1>6 DEF Check, Active, TypeOK
  <2>1. CASE stop \/ answer
    <3>1. Returns(r, c, TRUE)
      BY <1>6, <2>0, <2>1 DEF Check, LocalsEnd, Returns, Goto, c
    <3> QED
      BY <2>0, <3>1 DEF Works
  <2>2. CASE ~(stop \/ answer)
    <3>1. GoesOn(r, c)
      BY <1>6, <2>0, <2>2 DEF Check, LoopEnd, GoesOn, Limit, Goto, chain, c
    <3> QED
      BY <2>0, <3>1 DEF Works
  <2> QED
    BY <2>1, <2>2
<1>7. CASE Step(r)
  <2>1. Drops(r, c)
    BY <1>7 DEF Step, Drops, Goto, c
  <2> QED
    BY <1>7, <2>1 DEF Step, Active, Works
<1>8. CASE StepStores(r)
  <2>1. pc[r] = "step" /\ Keep(phase[c] = "warmup", iter[c])
    BY <1>8 DEF StepStores, c
  <2>0. c \in Chains /\ values[c] = Top(rows[c]) /\ stored[c] = Len(rows[c]) /\ phase[c] \in Sampling /\ iter[c] \in Nat
    BY <2>1, RowRoom DEF c
  <2>2. /\ rows[c] \in Seq(Transitions) /\ values \in [Chains -> Seq(Transitions)] /\ Here(c) \in Transitions
        /\ Len(rows[c]) \in Nat
    BY <2>0, LenProperties DEF TypeOK, Here, Transitions, Sampling
  <2>3. Top(Append(rows[c], Here(c))) = IF Len(rows[c]) >= NStored THEN Top(rows[c]) ELSE Append(rows[c], Here(c))
    BY <2>2, TopAppend
  <2>6. values' = [values EXCEPT ![c] = Top(Append(rows[c], Here(c)))]
    <3>1. CASE stored[c] >= NStored
      <4>1. values' = values /\ Top(Append(rows[c], Here(c))) = values[c]
        BY <1>8, <2>0, <2>3, <3>1 DEF StepStores, c
      <4> QED
        BY <2>0, <2>2, <4>1
    <3>2. CASE ~(stored[c] >= NStored)
      <4>1. Top(rows[c]) = rows[c]
        <5>1. Len(rows[c]) <= NStored
          BY <2>0, <2>2, <3>2, KeptCount
        <5> QED
          BY <2>2, <5>1, TopAll
      <4>2. [k \in 1 .. stored[c] + 1 |-> IF k = stored[c] + 1 THEN Here(c) ELSE values[c][k]]
              = Append(rows[c], Here(c))
        BY <2>0, <2>2, <4>1, AppendProperties, LenProperties
      <4>3. values' = [values EXCEPT ![c] = [k \in 1 .. stored[c] + 1 |-> IF k = stored[c] + 1 THEN Here(c) ELSE values[c][k]]]
        BY <1>8, <2>0, <2>2, <3>2 DEF StepStores, c
      <4> QED
        BY <2>0, <2>3, <3>2, <4>2, <4>3
    <3> QED
      BY <3>1, <3>2
  <2>7. rows' = [rows EXCEPT ![c] = Append(rows[c], Here(c))]
    BY <1>8, <2>0 DEF StepStores, c, TypeOK
  <2>8. Stores(r, c)
    BY <1>8, <2>1, <2>6, <2>7 DEF StepStores, Stores, Goto, c
  <2> QED
    BY <2>1, <2>8 DEF Active, Works
<1>9. CASE StepThrows(r)
  <2>1. Fails(r, c)
    BY <1>9 DEF StepThrows, ChainThrows, LocalsEnd, Goto, Fails, c
  <2> QED
    BY <1>9, <2>1 DEF StepThrows, Active, Works
<1>10. CASE Report(r)
  <2>1. Advances(r, c)
    BY <1>10 DEF Report, Advances, Goto, c
  <2>2. Silent \/ (r = Main /\ Told(c)) \/ (r # Main /\ Enqueued(c))
    BY <1>10 DEF Report, Silent, Told, Enqueued, c
  <2> QED
    BY <1>10, <2>1, <2>2 DEF Report, Active, Works
<1> QED
  BY <1>4, <1>5, <1>6, <1>7, <1>8, <1>9, <1>10 DEF Runner

-----------------------------------------------------------------------------
Good == StageInv /\ LiveInv /\ RunnerInv /\ RowsInv /\ PlaceInv /\ QueueInv

(* A runner has the chain c in hand. *)
Hand(r, c) == pc[r] \in Active /\ job[r] = c /\ phase[c] \in Sampling \cup {"init"}

(* A chain at its transitions is in one of its two loops. *)
LEMMA HandFacts ==
  ASSUME TypeOK, Good, NEW r \in Runners, NEW c \in Chains, Hand(r, c)
  PROVE  /\ pc[r] = "init" => phase[c] = "init"
         /\ pc[r] # "init" => phase[c] \in {"warmup", "sampling"}
  BY DEF Good, RunnerInv, Hand, Sampling

(* The event that is observed is one of a chain's. *)
LEMMA EventInHand ==
  ASSUME TypeOK, Good, at = "observe"
  PROVE  Len(event) = 1 /\ event = <<event[1]>> /\ event[1][1] \in Chains
<1>1. Len(event) = 1
  BY DEF Good, QueueInv
<1>2. event \in Seq(Event)
  BY DEF TypeOK
<1>3. event[1] \in Event /\ event = <<event[1]>>
  BY <1>1, <1>2, LenProperties
<1> QED
  BY <1>1, <1>3 DEF Event

(* Types are kept. *)
LEMMA TypeStep ==
  ASSUME TypeOK, OneRunner, ~Over, Good, Steps
  PROVE  TypeOK'
<1>1. CASE BeginAlone
  BY <1>1 DEF BeginAlone, TypeOK, Runners, chain, queue, buffers
<1>2. CASE BeginPool
  <2>1. Threads \in 0 .. Cardinality(Workers)
    BY ThreadFacts
  <2> QED
    BY <1>2, <2>1 DEF BeginPool, TypeOK, chain, queue, buffers
<1>3. ASSUME NEW w \in Workers, SpawnOne(w) PROVE TypeOK'
  BY <1>3 DEF SpawnOne, TypeOK, Runners, chain, queue, buffers
<1>4. CASE CallerMoves
  BY <1>4 DEF CallerMoves, Moves, TypeOK, Runners, chain, queue, buffers
<1>5. CASE Takes
  <2>1. <<Head(events)>> \in Seq(Event) /\ Tail(events) \in Seq(Event)
    BY <1>5, HeadTailProperties DEF Takes, TypeOK
  <2> QED
    BY <1>5, <2>1 DEF Takes, TypeOK, chain, queue, buffers
<1>6. CASE Observes
  <2>1. event[1][1] \in Chains
    BY <1>6, EventInHand DEF Observes
  <2>2. owed \in Seq(Event) /\ ordered \in BOOLEAN
    BY DEF TypeOK
  <2>3. owed' \in Seq(Event) /\ ordered' \in BOOLEAN /\ progressError' \in BOOLEAN
    <3>1. CallObserver(event[1], owed)
      BY <1>6 DEF Observes
    <3> QED
      BY <2>2, <3>1, HeadTailProperties DEF CallObserver
  <2>4. event' \in Seq(Event)
    BY <1>6, EmptySeq DEF Observes
  <2>5. at' = "poll" /\ events' = events /\ live' = live
        /\ UNCHANGED <<opts, next, pc, job, chain, stop, buffers>>
    BY <1>6 DEF Observes
  <2> QED
    BY <2>3, <2>4, <2>5 DEF TypeOK, chain, queue, buffers
<1>7. CASE Discards
  BY <1>7 DEF Discards, TypeOK, Runners, chain, queue, buffers
<1>8. CASE CopyOut
  <2>1. \A c \in Chains : SubSeq(rows[c], 1, Least(Len(rows[c]), NStored)) \in Seq(Transitions)
    <3>1. \A c \in Chains : rows[c] \in Seq(Transitions)
      BY DEF TypeOK
    <3> QED
      BY <3>1, TopFacts DEF Top
  <2>2. Cardinality(Failed) \in 0 .. NChains
    <3>1. Failed \subseteq Chains
      BY DEF Failed
    <3> QED
      BY <3>1, ChainCount, FS_Subset, FS_CardinalityType, ThreadFacts
  <2>3. draws' \in [Chains -> Seq(Transitions)]
    BY <1>8, <2>1 DEF CopyOut, TypeOK
  <2>4. result' \in [failed : 0 .. NChains, interrupted : BOOLEAN]
    BY <1>8, <2>2 DEF CopyOut, TypeOK
  <2> QED
    BY <1>8, <2>3, <2>4 DEF CopyOut, TypeOK, chain, queue, buffers
<1>9. ASSUME NEW r \in Runners, ClaimsOne(r) PROVE TypeOK'
  <2>1. next \in Chains /\ next' \in Nat
    <3>1. NChains \in Nat /\ next \in Nat /\ next < NChains /\ next' = next + 1
      BY <1>9, ThreadFacts DEF ClaimsOne, TypeOK
    <3> QED
      BY <3>1 DEF Chains
  <2> QED
    BY <1>9, <2>1 DEF ClaimsOne, TypeOK, chain, queue, buffers
<1>10. ASSUME NEW w \in Workers, ClaimsNone(w) PROVE TypeOK'
  BY <1>10 DEF ClaimsNone, TypeOK, Runners, chain, queue, buffers
<1>11. CASE MainDone
  BY <1>11 DEF MainDone, TypeOK, Runners, chain, queue, buffers
<1>12. ASSUME NEW w \in Workers, Leaves(w) PROVE TypeOK'
  <2>1. live > 0
    BY <1>12, LeaverIsCounted DEF Leaves, Good
  <2>2. live \in 0 .. Cardinality(Workers) /\ Cardinality(Workers) \in Nat
    BY ThreadFacts DEF TypeOK
  <2>3. live' \in 0 .. Cardinality(Workers)
    BY <1>12, <2>1, <2>2 DEF Leaves
  <2> QED
    BY <1>12, <2>3 DEF Leaves, Runners, TypeOK, chain, queue, buffers
<1>13. ASSUME NEW r \in Runners, NEW c \in Chains, Hand(r, c), Fails(r, c)
      PROVE  TypeOK'
  <2>1. rows' \in [Chains -> Seq(Transitions)]
    <3>1. <<>> \in Seq(Transitions)
      BY EmptySeq
    <3> QED
      BY <1>13, <3>1 DEF Fails, TypeOK
  <2>2. iter' \in [Chains -> Nat] /\ stored' \in [Chains -> Nat]
    BY <1>13 DEF Fails, TypeOK
  <2>3. phase' \in [Chains -> {"todo", "init", "warmup", "sampling", "done", "failed"}]
    BY <1>13 DEF Fails, TypeOK
  <2>4. pc' \in [Runners -> {"unborn", "claim", "init", "check", "step", "report", "leave", "exited"}]
    BY <1>13 DEF Fails, TypeOK
  <2> QED
    BY <1>13, <2>1, <2>2, <2>3, <2>4 DEF Fails, TypeOK, queue, buffers
<1>14. ASSUME NEW r \in Runners, NEW c \in Chains, Hand(r, c), WarmsUp(r, c)
      PROVE  TypeOK'
  BY <1>14 DEF WarmsUp, TypeOK, Runners, chain, queue, buffers
<1>15. ASSUME NEW r \in Runners, NEW c \in Chains, Hand(r, c), StartsSampling(r, c)
      PROVE  TypeOK'
  BY <1>15 DEF StartsSampling, TypeOK, Runners, chain, queue, buffers
<1>16. ASSUME NEW r \in Runners, NEW c \in Chains, Hand(r, c), NEW i \in BOOLEAN, Returns(r, c, i)
      PROVE  TypeOK'
  BY <1>16 DEF Returns, TypeOK, Runners, chain, queue, buffers
<1>17. ASSUME NEW r \in Runners, NEW c \in Chains, Hand(r, c), GoesOn(r, c)
      PROVE  TypeOK'
  BY <1>17 DEF GoesOn, TypeOK, Runners, chain, queue, buffers
<1>18. ASSUME NEW r \in Runners, NEW c \in Chains, Hand(r, c), Drops(r, c)
      PROVE  TypeOK'
  BY <1>18 DEF Drops, TypeOK, Runners, chain, queue, buffers
<1>19. ASSUME NEW r \in Runners, NEW c \in Chains, Hand(r, c), Stores(r, c)
      PROVE  TypeOK'
  <2>1. Here(c) \in Transitions
    BY <1>19, HandFacts DEF Stores, Here, Transitions, TypeOK
  <2>2. Append(rows[c], Here(c)) \in Seq(Transitions) /\ Top(Append(rows[c], Here(c))) \in Seq(Transitions)
    BY <2>1, AppendProperties, TopFacts DEF TypeOK
  <2>3. rows' \in [Chains -> Seq(Transitions)] /\ values' \in [Chains -> Seq(Transitions)]
    BY <1>19, <2>2 DEF Stores, TypeOK
  <2>4. stored' \in [Chains -> Nat]
    BY <1>19 DEF Stores, TypeOK
  <2>5. pc' \in [Runners -> {"unborn", "claim", "init", "check", "step", "report", "leave", "exited"}]
    BY <1>19 DEF Stores, TypeOK
  <2> QED
    BY <1>19, <2>3, <2>4, <2>5 DEF Stores, TypeOK, chain, queue, buffers
<1>20. ASSUME NEW r \in Runners, NEW c \in Chains, Hand(r, c), Advances(r, c),
             Silent \/ (r = Main /\ Told(c)) \/ (r # Main /\ Enqueued(c))
      PROVE  TypeOK'
  <2>1. <<c, Here(c)>> \in Event
    BY <1>20, HandFacts DEF Advances, Here, Transitions, Event, TypeOK
  <2>2. Append(events, <<c, Here(c)>>) \in Seq(Event) /\ Append(owed, <<c, Here(c)>>) \in Seq(Event)
    BY <2>1, AppendProperties DEF TypeOK
  <2>3. owed \in Seq(Event) /\ ordered \in BOOLEAN /\ events \in Seq(Event) /\ progressError \in BOOLEAN
    BY DEF TypeOK
  <2>4. /\ owed' \in Seq(Event) /\ ordered' \in BOOLEAN
        /\ events' \in Seq(Event) /\ progressError' \in BOOLEAN
    <3>1. CASE Silent
      BY <3>1, <2>3 DEF Silent
    <3>2. CASE Told(c)
      BY <3>2, <2>2, <2>3, HeadTailProperties DEF Told, CallObserver
    <3>3. CASE Enqueued(c)
      BY <3>3, <2>2, <2>3 DEF Enqueued
    <3> QED
      BY <1>20, <3>1, <3>2, <3>3
  <2>5. iter' \in [Chains -> Nat]
    BY <1>20 DEF Advances, TypeOK
  <2>6. pc' \in [Runners -> {"unborn", "claim", "init", "check", "step", "report", "leave", "exited"}]
    BY <1>20 DEF Advances, TypeOK
  <2> QED
    BY <1>20, <2>4, <2>5, <2>6 DEF Advances, TypeOK, chain, queue, buffers
<1>21. ASSUME NEW r \in Runners, pc[r] \in Active, job[r] \in Chains, phase[job[r]] \in Sampling \cup {"init"}, Works(r, job[r])
      PROVE  TypeOK'
  <2>1. Hand(r, job[r])
    BY <1>21 DEF Hand
  <2> QED
    BY <1>21, <2>1, <1>13, <1>14, <1>15, <1>16, <1>17, <1>18, <1>19, <1>20 DEF Works
<1> QED
  BY <1>1, <1>2, <1>3, <1>4, <1>5, <1>6, <1>7, <1>8, <1>9, <1>10, <1>11, <1>12, <1>21 DEF Steps

(* A chain is claimed once: the cursor has passed it. *)
LEMMA OneRunnerStep ==
  ASSUME TypeOK, OneRunner, ~Over, Good, opts' = opts, Steps
  PROVE  OneRunner'
<1>1. CASE BeginAlone
  BY <1>1 DEF BeginAlone, OneRunner
<1>2. CASE BeginPool
  BY <1>2 DEF BeginPool, OneRunner
<1>3. ASSUME NEW w \in Workers, SpawnOne(w) PROVE OneRunner'
  BY <1>3 DEF SpawnOne, OneRunner
<1>4. CASE CallerMoves
  BY <1>4 DEF CallerMoves, Moves, OneRunner
<1>5. CASE Takes
  BY <1>5 DEF Takes, OneRunner
<1>6. CASE Observes
  BY <1>6 DEF Observes, OneRunner
<1>7. CASE Discards
  BY <1>7 DEF Discards, OneRunner
<1>8. CASE CopyOut
  BY <1>8 DEF CopyOut, OneRunner
<1>9. ASSUME NEW r \in Runners, ClaimsOne(r) PROVE OneRunner'
  <2>1. next \in Int /\ \A s \in Runners : job[s] # None => job[s] \in Int /\ job[s] < next
    <3>1. \A s \in Runners : job[s] # None => job[s] \in Chains /\ job[s] < next
      BY DEF Good, RunnerInv, TypeOK
    <3>2. NChains \in Nat /\ next \in Int
      BY ThreadFacts DEF TypeOK
    <3> QED
      BY <3>1, <3>2 DEF Chains
  <2>2. job \in [Runners -> Chains \cup {None}] /\ job' = [job EXCEPT ![r] = next]
    BY <1>9 DEF ClaimsOne, TypeOK
  <2> QED
    BY <2>1, <2>2 DEF OneRunner
<1>10. ASSUME NEW w \in Workers, ClaimsNone(w) PROVE OneRunner'
  <2>1. job \in [Runners -> Chains \cup {None}] /\ w \in Runners /\ job' = [job EXCEPT ![w] = None]
    BY <1>10 DEF ClaimsNone, TypeOK, Runners
  <2> QED
    BY <2>1 DEF OneRunner
<1>11. CASE MainDone
  <2>1. job \in [Runners -> Chains \cup {None}] /\ Main \in Runners /\ job' = [job EXCEPT ![Main] = None]
    BY <1>11 DEF MainDone, TypeOK, Runners
  <2> QED
    BY <2>1 DEF OneRunner
<1>12. ASSUME NEW w \in Workers, Leaves(w) PROVE OneRunner'
  BY <1>12 DEF Leaves, OneRunner
<1>13. ASSUME NEW r \in Runners, NEW c \in Chains, Hand(r, c), Fails(r, c)
      PROVE  OneRunner'
  BY <1>13 DEF Fails, OneRunner
<1>14. ASSUME NEW r \in Runners, NEW c \in Chains, Hand(r, c), WarmsUp(r, c)
      PROVE  OneRunner'
  BY <1>14 DEF WarmsUp, OneRunner
<1>15. ASSUME NEW r \in Runners, NEW c \in Chains, Hand(r, c), StartsSampling(r, c)
      PROVE  OneRunner'
  BY <1>15 DEF StartsSampling, OneRunner
<1>16. ASSUME NEW r \in Runners, NEW c \in Chains, Hand(r, c), NEW i \in BOOLEAN, Returns(r, c, i)
      PROVE  OneRunner'
  BY <1>16 DEF Returns, OneRunner
<1>17. ASSUME NEW r \in Runners, NEW c \in Chains, Hand(r, c), GoesOn(r, c)
      PROVE  OneRunner'
  BY <1>17 DEF GoesOn, OneRunner
<1>18. ASSUME NEW r \in Runners, NEW c \in Chains, Hand(r, c), Drops(r, c)
      PROVE  OneRunner'
  BY <1>18 DEF Drops, OneRunner
<1>19. ASSUME NEW r \in Runners, NEW c \in Chains, Hand(r, c), Stores(r, c)
      PROVE  OneRunner'
  BY <1>19 DEF Stores, OneRunner
<1>20. ASSUME NEW r \in Runners, NEW c \in Chains, Hand(r, c), Advances(r, c),
             Silent \/ (r = Main /\ Told(c)) \/ (r # Main /\ Enqueued(c))
      PROVE  OneRunner'
  BY <1>20 DEF Advances, Silent, Told, Enqueued, OneRunner
<1>21. ASSUME NEW r \in Runners, pc[r] \in Active, job[r] \in Chains, phase[job[r]] \in Sampling \cup {"init"}, Works(r, job[r])
      PROVE  OneRunner'
  <2>1. Hand(r, job[r])
    BY <1>21 DEF Hand
  <2> QED
    BY <1>21, <2>1, <1>13, <1>14, <1>15, <1>16, <1>17, <1>18, <1>19, <1>20 DEF Works
<1> QED
  BY <1>1, <1>2, <1>3, <1>4, <1>5, <1>6, <1>7, <1>8, <1>9, <1>10, <1>11, <1>12, <1>21 DEF Steps

(* The stages of the call follow each other. *)
LEMMA StageStep ==
  ASSUME TypeOK, OneRunner, ~Over, Good, opts' = opts, Steps
  PROVE  StageInv'
<1>a. AllKept' = AllKept /\ NStored' = NStored /\ Threads' = Threads /\ Pool' = Pool
  BY OptionsStay
<1>1. CASE BeginAlone
  BY <1>1, <1>a, WorkersAssumption, ThreadFacts DEF BeginAlone, Good, StageInv, Runners, Active, TypeOK, queue, Hand
<1>2. CASE BeginPool
  BY <1>2, <1>a, WorkersAssumption, ThreadFacts DEF BeginPool, Good, StageInv, Runners, Active, TypeOK, queue, Hand
<1>3. ASSUME NEW w \in Workers, SpawnOne(w) PROVE StageInv'
  BY <1>3, <1>a, WorkersAssumption, ThreadFacts DEF SpawnOne, Good, StageInv, Runners, Active, TypeOK, queue, Hand
<1>4. CASE CallerMoves
  <2>1. BornExited /\ at = "join" => next >= NChains /\ \A r \in Runners : pc[r] \in {"unborn", "exited"}
    <3> SUFFICES ASSUME BornExited, at = "join"
                 PROVE  next >= NChains /\ \A r \in Runners : pc[r] \in {"unborn", "exited"}
      OBVIOUS
    <3>1. Pool /\ pc[Main] = "unborn"
      BY DEF Good, StageInv
    <3>2. Cardinality(Born) = Threads
      BY <3>1 DEF Good, LiveInv
    <3>3. Born # {}
      BY <3>2, FS_EmptySet, ThreadFacts
    <3>4. PICK w \in Born : TRUE
      BY <3>3
    <3>5. pc[w] = "exited" /\ w \in Runners
      BY <3>4 DEF BornExited, Born, Runners
    <3>6. next >= NChains
      BY <3>5 DEF Good, StageInv
    <3> QED
      BY <3>1, <3>6 DEF BornExited, Born, Runners
  <2>2. /\ UNCHANGED <<next, pc, live>>
        /\ at \in {"rethrow", "copy", "returned"} => at' \in {"copy", "threw"}
        /\ at' \in {"poll", "wait", "join", "rethrow", "copy", "threw"}
        /\ at \notin {"begin", "loop", "observe", "returned"}
        /\ at' = "rethrow" => BornExited /\ at = "join"
        /\ at' = "copy" => at = "rethrow"
        /\ at \in {"spawn", "poll", "wait", "join"} => at' \in {"poll", "wait", "join", "rethrow"}
        /\ at \in {"spawn", "poll", "wait", "join", "rethrow"}
    BY <1>4 DEF CallerMoves, Moves, queue
  <2> QED
    BY <1>a, <2>1, <2>2 DEF Good, StageInv
<1>5. CASE Takes
  BY <1>5, <1>a, WorkersAssumption, ThreadFacts DEF Takes, Good, StageInv, Runners, Active, TypeOK, queue, Hand
<1>6. CASE Observes
  BY <1>6, <1>a, WorkersAssumption, ThreadFacts DEF Observes, Good, StageInv, Runners, Active, TypeOK, queue, Hand
<1>7. CASE Discards
  BY <1>7, <1>a, WorkersAssumption, ThreadFacts DEF Discards, Good, StageInv, Runners, Active, TypeOK, queue, Hand
<1>8. CASE CopyOut
  BY <1>8, <1>a, WorkersAssumption, ThreadFacts DEF CopyOut, Good, StageInv, Runners, Active, TypeOK, queue, Hand
<1>9. ASSUME NEW r \in Runners, ClaimsOne(r) PROVE StageInv'
  BY <1>9, <1>a, WorkersAssumption, ThreadFacts DEF ClaimsOne, Good, StageInv, Runners, Active, TypeOK, queue, Hand
<1>10. ASSUME NEW w \in Workers, ClaimsNone(w) PROVE StageInv'
  BY <1>10, <1>a, WorkersAssumption, ThreadFacts DEF ClaimsNone, Good, StageInv, Runners, Active, TypeOK, queue, Hand
<1>11. CASE MainDone
  BY <1>11, <1>a, WorkersAssumption, ThreadFacts DEF MainDone, Good, StageInv, Runners, Active, TypeOK, queue, Hand
<1>12. ASSUME NEW w \in Workers, Leaves(w) PROVE StageInv'
  BY <1>12, <1>a, WorkersAssumption, ThreadFacts DEF Leaves, Good, StageInv, Runners, Active, TypeOK, queue, Hand
<1>13. ASSUME NEW r \in Runners, NEW c \in Chains, Hand(r, c), Fails(r, c)
      PROVE  StageInv'
  BY <1>13, <1>a, WorkersAssumption, ThreadFacts DEF Fails, Good, StageInv, Runners, Active, TypeOK, queue, Hand
<1>14. ASSUME NEW r \in Runners, NEW c \in Chains, Hand(r, c), WarmsUp(r, c)
      PROVE  StageInv'
  BY <1>14, <1>a, WorkersAssumption, ThreadFacts DEF WarmsUp, Good, StageInv, Runners, Active, TypeOK, queue, Hand
<1>15. ASSUME NEW r \in Runners, NEW c \in Chains, Hand(r, c), StartsSampling(r, c)
      PROVE  StageInv'
  BY <1>15, <1>a, WorkersAssumption, ThreadFacts DEF StartsSampling, Good, StageInv, Runners, Active, TypeOK, queue, Hand
<1>16. ASSUME NEW r \in Runners, NEW c \in Chains, Hand(r, c), NEW i \in BOOLEAN, Returns(r, c, i)
      PROVE  StageInv'
  BY <1>16, <1>a, WorkersAssumption, ThreadFacts DEF Returns, Good, StageInv, Runners, Active, TypeOK, queue, Hand
<1>17. ASSUME NEW r \in Runners, NEW c \in Chains, Hand(r, c), GoesOn(r, c)
      PROVE  StageInv'
  BY <1>17, <1>a, WorkersAssumption, ThreadFacts DEF GoesOn, Good, StageInv, Runners, Active, TypeOK, queue, Hand
<1>18. ASSUME NEW r \in Runners, NEW c \in Chains, Hand(r, c), Drops(r, c)
      PROVE  StageInv'
  BY <1>18, <1>a, WorkersAssumption, ThreadFacts DEF Drops, Good, StageInv, Runners, Active, TypeOK, queue, Hand
<1>19. ASSUME NEW r \in Runners, NEW c \in Chains, Hand(r, c), Stores(r, c)
      PROVE  StageInv'
  BY <1>19, <1>a, WorkersAssumption, ThreadFacts DEF Stores, Good, StageInv, Runners, Active, TypeOK, queue, Hand
<1>20. ASSUME NEW r \in Runners, NEW c \in Chains, Hand(r, c), Advances(r, c),
             Silent \/ (r = Main /\ Told(c)) \/ (r # Main /\ Enqueued(c))
      PROVE  StageInv'
  BY <1>20, <1>a, WorkersAssumption, ThreadFacts DEF Advances, Silent, Told, Enqueued, Good, StageInv, Runners, Active, TypeOK, queue, Hand
<1>21. ASSUME NEW r \in Runners, pc[r] \in Active, job[r] \in Chains, phase[job[r]] \in Sampling \cup {"init"}, Works(r, job[r])
      PROVE  StageInv'
  <2>1. Hand(r, job[r])
    BY <1>21 DEF Hand
  <2> QED
    BY <1>21, <2>1, <1>13, <1>14, <1>15, <1>16, <1>17, <1>18, <1>19, <1>20 DEF Works
<1> QED
  BY <1>1, <1>2, <1>3, <1>4, <1>5, <1>6, <1>7, <1>8, <1>9, <1>10, <1>11, <1>12, <1>21 DEF Steps

(* live_workers keeps counting the workers that have not left. *)
LEMMA LiveStep ==
  ASSUME TypeOK, OneRunner, ~Over, Good, opts' = opts, Steps
  PROVE  LiveInv'
<1>a. AllKept' = AllKept /\ NStored' = NStored /\ Threads' = Threads /\ Pool' = Pool
  BY OptionsStay
<1>b. Pool /\ at # "begin" =>
        /\ live + Cardinality(Gone) = Threads /\ Cardinality(Born) <= Threads
        /\ at # "spawn" => Cardinality(Born) = Threads
  BY DEF Good, LiveInv
<1>c. /\ \A w \in Workers : (pc'[w] = "unborn" <=> pc[w] = "unborn") /\ (pc'[w] = "exited" <=> pc[w] = "exited")
      /\ live' = live /\ at # "begin"
      /\ at' # "spawn" /\ at = "spawn" => Cardinality(Born) = Threads
      => LiveInv'
  <2> SUFFICES ASSUME \A w \in Workers : (pc'[w] = "unborn" <=> pc[w] = "unborn") /\ (pc'[w] = "exited" <=> pc[w] = "exited"),
                      live' = live, at # "begin",
                      at' # "spawn" /\ at = "spawn" => Cardinality(Born) = Threads
               PROVE  LiveInv'
    OBVIOUS
  <2>1. Born' = Born /\ Gone' = Gone
    BY DEF Born, Gone
  <2> QED
    BY <1>a, <1>b, <2>1 DEF LiveInv
<1>1. CASE BeginAlone
  <2>1. ~Pool
    BY <1>1 DEF BeginAlone
  <2> QED
    BY <1>a, <2>1 DEF LiveInv
<1>2. CASE BeginPool
  <2>1. Born = {} /\ Gone = {} /\ pc' = pc
    BY <1>2 DEF BeginPool, Born, Gone, Good, StageInv, Runners
  <2>2. Born' = {} /\ Gone' = {}
    BY <2>1 DEF Born, Gone
  <2>3. live' = Threads /\ at' = "spawn"
    BY <1>2 DEF BeginPool
  <2>4. Cardinality(Born') = 0 /\ Cardinality(Gone') = 0
    BY <2>2, FS_EmptySet
  <2> QED
    BY <1>a, <2>3, <2>4, ThreadFacts DEF LiveInv
<1>3. ASSUME NEW w \in Workers, SpawnOne(w) PROVE LiveInv'
  <2>1. w \notin Born /\ Born' = Born \cup {w} /\ Gone' = Gone
    BY <1>3 DEF SpawnOne, Born, Gone, TypeOK, Runners
  <2>2. at = "spawn" /\ at' = at /\ live' = live /\ Cardinality(Born) < Threads
    BY <1>3 DEF SpawnOne, queue
  <2>3. Cardinality(Born \cup {w}) = Cardinality(Born) + 1
    BY <2>1, BornFacts, FS_AddElement
  <2>4. Cardinality(Born') = Cardinality(Born) + 1
    BY <2>1, <2>3
  <2> QED
    BY <1>a, <1>b, <2>1, <2>2, <2>4, BornFacts, ThreadFacts DEF LiveInv
<1>4. CASE CallerMoves
  <2>1. UNCHANGED <<pc, live>> /\ at # "begin" /\ (at = "spawn" => Cardinality(Born) = Threads)
    BY <1>4 DEF CallerMoves, Moves, queue
  <2> QED
    BY <1>c, <2>1
<1>5. CASE Takes
  BY <1>5, <1>c, WorkersAssumption DEF Takes, Good, StageInv, Runners, Active, TypeOK, queue, chain, Hand
<1>6. CASE Observes
  BY <1>6, <1>c, WorkersAssumption DEF Observes, Good, StageInv, Runners, Active, TypeOK, queue, chain, Hand
<1>7. CASE Discards
  BY <1>7, <1>c, WorkersAssumption DEF Discards, Good, StageInv, Runners, Active, TypeOK, queue, chain, Hand
<1>8. CASE CopyOut
  BY <1>8, <1>c, WorkersAssumption DEF CopyOut, Good, StageInv, Runners, Active, TypeOK, queue, chain, Hand
<1>9. ASSUME NEW r \in Runners, ClaimsOne(r) PROVE LiveInv'
  BY <1>9, <1>c, WorkersAssumption DEF ClaimsOne, Good, StageInv, Runners, Active, TypeOK, queue, chain, Hand
<1>10. ASSUME NEW w \in Workers, ClaimsNone(w) PROVE LiveInv'
  BY <1>10, <1>c, WorkersAssumption DEF ClaimsNone, Good, StageInv, Runners, Active, TypeOK, queue, chain, Hand
<1>11. CASE MainDone
  <2>1. ~Pool
    BY <1>11 DEF MainDone, Good, StageInv
  <2> QED
    BY <1>a, <2>1 DEF LiveInv
<1>12. ASSUME NEW w \in Workers, Leaves(w) PROVE LiveInv'
  <2>1. w \notin Gone /\ Gone' = Gone \cup {w} /\ Born' = Born
    BY <1>12 DEF Leaves, Born, Gone, TypeOK, Runners
  <2>2. Pool /\ at # "begin" /\ at' = at /\ live' = live - 1
    BY <1>12, LeaverIsCounted DEF Leaves, Good
  <2>3. Cardinality(Gone \cup {w}) = Cardinality(Gone) + 1
    BY <2>1, BornFacts, FS_AddElement
  <2>4. Cardinality(Gone') = Cardinality(Gone) + 1 /\ live \in Int
    BY <2>1, <2>3 DEF TypeOK
  <2> QED
    BY <1>a, <1>b, <2>1, <2>2, <2>4, BornFacts, ThreadFacts DEF LiveInv
<1>13. ASSUME NEW r \in Runners, NEW c \in Chains, Hand(r, c), Fails(r, c)
      PROVE  LiveInv'
  BY <1>13, <1>c, WorkersAssumption DEF Fails, Good, StageInv, Runners, Active, TypeOK, queue, chain, Hand
<1>14. ASSUME NEW r \in Runners, NEW c \in Chains, Hand(r, c), WarmsUp(r, c)
      PROVE  LiveInv'
  BY <1>14, <1>c, WorkersAssumption DEF WarmsUp, Good, StageInv, Runners, Active, TypeOK, queue, chain, Hand
<1>15. ASSUME NEW r \in Runners, NEW c \in Chains, Hand(r, c), StartsSampling(r, c)
      PROVE  LiveInv'
  BY <1>15, <1>c, WorkersAssumption DEF StartsSampling, Good, StageInv, Runners, Active, TypeOK, queue, chain, Hand
<1>16. ASSUME NEW r \in Runners, NEW c \in Chains, Hand(r, c), NEW i \in BOOLEAN, Returns(r, c, i)
      PROVE  LiveInv'
  BY <1>16, <1>c, WorkersAssumption DEF Returns, Good, StageInv, Runners, Active, TypeOK, queue, chain, Hand
<1>17. ASSUME NEW r \in Runners, NEW c \in Chains, Hand(r, c), GoesOn(r, c)
      PROVE  LiveInv'
  BY <1>17, <1>c, WorkersAssumption DEF GoesOn, Good, StageInv, Runners, Active, TypeOK, queue, chain, Hand
<1>18. ASSUME NEW r \in Runners, NEW c \in Chains, Hand(r, c), Drops(r, c)
      PROVE  LiveInv'
  BY <1>18, <1>c, WorkersAssumption DEF Drops, Good, StageInv, Runners, Active, TypeOK, queue, chain, Hand
<1>19. ASSUME NEW r \in Runners, NEW c \in Chains, Hand(r, c), Stores(r, c)
      PROVE  LiveInv'
  BY <1>19, <1>c, WorkersAssumption DEF Stores, Good, StageInv, Runners, Active, TypeOK, queue, chain, Hand
<1>20. ASSUME NEW r \in Runners, NEW c \in Chains, Hand(r, c), Advances(r, c),
             Silent \/ (r = Main /\ Told(c)) \/ (r # Main /\ Enqueued(c))
      PROVE  LiveInv'
  BY <1>20, <1>c, WorkersAssumption DEF Advances, Silent, Told, Enqueued, Good, StageInv, Runners, Active, TypeOK, queue, chain, Hand
<1>21. ASSUME NEW r \in Runners, pc[r] \in Active, job[r] \in Chains, phase[job[r]] \in Sampling \cup {"init"}, Works(r, job[r])
      PROVE  LiveInv'
  <2>1. Hand(r, job[r])
    BY <1>21 DEF Hand
  <2> QED
    BY <1>21, <2>1, <1>13, <1>14, <1>15, <1>16, <1>17, <1>18, <1>19, <1>20 DEF Works
<1> QED
  BY <1>1, <1>2, <1>3, <1>4, <1>5, <1>6, <1>7, <1>8, <1>9, <1>10, <1>11, <1>12, <1>21 DEF Steps

(* The chains below the cursor stay with their runners. *)
LEMMA RunnerStep ==
  ASSUME TypeOK, OneRunner, ~Over, Good, opts' = opts, Steps
  PROVE  RunnerInv'
<1> DEFINE InHand == \A r \in Runners : pc[r] \in Active =>
                      /\ job[r] \in Chains
                      /\ phase[job[r]] \in (IF pc[r] = "init" THEN {"init"} ELSE Sampling)
           Passed == \A r \in Runners : job[r] # None => job[r] < next
           Todo == \A c \in Chains : phase[c] = "todo" <=> c >= next
           Held == \A c \in Chains : phase[c] \in Sampling \cup {"init"} =>
                     \E r \in Runners : pc[r] \in Active /\ job[r] = c
<1>b. InHand /\ Passed /\ Todo /\ Held
  BY DEF Good, RunnerInv
<1>c. InHand' /\ Passed' /\ Todo' /\ Held' => RunnerInv'
  BY DEF RunnerInv
<1>d. /\ \A c \in Chains : c \in Int /\ c # None
      /\ next \in Int /\ job \in [Runners -> Chains \cup {None}]
      /\ pc \in [Runners -> {"unborn", "claim", "init", "check", "step", "report", "leave", "exited"}]
      /\ phase \in [Chains -> {"todo", "init", "warmup", "sampling", "done", "failed"}]
      /\ Main \in Runners /\ Workers \subseteq Runners
      /\ \A r \in Runners : job[r] # None => job[r] \in Chains
  <2>1. \A c \in Chains : c \in Int
    BY ThreadFacts DEF Chains
  <2>2. \A c \in Chains : c # None
    BY <2>1, NoneAssumption
  <2> QED
    BY <2>1, <2>2 DEF TypeOK, Runners
<1>e. \A r, s \in Runners : job[r] = job[s] /\ job[r] # None => r = s
  BY DEF OneRunner
<1>f. UNCHANGED <<pc, job, phase, next>> => RunnerInv'
  <2> SUFFICES ASSUME UNCHANGED <<pc, job, phase, next>> PROVE RunnerInv'
    OBVIOUS
  <2>1. InHand' /\ Passed' /\ Todo' /\ Held'
    BY <1>b
  <2> QED
    BY <1>c, <2>1
<1>1. CASE BeginAlone
  <2>1. /\ Main \in Runners /\ pc[Main] \notin Active /\ pc' = [pc EXCEPT ![Main] = "claim"]
        /\ phase' = phase /\ UNCHANGED <<job, next>>
    BY <1>1, <1>d DEF BeginAlone, chain, Active, Good, StageInv
  <2>2. InHand'
    BY <1>b, <1>d, <2>1 DEF Active
  <2>3. Passed'
    BY <1>b, <1>d, <2>1
  <2>4. Todo'
    BY <1>b, <1>d, <2>1
  <2>5. Held'
    BY <1>b, <1>d, <2>1 DEF Active
  <2> QED
    BY <1>c, <2>2, <2>3, <2>4, <2>5
<1>2. CASE BeginPool
  <2>1. UNCHANGED <<pc, job, phase, next>>
    BY <1>2 DEF BeginPool, chain
  <2> QED
    BY <1>f, <2>1
<1>3. ASSUME NEW w \in Workers, SpawnOne(w) PROVE RunnerInv'
  <2>1. /\ w \in Runners /\ pc[w] \notin Active /\ pc' = [pc EXCEPT ![w] = "claim"]
        /\ phase' = phase /\ UNCHANGED <<job, next>>
    BY <1>3, <1>d DEF SpawnOne, chain, Active
  <2>2. InHand'
    BY <1>b, <1>d, <2>1 DEF Active
  <2>3. Passed'
    BY <1>b, <1>d, <2>1
  <2>4. Todo'
    BY <1>b, <1>d, <2>1
  <2>5. Held'
    BY <1>b, <1>d, <2>1 DEF Active
  <2> QED
    BY <1>c, <2>2, <2>3, <2>4, <2>5
<1>4. CASE CallerMoves
  <2>1. UNCHANGED <<pc, job, phase, next>>
    BY <1>4 DEF CallerMoves, Moves, chain
  <2> QED
    BY <1>f, <2>1
<1>5. CASE Takes
  <2>1. UNCHANGED <<pc, job, phase, next>>
    BY <1>5 DEF Takes, chain
  <2> QED
    BY <1>f, <2>1
<1>6. CASE Observes
  <2>1. UNCHANGED <<pc, job, phase, next>>
    BY <1>6 DEF Observes, chain
  <2> QED
    BY <1>f, <2>1
<1>7. CASE Discards
  <2>1. UNCHANGED <<pc, job, phase, next>>
    BY <1>7 DEF Discards, chain
  <2> QED
    BY <1>f, <2>1
<1>8. CASE CopyOut
  <2>1. UNCHANGED <<pc, job, phase, next>>
    BY <1>8 DEF CopyOut, chain
  <2> QED
    BY <1>f, <2>1
<1>9. ASSUME NEW r \in Runners, ClaimsOne(r) PROVE RunnerInv'
  <2>1. /\ pc[r] = "claim" /\ pc' = [pc EXCEPT ![r] = "init"] /\ phase' = [phase EXCEPT ![next] = "init"]
        /\ job' = [job EXCEPT ![r] = next] /\ next' = next + 1 /\ next < NChains
    BY <1>9 DEF ClaimsOne
  <2>2. next \in Chains
    <3>1. next \in Nat /\ NChains \in Nat
      BY ThreadFacts DEF TypeOK
    <3> QED
      BY <2>1, <3>1 DEF Chains
  <2>3. \A s \in Runners : job[s] # next
    BY <1>b, <1>d, <2>2
  <2>4. InHand'
    BY <1>b, <1>d, <2>1, <2>2, <2>3 DEF Active
  <2>5. Passed'
    <3> SUFFICES ASSUME NEW s \in Runners, job'[s] # None PROVE job'[s] < next'
      OBVIOUS
    <3>1. CASE s = r
      BY <1>d, <2>1, <3>1
    <3>2. CASE s # r
      <4>1. job'[s] = job[s]
        BY <1>d, <2>1, <3>2
      <4>2. job[s] \in Int /\ job[s] < next
        BY <1>b, <1>d, <4>1
      <4> QED
        BY <1>d, <2>1, <4>1, <4>2
    <3> QED
      BY <3>1, <3>2
  <2>6. Todo'
    BY <1>b, <1>d, <2>1, <2>2
  <2>7. Held'
    <3> SUFFICES ASSUME NEW c \in Chains, phase'[c] \in Sampling \cup {"init"}
                 PROVE  \E s \in Runners : pc'[s] \in Active /\ job'[s] = c
      OBVIOUS
    <3>1. CASE c = next
      BY <1>d, <2>1, <2>2, <3>1 DEF Active
    <3>2. CASE c # next
      <4>1. PICK s \in Runners : pc[s] \in Active /\ job[s] = c
        BY <1>b, <1>d, <2>1, <2>2, <3>2
      <4>2. s # r
        BY <2>1, <4>1 DEF Active
      <4> QED
        BY <1>d, <2>1, <4>1, <4>2
    <3> QED
      BY <3>1, <3>2
  <2> QED
    BY <1>c, <2>4, <2>5, <2>6, <2>7
<1>10. ASSUME NEW w \in Workers, ClaimsNone(w) PROVE RunnerInv'
  <2>1. /\ w \in Runners /\ pc[w] \notin Active /\ pc' = [pc EXCEPT ![w] = "leave"]
        /\ phase' = phase /\ job' = [job EXCEPT ![w] = None] /\ next' = next + 1 /\ next >= NChains
    BY <1>10, <1>d DEF ClaimsNone, chain, Active
  <2>2. InHand'
    BY <1>b, <1>d, <2>1 DEF Active
  <2>3. Passed'
    BY <1>b, <1>d, <2>1
  <2>4. Todo'
    <3>1. \A c \in Chains : c < next
      BY <1>d, <2>1, ThreadFacts DEF Chains
    <3> QED
      BY <1>b, <1>d, <2>1, <3>1
  <2>5. Held'
    BY <1>b, <1>d, <2>1 DEF Active
  <2> QED
    BY <1>c, <2>2, <2>3, <2>4, <2>5
<1>11. CASE MainDone
  <2>1. /\ Main \in Runners /\ pc[Main] \notin Active /\ pc' = [pc EXCEPT ![Main] = "exited"]
        /\ phase' = phase /\ job' = [job EXCEPT ![Main] = None] /\ next' = next + 1 /\ next >= NChains
    BY <1>11, <1>d DEF MainDone, chain, Active
  <2>2. InHand'
    BY <1>b, <1>d, <2>1 DEF Active
  <2>3. Passed'
    BY <1>b, <1>d, <2>1
  <2>4. Todo'
    <3>1. \A c \in Chains : c < next
      BY <1>d, <2>1, ThreadFacts DEF Chains
    <3> QED
      BY <1>b, <1>d, <2>1, <3>1
  <2>5. Held'
    BY <1>b, <1>d, <2>1 DEF Active
  <2> QED
    BY <1>c, <2>2, <2>3, <2>4, <2>5
<1>12. ASSUME NEW w \in Workers, Leaves(w) PROVE RunnerInv'
  <2>1. /\ w \in Runners /\ pc[w] \notin Active /\ pc' = [pc EXCEPT ![w] = "exited"]
        /\ phase' = phase /\ UNCHANGED <<job, next>>
    BY <1>12, <1>d DEF Leaves, chain, Active
  <2>2. InHand'
    BY <1>b, <1>d, <2>1 DEF Active
  <2>3. Passed'
    BY <1>b, <1>d, <2>1
  <2>4. Todo'
    BY <1>b, <1>d, <2>1
  <2>5. Held'
    BY <1>b, <1>d, <2>1 DEF Active
  <2> QED
    BY <1>c, <2>2, <2>3, <2>4, <2>5
<1>13. ASSUME NEW r \in Runners, NEW c \in Chains, Hand(r, c), Fails(r, c)
      PROVE  RunnerInv'
  <2>1. /\ pc[r] \in Active /\ job[r] = c /\ phase[c] \in Sampling \cup {"init"} /\ (pc[r] # "init" => phase[c] \in Sampling)
        /\ pc' = [pc EXCEPT ![r] = "claim"] /\ phase' = [phase EXCEPT ![c] = "failed"] /\ UNCHANGED <<job, next>>
        /\ pc[r] \in {"init", "step"}
    BY <1>13, HandFacts DEF Hand, Fails, chain, Sampling
  <2>2. \A s \in Runners : s # r => job[s] # c
    BY <1>d, <1>e, <2>1
  <2>3. InHand'
    BY <1>b, <1>d, <2>1, <2>2 DEF Active, Sampling
  <2>4. Passed'
    BY <1>b, <1>d, <2>1
  <2>5. Todo'
    BY <1>b, <1>d, <2>1 DEF Sampling
  <2>6. Held'
    <3> SUFFICES ASSUME NEW d \in Chains, phase'[d] \in Sampling \cup {"init"}
                 PROVE  \E s \in Runners : pc'[s] \in Active /\ job'[s] = d
      OBVIOUS
    <3>1. PICK s \in Runners : pc[s] \in Active /\ job[s] = d
      BY <1>b, <1>d, <2>1 DEF Sampling
    <3>2. d # c
      BY <1>d, <2>1 DEF Sampling
    <3>3. s # r
      BY <2>1, <3>1, <3>2
    <3> QED
      BY <1>d, <2>1, <3>1, <3>3
  <2> QED
    BY <1>c, <2>3, <2>4, <2>5, <2>6
<1>14. ASSUME NEW r \in Runners, NEW c \in Chains, Hand(r, c), WarmsUp(r, c)
      PROVE  RunnerInv'
  <2>1. /\ pc[r] \in Active /\ job[r] = c /\ phase[c] \in Sampling \cup {"init"} /\ (pc[r] # "init" => phase[c] \in Sampling)
        /\ pc' = [pc EXCEPT ![r] = "check"] /\ phase' = [phase EXCEPT ![c] = "warmup"] /\ UNCHANGED <<job, next>>
        /\ pc[r] \in {"init"}
    BY <1>14, HandFacts DEF Hand, WarmsUp, chain, Sampling
  <2>2. \A s \in Runners : s # r => job[s] # c
    BY <1>d, <1>e, <2>1
  <2>3. InHand'
    BY <1>b, <1>d, <2>1, <2>2 DEF Active, Sampling
  <2>4. Passed'
    BY <1>b, <1>d, <2>1
  <2>5. Todo'
    BY <1>b, <1>d, <2>1 DEF Sampling
  <2>6. Held'
    <3> SUFFICES ASSUME NEW d \in Chains, phase'[d] \in Sampling \cup {"init"}
                 PROVE  \E s \in Runners : pc'[s] \in Active /\ job'[s] = d
      OBVIOUS
    <3>1. PICK s \in Runners : pc[s] \in Active /\ job[s] = d
      BY <1>b, <1>d, <2>1 DEF Sampling
    <3> QED
      BY <1>d, <2>1, <3>1 DEF Active
  <2> QED
    BY <1>c, <2>3, <2>4, <2>5, <2>6
<1>15. ASSUME NEW r \in Runners, NEW c \in Chains, Hand(r, c), StartsSampling(r, c)
      PROVE  RunnerInv'
  <2>1. /\ pc[r] \in Active /\ job[r] = c /\ phase[c] \in Sampling \cup {"init"} /\ (pc[r] # "init" => phase[c] \in Sampling)
        /\ pc' = pc /\ phase' = [phase EXCEPT ![c] = "sampling"] /\ UNCHANGED <<job, next>>
        /\ pc[r] \in {"check"}
    BY <1>15, HandFacts DEF Hand, StartsSampling, chain, Sampling
  <2>2. \A s \in Runners : s # r => job[s] # c
    BY <1>d, <1>e, <2>1
  <2>3. InHand'
    BY <1>b, <1>d, <2>1, <2>2 DEF Active, Sampling
  <2>4. Passed'
    BY <1>b, <1>d, <2>1
  <2>5. Todo'
    BY <1>b, <1>d, <2>1 DEF Sampling
  <2>6. Held'
    <3> SUFFICES ASSUME NEW d \in Chains, phase'[d] \in Sampling \cup {"init"}
                 PROVE  \E s \in Runners : pc'[s] \in Active /\ job'[s] = d
      OBVIOUS
    <3>1. PICK s \in Runners : pc[s] \in Active /\ job[s] = d
      BY <1>b, <1>d, <2>1 DEF Sampling
    <3> QED
      BY <1>d, <2>1, <3>1 DEF Active
  <2> QED
    BY <1>c, <2>3, <2>4, <2>5, <2>6
<1>16. ASSUME NEW r \in Runners, NEW c \in Chains, Hand(r, c), NEW i \in BOOLEAN, Returns(r, c, i)
      PROVE  RunnerInv'
  <2>1. /\ pc[r] \in Active /\ job[r] = c /\ phase[c] \in Sampling \cup {"init"} /\ (pc[r] # "init" => phase[c] \in Sampling)
        /\ pc' = [pc EXCEPT ![r] = "claim"] /\ phase' = [phase EXCEPT ![c] = "done"] /\ UNCHANGED <<job, next>>
        /\ pc[r] \in {"check"}
    BY <1>16, HandFacts DEF Hand, Returns, chain, Sampling
  <2>2. \A s \in Runners : s # r => job[s] # c
    BY <1>d, <1>e, <2>1
  <2>3. InHand'
    BY <1>b, <1>d, <2>1, <2>2 DEF Active, Sampling
  <2>4. Passed'
    BY <1>b, <1>d, <2>1
  <2>5. Todo'
    BY <1>b, <1>d, <2>1 DEF Sampling
  <2>6. Held'
    <3> SUFFICES ASSUME NEW d \in Chains, phase'[d] \in Sampling \cup {"init"}
                 PROVE  \E s \in Runners : pc'[s] \in Active /\ job'[s] = d
      OBVIOUS
    <3>1. PICK s \in Runners : pc[s] \in Active /\ job[s] = d
      BY <1>b, <1>d, <2>1 DEF Sampling
    <3>2. d # c
      BY <1>d, <2>1 DEF Sampling
    <3>3. s # r
      BY <2>1, <3>1, <3>2
    <3> QED
      BY <1>d, <2>1, <3>1, <3>3
  <2> QED
    BY <1>c, <2>3, <2>4, <2>5, <2>6
<1>17. ASSUME NEW r \in Runners, NEW c \in Chains, Hand(r, c), GoesOn(r, c)
      PROVE  RunnerInv'
  <2>1. /\ pc[r] \in Active /\ job[r] = c /\ phase[c] \in Sampling \cup {"init"} /\ (pc[r] # "init" => phase[c] \in Sampling)
        /\ pc' = [pc EXCEPT ![r] = "step"] /\ phase' = phase /\ UNCHANGED <<job, next>>
        /\ pc[r] \in {"check"}
    BY <1>17, HandFacts DEF Hand, GoesOn, chain, Sampling
  <2>2. \A s \in Runners : s # r => job[s] # c
    BY <1>d, <1>e, <2>1
  <2>3. InHand'
    BY <1>b, <1>d, <2>1, <2>2 DEF Active, Sampling
  <2>4. Passed'
    BY <1>b, <1>d, <2>1
  <2>5. Todo'
    BY <1>b, <1>d, <2>1 DEF Sampling
  <2>6. Held'
    <3> SUFFICES ASSUME NEW d \in Chains, phase'[d] \in Sampling \cup {"init"}
                 PROVE  \E s \in Runners : pc'[s] \in Active /\ job'[s] = d
      OBVIOUS
    <3>1. PICK s \in Runners : pc[s] \in Active /\ job[s] = d
      BY <1>b, <1>d, <2>1 DEF Sampling
    <3> QED
      BY <1>d, <2>1, <3>1 DEF Active
  <2> QED
    BY <1>c, <2>3, <2>4, <2>5, <2>6
<1>18. ASSUME NEW r \in Runners, NEW c \in Chains, Hand(r, c), Drops(r, c)
      PROVE  RunnerInv'
  <2>1. /\ pc[r] \in Active /\ job[r] = c /\ phase[c] \in Sampling \cup {"init"} /\ (pc[r] # "init" => phase[c] \in Sampling)
        /\ pc' = [pc EXCEPT ![r] = "report"] /\ phase' = phase /\ UNCHANGED <<job, next>>
        /\ pc[r] \in {"step"}
    BY <1>18, HandFacts DEF Hand, Drops, chain, Sampling
  <2>2. \A s \in Runners : s # r => job[s] # c
    BY <1>d, <1>e, <2>1
  <2>3. InHand'
    BY <1>b, <1>d, <2>1, <2>2 DEF Active, Sampling
  <2>4. Passed'
    BY <1>b, <1>d, <2>1
  <2>5. Todo'
    BY <1>b, <1>d, <2>1 DEF Sampling
  <2>6. Held'
    <3> SUFFICES ASSUME NEW d \in Chains, phase'[d] \in Sampling \cup {"init"}
                 PROVE  \E s \in Runners : pc'[s] \in Active /\ job'[s] = d
      OBVIOUS
    <3>1. PICK s \in Runners : pc[s] \in Active /\ job[s] = d
      BY <1>b, <1>d, <2>1 DEF Sampling
    <3> QED
      BY <1>d, <2>1, <3>1 DEF Active
  <2> QED
    BY <1>c, <2>3, <2>4, <2>5, <2>6
<1>19. ASSUME NEW r \in Runners, NEW c \in Chains, Hand(r, c), Stores(r, c)
      PROVE  RunnerInv'
  <2>1. /\ pc[r] \in Active /\ job[r] = c /\ phase[c] \in Sampling \cup {"init"} /\ (pc[r] # "init" => phase[c] \in Sampling)
        /\ pc' = [pc EXCEPT ![r] = "report"] /\ phase' = phase /\ UNCHANGED <<job, next>>
        /\ pc[r] \in {"step"}
    BY <1>19, HandFacts DEF Hand, Stores, chain, Sampling
  <2>2. \A s \in Runners : s # r => job[s] # c
    BY <1>d, <1>e, <2>1
  <2>3. InHand'
    BY <1>b, <1>d, <2>1, <2>2 DEF Active, Sampling
  <2>4. Passed'
    BY <1>b, <1>d, <2>1
  <2>5. Todo'
    BY <1>b, <1>d, <2>1 DEF Sampling
  <2>6. Held'
    <3> SUFFICES ASSUME NEW d \in Chains, phase'[d] \in Sampling \cup {"init"}
                 PROVE  \E s \in Runners : pc'[s] \in Active /\ job'[s] = d
      OBVIOUS
    <3>1. PICK s \in Runners : pc[s] \in Active /\ job[s] = d
      BY <1>b, <1>d, <2>1 DEF Sampling
    <3> QED
      BY <1>d, <2>1, <3>1 DEF Active
  <2> QED
    BY <1>c, <2>3, <2>4, <2>5, <2>6
<1>20. ASSUME NEW r \in Runners, NEW c \in Chains, Hand(r, c), Advances(r, c),
             Silent \/ (r = Main /\ Told(c)) \/ (r # Main /\ Enqueued(c))
      PROVE  RunnerInv'
  <2>1. /\ pc[r] \in Active /\ job[r] = c /\ phase[c] \in Sampling \cup {"init"} /\ (pc[r] # "init" => phase[c] \in Sampling)
        /\ pc' = [pc EXCEPT ![r] = "check"] /\ phase' = phase /\ UNCHANGED <<job, next>>
        /\ pc[r] \in {"report"}
    BY <1>20, HandFacts DEF Hand, Advances, chain, Sampling
  <2>2. \A s \in Runners : s # r => job[s] # c
    BY <1>d, <1>e, <2>1
  <2>3. InHand'
    BY <1>b, <1>d, <2>1, <2>2 DEF Active, Sampling
  <2>4. Passed'
    BY <1>b, <1>d, <2>1
  <2>5. Todo'
    BY <1>b, <1>d, <2>1 DEF Sampling
  <2>6. Held'
    <3> SUFFICES ASSUME NEW d \in Chains, phase'[d] \in Sampling \cup {"init"}
                 PROVE  \E s \in Runners : pc'[s] \in Active /\ job'[s] = d
      OBVIOUS
    <3>1. PICK s \in Runners : pc[s] \in Active /\ job[s] = d
      BY <1>b, <1>d, <2>1 DEF Sampling
    <3> QED
      BY <1>d, <2>1, <3>1 DEF Active
  <2> QED
    BY <1>c, <2>3, <2>4, <2>5, <2>6
<1>21. ASSUME NEW r \in Runners, pc[r] \in Active, job[r] \in Chains, phase[job[r]] \in Sampling \cup {"init"}, Works(r, job[r])
      PROVE  RunnerInv'
  <2>1. Hand(r, job[r])
    BY <1>21 DEF Hand
  <2> QED
    BY <1>21, <2>1, <1>13, <1>14, <1>15, <1>16, <1>17, <1>18, <1>19, <1>20 DEF Works
<1> QED
  BY <1>1, <1>2, <1>3, <1>4, <1>5, <1>6, <1>7, <1>8, <1>9, <1>10, <1>11, <1>12, <1>21 DEF Steps

(* A chain that a step leaves alone keeps its rows. *)
LEMMA RowFrame ==
  ASSUME NEW d \in Chains, RowOK(d), AllKept' = AllKept, NStored' = NStored,
         rows'[d] = rows[d], values'[d] = values[d], phase'[d] = phase[d], iter'[d] = iter[d],
         stored'[d] = stored[d], interrupted'[d] = interrupted[d], draws'[d] = draws[d],
         at' = "returned" <=> at = "returned"
  PROVE  RowOK(d)'
<1> DEFINE s == rows[d]
           K == AllKept
<1>1. rows'[d] = s /\ AllKept' = K
  OBVIOUS
<1>2. Top(rows[d])' = Top(s)
  BY DEF Top, Least
<1> QED
  BY <1>1, <1>2 DEF RowOK, Numbered, Before, Earlier

(* There are no more rows than kept transitions. *)
LEMMA NumberedFits ==
  ASSUME TypeOK, NEW s \in Seq(Transitions), Numbered(AllKept, s)
  PROVE  Len(s) \in Nat /\ Len(s) <= Cardinality(AllKept)
<1>1. Len(s) \in Nat
  BY LenProperties
<1>2. CASE Len(s) = 0
  BY <1>2, KeptCount
<1>3. CASE Len(s) # 0
  <2> DEFINE t == s[Len(s)]
  <2>1. t \in AllKept /\ Cardinality(Before(AllKept, t)) = Len(s) - 1
    BY <1>1, <1>3 DEF Numbered
  <2> HIDE DEF t
  <2>2. PICK l \in Sampling, i \in Nat : t = <<l, i>>
    BY <2>1, KeptMember
  <2>3. t \notin Before(AllKept, t) /\ Before(AllKept, t) \in SUBSET AllKept
    BY <2>2 DEF Before, Earlier, Sampling
  <2>4. Cardinality(Before(AllKept, t)) < Cardinality(AllKept)
    <3>1. /\ IsFiniteSet(Before(AllKept, t))
          /\ Cardinality(Before(AllKept, t)) <= Cardinality(AllKept)
          /\ Cardinality(Before(AllKept, t)) = Cardinality(AllKept) => Before(AllKept, t) = AllKept
      BY <2>3, KeptCount, FS_Subset
    <3>2. Cardinality(Before(AllKept, t)) \in Nat /\ Cardinality(AllKept) \in Nat
      BY <3>1, KeptCount, FS_CardinalityType
    <3> QED
      BY <2>1, <2>3, <3>1, <3>2
  <2> QED
    BY <1>1, <2>1, <2>4, KeptCount
<1> QED
  BY <1>1, <1>2, <1>3

(* The rows stay the kept transitions in their order. *)
LEMMA RowsStep ==
  ASSUME TypeOK, OneRunner, ~Over, Good, opts' = opts, Steps
  PROVE  RowsInv'
<1>a. AllKept' = AllKept /\ NStored' = NStored
  BY OptionsStay
<1>b. \A c \in Chains : RowOK(c)
  BY DEF Good, RowsInv
<1>c. UNCHANGED <<rows, values, phase, iter, stored, interrupted, draws>> /\ (at' = "returned" <=> at = "returned") => RowsInv'
  BY <1>a, <1>b, RowFrame DEF RowsInv
<1>d. /\ phase \in [Chains -> {"todo", "init", "warmup", "sampling", "done", "failed"}]
      /\ iter \in [Chains -> Nat] /\ stored \in [Chains -> Nat] /\ rows \in [Chains -> Seq(Transitions)]
      /\ values \in [Chains -> Seq(Transitions)] /\ draws \in [Chains -> Seq(Transitions)]
      /\ interrupted \in [Chains -> BOOLEAN]
  BY DEF TypeOK
<1>f. \A c \in Chains : rows'[c] = rows[c] => Numbered(AllKept, rows[c])'
  <2> SUFFICES ASSUME NEW c \in Chains, rows'[c] = rows[c] PROVE Numbered(AllKept, rows[c])'
    OBVIOUS
  <2>1. Numbered(AllKept, rows[c])
    BY <1>b DEF RowOK
  <2> QED
    BY <1>a, <2>1 DEF Numbered, Before, Earlier
<1>g. \A c \in Chains : rows'[c] = rows[c] => Top(rows[c])' = Top(rows[c])
  BY <1>a DEF Top, Least
<1>e. at = "returned" => \A r \in Runners : pc[r] \in {"unborn", "exited"}
  BY DEF Good, StageInv
<1>1. CASE BeginAlone
  <2>1. UNCHANGED <<rows, values, phase, iter, stored, interrupted, draws>> /\ (at' = "returned" <=> at = "returned")
    BY <1>1, <1>e DEF BeginAlone, chain, buffers, Runners
  <2> QED
    BY <1>c, <2>1
<1>2. CASE BeginPool
  <2>1. UNCHANGED <<rows, values, phase, iter, stored, interrupted, draws>> /\ (at' = "returned" <=> at = "returned")
    BY <1>2, <1>e DEF BeginPool, chain, buffers, Runners
  <2> QED
    BY <1>c, <2>1
<1>3. ASSUME NEW w \in Workers, SpawnOne(w) PROVE RowsInv'
  <2>1. UNCHANGED <<rows, values, phase, iter, stored, interrupted, draws>> /\ (at' = "returned" <=> at = "returned")
    BY <1>3, <1>e DEF SpawnOne, chain, buffers, Runners
  <2> QED
    BY <1>c, <2>1
<1>4. CASE CallerMoves
  <2>1. UNCHANGED <<rows, values, phase, iter, stored, interrupted, draws>> /\ (at' = "returned" <=> at = "returned")
    BY <1>4, <1>e DEF CallerMoves, Moves, chain, buffers, Runners
  <2> QED
    BY <1>c, <2>1
<1>5. CASE Takes
  <2>1. UNCHANGED <<rows, values, phase, iter, stored, interrupted, draws>> /\ (at' = "returned" <=> at = "returned")
    BY <1>5, <1>e DEF Takes, chain, buffers, Runners
  <2> QED
    BY <1>c, <2>1
<1>6. CASE Observes
  <2>1. UNCHANGED <<rows, values, phase, iter, stored, interrupted, draws>> /\ (at' = "returned" <=> at = "returned")
    BY <1>6, <1>e DEF Observes, chain, buffers, Runners
  <2> QED
    BY <1>c, <2>1
<1>7. CASE Discards
  <2>1. UNCHANGED <<rows, values, phase, iter, stored, interrupted, draws>> /\ (at' = "returned" <=> at = "returned")
    BY <1>7, <1>e DEF Discards, chain, buffers, Runners
  <2> QED
    BY <1>c, <2>1
<1>8. CASE CopyOut
  <2>1. UNCHANGED <<rows, values, phase, iter, stored, interrupted>> /\ at = "copy" /\ at' = "returned"
    BY <1>8 DEF CopyOut, chain
  <2> SUFFICES ASSUME NEW c \in Chains PROVE RowOK(c)'
    BY DEF RowsInv
  <2>2. draws'[c] = Top(rows[c])
    <3>1. CASE c \in Failed
      <4>1. rows[c] = <<>> /\ draws[c] = <<>>
        BY <1>b, <2>1, <3>1 DEF RowOK, Failed
      <4> QED
        BY <1>8, <3>1, <4>1, TopEmpty DEF CopyOut
    <3>2. CASE c \notin Failed
      BY <1>8, <3>2 DEF CopyOut, Top
    <3> QED
      BY <3>1, <3>2
  <2>3. RowOK(c) /\ rows'[c] = rows[c]
    BY <1>b, <2>1
  <2> QED
    BY <1>a, <1>g, <2>1, <2>2, <2>3 DEF RowOK, Numbered, Before, Earlier
<1>9. ASSUME NEW r \in Runners, ClaimsOne(r) PROVE RowsInv'
  <2>0. next \in Chains /\ phase[next] = "todo"
    <3>1. next \in Nat /\ NChains \in Nat /\ next < NChains
      BY <1>9, ThreadFacts DEF TypeOK, ClaimsOne
    <3> QED
      BY <3>1 DEF Chains, Good, RunnerInv
  <2>5. PICK c \in Chains : c = next
    BY <2>0
  <2>1. UNCHANGED <<at, iter, rows, stored, interrupted, values, draws>>
    BY <1>9 DEF ClaimsOne, chain, buffers
  <2>2. phase' = [phase EXCEPT ![c] = "init"]
    BY <1>9, <2>5 DEF ClaimsOne
  <2>3. \A d \in Chains : d # c => RowOK(d)'
    <3> SUFFICES ASSUME NEW d \in Chains, d # c PROVE RowOK(d)'
      OBVIOUS
    <3>1. /\ rows'[d] = rows[d] /\ values'[d] = values[d] /\ phase'[d] = phase[d] /\ iter'[d] = iter[d]
          /\ stored'[d] = stored[d] /\ interrupted'[d] = interrupted[d] /\ draws'[d] = draws[d]
      BY <1>d, <2>1, <2>2
    <3> QED
      BY <1>a, <1>b, <2>1, <3>1, RowFrame
  <2>9. RowOK(c)'
    <3>1. phase[c] = "todo" /\ phase'[c] = "init"
      BY <1>d, <2>0, <2>2, <2>5
    <3>2. Numbered(AllKept, rows[c])'
      BY <1>f, <2>1
    <3> QED
      BY <1>b, <1>g, <2>1, <3>1, <3>2 DEF RowOK, Sampling
  <2> QED
    BY <2>3, <2>9 DEF RowsInv
<1>10. ASSUME NEW w \in Workers, ClaimsNone(w) PROVE RowsInv'
  <2>1. UNCHANGED <<rows, values, phase, iter, stored, interrupted, draws>> /\ (at' = "returned" <=> at = "returned")
    BY <1>10, <1>e DEF ClaimsNone, chain, buffers, Runners
  <2> QED
    BY <1>c, <2>1
<1>11. CASE MainDone
  <2>1. UNCHANGED <<rows, values, phase, iter, stored, interrupted, draws>> /\ (at' = "returned" <=> at = "returned")
    BY <1>11, <1>e DEF MainDone, chain, buffers, Runners
  <2> QED
    BY <1>c, <2>1
<1>12. ASSUME NEW w \in Workers, Leaves(w) PROVE RowsInv'
  <2>1. UNCHANGED <<rows, values, phase, iter, stored, interrupted, draws>> /\ (at' = "returned" <=> at = "returned")
    BY <1>12, <1>e DEF Leaves, chain, buffers, Runners
  <2> QED
    BY <1>c, <2>1
<1>13. ASSUME NEW r \in Runners, NEW c \in Chains, Hand(r, c), Fails(r, c)
      PROVE  RowsInv'
  <2>1. UNCHANGED <<at, values, interrupted, draws>>
    BY <1>13 DEF Fails, chain, buffers
  <2>2. /\ phase' = [phase EXCEPT ![c] = "failed"] /\ rows' = [rows EXCEPT ![c] = <<>>]
        /\ iter' = [iter EXCEPT ![c] = 0] /\ stored' = [stored EXCEPT ![c] = 0]
    BY <1>13 DEF Fails
  <2>3. \A d \in Chains : d # c => RowOK(d)'
    <3> SUFFICES ASSUME NEW d \in Chains, d # c PROVE RowOK(d)'
      OBVIOUS
    <3>1. /\ rows'[d] = rows[d] /\ values'[d] = values[d] /\ phase'[d] = phase[d] /\ iter'[d] = iter[d]
          /\ stored'[d] = stored[d] /\ interrupted'[d] = interrupted[d] /\ draws'[d] = draws[d]
      BY <1>d, <2>1, <2>2
    <3> QED
      BY <1>a, <1>b, <2>1, <3>1, RowFrame
  <2>9. RowOK(c)'
    <3>1. phase'[c] = "failed" /\ rows'[c] = <<>> /\ iter'[c] = 0 /\ stored'[c] = 0
      BY <1>d, <2>2
    <3>2. Numbered(AllKept, rows[c])'
      BY <3>1 DEF Numbered
    <3>3. at # "returned"
      BY <1>13, <1>e DEF Fails
    <3> QED
      BY <1>b, <2>1, <3>1, <3>2, <3>3 DEF RowOK, Sampling
  <2> QED
    BY <2>3, <2>9 DEF RowsInv
<1>14. ASSUME NEW r \in Runners, NEW c \in Chains, Hand(r, c), WarmsUp(r, c)
      PROVE  RowsInv'
  <2>1. UNCHANGED <<at, iter, rows, stored, interrupted, values, draws>>
    BY <1>14 DEF WarmsUp, chain, buffers
  <2>2. phase' = [phase EXCEPT ![c] = "warmup"]
    BY <1>14 DEF WarmsUp
  <2>3. \A d \in Chains : d # c => RowOK(d)'
    <3> SUFFICES ASSUME NEW d \in Chains, d # c PROVE RowOK(d)'
      OBVIOUS
    <3>1. /\ rows'[d] = rows[d] /\ values'[d] = values[d] /\ phase'[d] = phase[d] /\ iter'[d] = iter[d]
          /\ stored'[d] = stored[d] /\ interrupted'[d] = interrupted[d] /\ draws'[d] = draws[d]
      BY <1>d, <2>1, <2>2
    <3> QED
      BY <1>a, <1>b, <2>1, <3>1, RowFrame
  <2>9. RowOK(c)'
    <3>1. phase[c] = "init" /\ phase'[c] = "warmup"
      BY <1>14, <1>d, <2>2, HandFacts DEF WarmsUp
    <3>2. Numbered(AllKept, rows[c])'
      BY <1>f, <2>1
    <3> QED
      BY <1>b, <1>g, <2>1, <3>1, <3>2 DEF RowOK, Sampling
  <2> QED
    BY <2>3, <2>9 DEF RowsInv
<1>15. ASSUME NEW r \in Runners, NEW c \in Chains, Hand(r, c), StartsSampling(r, c)
      PROVE  RowsInv'
  <2>1. UNCHANGED <<at, rows, stored, interrupted, values, draws>>
    BY <1>15 DEF StartsSampling, chain, buffers
  <2>2. phase' = [phase EXCEPT ![c] = "sampling"] /\ iter' = [iter EXCEPT ![c] = 0]
    BY <1>15 DEF StartsSampling
  <2>3. \A d \in Chains : d # c => RowOK(d)'
    <3> SUFFICES ASSUME NEW d \in Chains, d # c PROVE RowOK(d)'
      OBVIOUS
    <3>1. /\ rows'[d] = rows[d] /\ values'[d] = values[d] /\ phase'[d] = phase[d] /\ iter'[d] = iter[d]
          /\ stored'[d] = stored[d] /\ interrupted'[d] = interrupted[d] /\ draws'[d] = draws[d]
      BY <1>d, <2>1, <2>2
    <3> QED
      BY <1>a, <1>b, <2>1, <3>1, RowFrame
  <2>9. RowOK(c)'
    <3>1. phase[c] = "warmup" /\ phase'[c] = "sampling"
      BY <1>15, <1>d, <2>2 DEF StartsSampling
    <3>2. Numbered(AllKept, rows[c])'
      BY <1>f, <2>1
    <3> QED
      BY <1>b, <1>g, <2>1, <3>1, <3>2 DEF RowOK, Sampling
  <2> QED
    BY <2>3, <2>9 DEF RowsInv
<1>16. ASSUME NEW r \in Runners, NEW c \in Chains, Hand(r, c), NEW i \in BOOLEAN, Returns(r, c, i)
      PROVE  RowsInv'
  <2>1. UNCHANGED <<at, rows, values, draws>>
    BY <1>16 DEF Returns, chain, buffers
  <2>2. /\ phase' = [phase EXCEPT ![c] = "done"] /\ iter' = [iter EXCEPT ![c] = 0] /\ stored' = [stored EXCEPT ![c] = 0]
        /\ interrupted' = [interrupted EXCEPT ![c] = i \/ interrupted[c]]
    BY <1>16 DEF Returns
  <2>3. \A d \in Chains : d # c => RowOK(d)'
    <3> SUFFICES ASSUME NEW d \in Chains, d # c PROVE RowOK(d)'
      OBVIOUS
    <3>1. /\ rows'[d] = rows[d] /\ values'[d] = values[d] /\ phase'[d] = phase[d] /\ iter'[d] = iter[d]
          /\ stored'[d] = stored[d] /\ interrupted'[d] = interrupted[d] /\ draws'[d] = draws[d]
      BY <1>d, <2>1, <2>2
    <3> QED
      BY <1>a, <1>b, <2>1, <3>1, RowFrame
  <2>9. RowOK(c)'
    <3>1. pc[r] = "check" /\ phase[c] \in Sampling /\ phase'[c] = "done" /\ (i => interrupted'[c])
      BY <1>16, <1>d, <2>2, HandFacts DEF Returns, Sampling
    <3>2. Numbered(AllKept, rows[c])'
      BY <1>f, <2>1
    <3>3. ~i => Len(rows[c]) = Cardinality(AllKept)
      <4> SUFFICES ASSUME ~i PROVE Len(rows[c]) = Cardinality(AllKept)
        OBVIOUS
      <4>1. phase[c] = "sampling" /\ iter[c] = opts.samples /\ job[r] = c
        BY <1>16, <3>1 DEF Returns, Hand, Sampling
      <4>2. Len(rows[c]) = Cardinality(Before(AllKept, <<phase[c], iter[c]>>))
        BY <3>1, <4>1 DEF Good, PlaceInv, PlaceOK
      <4> QED
        BY <4>1, <4>2, BeforeEnds
    <3>4. values[c] = Top(rows[c])
      BY <1>b, <3>1 DEF RowOK, Sampling
    <3> QED
      BY <1>a, <1>b, <1>g, <2>1, <3>1, <3>2, <3>3, <3>4 DEF RowOK, Sampling
  <2> QED
    BY <2>3, <2>9 DEF RowsInv
<1>17. ASSUME NEW r \in Runners, NEW c \in Chains, Hand(r, c), GoesOn(r, c)
      PROVE  RowsInv'
  <2>1. UNCHANGED <<rows, values, phase, iter, stored, interrupted, draws>> /\ (at' = "returned" <=> at = "returned")
    BY <1>17, <1>e DEF GoesOn, chain, buffers, Runners
  <2> QED
    BY <1>c, <2>1
<1>18. ASSUME NEW r \in Runners, NEW c \in Chains, Hand(r, c), Drops(r, c)
      PROVE  RowsInv'
  <2>1. UNCHANGED <<rows, values, phase, iter, stored, interrupted, draws>> /\ (at' = "returned" <=> at = "returned")
    BY <1>18, <1>e DEF Drops, chain, buffers, Runners
  <2> QED
    BY <1>c, <2>1
<1>19. ASSUME NEW r \in Runners, NEW c \in Chains, Hand(r, c), Stores(r, c)
      PROVE  RowsInv'
  <2>1. UNCHANGED <<at, phase, iter, interrupted, draws>>
    BY <1>19 DEF Stores, chain, buffers
  <2>2. /\ rows' = [rows EXCEPT ![c] = Append(rows[c], Here(c))]
        /\ values' = [values EXCEPT ![c] = Top(Append(rows[c], Here(c)))] /\ stored' = [stored EXCEPT ![c] = @ + 1]
    BY <1>19 DEF Stores
  <2>3. \A d \in Chains : d # c => RowOK(d)'
    <3> SUFFICES ASSUME NEW d \in Chains, d # c PROVE RowOK(d)'
      OBVIOUS
    <3>1. /\ rows'[d] = rows[d] /\ values'[d] = values[d] /\ phase'[d] = phase[d] /\ iter'[d] = iter[d]
          /\ stored'[d] = stored[d] /\ interrupted'[d] = interrupted[d] /\ draws'[d] = draws[d]
      BY <1>d, <2>1, <2>2
    <3> QED
      BY <1>a, <1>b, <2>1, <3>1, RowFrame
  <2>9. RowOK(c)'
    <3> DEFINE s == rows[c]
               h == Here(c)
    <3>1. /\ rows'[c] = Append(s, h) /\ values'[c] = Top(Append(s, h)) /\ stored'[c] = stored[c] + 1
          /\ s \in Seq(Transitions) /\ Numbered(AllKept, s)
      BY <1>b, <1>d, <2>2 DEF RowOK
    <3>2. pc[r] = "step" /\ job[r] = c /\ phase[c] \in Sampling /\ Keep(phase[c] = "warmup", iter[c])
      BY <1>19, HandFacts DEF Stores, Hand, Sampling
    <3>3. /\ stored[c] = Len(s) /\ Len(s) = Cardinality(Before(AllKept, h))
          /\ iter[c] \in Nat /\ iter[c] < Size(phase[c])
      BY <3>2, RowRoom DEF Good
    <3>4. h \in AllKept
      BY <3>2, <3>3, BeforeStep DEF Here
    <3>5. h \in Transitions
      BY <3>2, <3>3 DEF Here, Transitions, Sampling
    <3> HIDE DEF s, h
    <3>6. Numbered(AllKept, Append(s, h)) /\ Len(Append(s, h)) = Len(s) + 1
      <4>1. /\ Len(s) \in Nat /\ Len(Append(s, h)) = Len(s) + 1
            /\ \A k \in 1 .. Len(s) : Append(s, h)[k] = s[k]
            /\ Append(s, h)[Len(s) + 1] = h
        BY <3>1, <3>5, AppendProperties, LenProperties
      <4> SUFFICES ASSUME NEW k \in 1 .. Len(s) + 1
                   PROVE  Append(s, h)[k] \in AllKept
                          /\ Cardinality(Before(AllKept, Append(s, h)[k])) = k - 1
        BY <4>1 DEF Numbered
      <4>2. CASE k \in 1 .. Len(s)
        BY <3>1, <4>1, <4>2 DEF Numbered
      <4>3. CASE k = Len(s) + 1
        BY <3>3, <3>4, <4>1, <4>3
      <4> QED
        BY <4>1, <4>2, <4>3
    <3>7. Numbered(AllKept, rows[c])'
      BY <1>a, <3>1, <3>6 DEF Numbered, Before, Earlier
    <3>8. stored'[c] = Len(rows'[c]) /\ values'[c] = Top(rows[c])'
      <4>1. Top(rows[c])' = Top(Append(s, h))
        BY <1>a, <3>1 DEF Top, Least
      <4> QED
        BY <3>1, <3>3, <3>6, <4>1
    <3>9. phase'[c] \in Sampling /\ draws'[c] = draws[c] /\ at' = at /\ at # "returned"
      BY <1>19, <1>e, <2>1, <3>2 DEF Stores
    <3>10. draws[c] = <<>>
      BY <1>b, <3>9 DEF RowOK
    <3> QED
      BY <3>7, <3>8, <3>9, <3>10 DEF RowOK, Sampling
  <2> QED
    BY <2>3, <2>9 DEF RowsInv
<1>20. ASSUME NEW r \in Runners, NEW c \in Chains, Hand(r, c), Advances(r, c),
             Silent \/ (r = Main /\ Told(c)) \/ (r # Main /\ Enqueued(c))
      PROVE  RowsInv'
  <2>1. UNCHANGED <<at, phase, rows, stored, interrupted, values, draws>>
    BY <1>20 DEF Advances, chain, buffers
  <2>2. iter' = [iter EXCEPT ![c] = @ + 1]
    BY <1>20 DEF Advances
  <2>3. \A d \in Chains : d # c => RowOK(d)'
    <3> SUFFICES ASSUME NEW d \in Chains, d # c PROVE RowOK(d)'
      OBVIOUS
    <3>1. /\ rows'[d] = rows[d] /\ values'[d] = values[d] /\ phase'[d] = phase[d] /\ iter'[d] = iter[d]
          /\ stored'[d] = stored[d] /\ interrupted'[d] = interrupted[d] /\ draws'[d] = draws[d]
      BY <1>d, <2>1, <2>2
    <3> QED
      BY <1>a, <1>b, <2>1, <3>1, RowFrame
  <2>9. RowOK(c)'
    <3>1. phase[c] \in Sampling
      BY <1>20, HandFacts DEF Advances, Sampling
    <3>2. Numbered(AllKept, rows[c])'
      BY <1>f, <2>1
    <3> QED
      BY <1>a, <1>b, <1>g, <2>1, <3>1, <3>2 DEF RowOK, Sampling
  <2> QED
    BY <2>3, <2>9 DEF RowsInv
<1>21. ASSUME NEW r \in Runners, pc[r] \in Active, job[r] \in Chains, phase[job[r]] \in Sampling \cup {"init"}, Works(r, job[r])
      PROVE  RowsInv'
  <2>1. Hand(r, job[r])
    BY <1>21 DEF Hand
  <2> QED
    BY <1>21, <2>1, <1>13, <1>14, <1>15, <1>16, <1>17, <1>18, <1>19, <1>20 DEF Works
<1> QED
  BY <1>1, <1>2, <1>3, <1>4, <1>5, <1>6, <1>7, <1>8, <1>9, <1>10, <1>11, <1>12, <1>21 DEF Steps

(* A runner keeps its place when a step leaves it and its chain alone. *)
LEMMA PlaceFrame ==
  ASSUME NEW s \in Runners, PlaceOK(s), AllKept' = AllKept, opts' = opts,
         pc'[s] = pc[s],
         pc[s] \in Active => /\ job'[s] = job[s]
                             /\ phase'[job[s]] = phase[job[s]] /\ iter'[job[s]] = iter[job[s]]
                             /\ rows'[job[s]] = rows[job[s]]
  PROVE  PlaceOK(s)'
<1>1. CASE pc[s] \in Active
  <2>1. /\ pc'[s] = pc[s] /\ job'[s] = job[s]
        /\ phase'[job'[s]] = phase[job[s]] /\ iter'[job'[s]] = iter[job[s]] /\ rows'[job'[s]] = rows[job[s]]
    BY <1>1
  <2>2. \A t : Before(AllKept, t)' = Before(AllKept, t)
    BY DEF Before, Earlier
  <2> QED
    BY <2>1, <2>2 DEF PlaceOK, Limit, Before, Earlier
<1>2. CASE pc[s] \notin Active
  BY <1>2 DEF PlaceOK, Active
<1> QED
  BY <1>1, <1>2

(* A runner that is in no chain's loops has no place to keep. *)
LEMMA NoPlace ==
  ASSUME NEW s \in Runners, pc'[s] \notin {"check", "step", "report"}
  PROVE  PlaceOK(s)'
  BY DEF PlaceOK

(* A runner's place in its loops keeps giving the number of its chain's rows. *)
LEMMA PlaceStep ==
  ASSUME TypeOK, OneRunner, ~Over, Good, opts' = opts, Steps
  PROVE  PlaceInv'
<1>a. AllKept' = AllKept
  BY OptionsStay
<1>b. \A r \in Runners : PlaceOK(r)
  BY DEF Good, PlaceInv
<1>c. UNCHANGED <<pc, job, phase, iter, rows>> => PlaceInv'
  BY <1>a, <1>b, PlaceFrame DEF PlaceInv
<1>d. /\ phase \in [Chains -> {"todo", "init", "warmup", "sampling", "done", "failed"}]
      /\ iter \in [Chains -> Nat] /\ rows \in [Chains -> Seq(Transitions)]
      /\ pc \in [Runners -> {"unborn", "claim", "init", "check", "step", "report", "leave", "exited"}]
      /\ job \in [Runners -> Chains \cup {None}]
      /\ Main \in Runners /\ Workers \subseteq Runners
  BY DEF TypeOK, Runners
<1>e. /\ \A r, s \in Runners : job[r] = job[s] /\ job[r] # None => r = s
      /\ None \notin Chains /\ \A r \in Runners : pc[r] \in Active => job[r] \in Chains /\ job[r] < next
      /\ next \in Nat /\ Chains \subseteq Int
  <2>1. Chains \subseteq Int
    BY ThreadFacts DEF Chains
  <2>2. None \notin Chains
    BY <2>1, NoneAssumption
  <2> QED
    BY <2>1, <2>2 DEF OneRunner, Good, RunnerInv, TypeOK
<1>f. ASSUME NEW r \in Runners, UNCHANGED <<job, phase, iter, rows>>, NEW p, pc' = [pc EXCEPT ![r] = p],
             p \notin {"check", "step", "report"}
      PROVE  PlaceInv'
  <2> SUFFICES ASSUME NEW s \in Runners PROVE PlaceOK(s)'
    BY DEF PlaceInv
  <2>1. CASE s = r
    BY <1>d, <1>f, <2>1, NoPlace
  <2>2. CASE s # r
    <3>1. pc'[s] = pc[s]
      BY <1>d, <1>f, <2>2
    <3> QED
      BY <1>a, <1>b, <1>f, <3>1, PlaceFrame
  <2> QED
    BY <2>1, <2>2
<1>1. CASE BeginAlone
  <2>1. UNCHANGED <<job, phase, iter, rows>> /\ pc' = [pc EXCEPT ![Main] = "claim"]
    BY <1>1 DEF BeginAlone, chain
  <2> QED
    BY <1>d, <1>f, <2>1
<1>2. CASE BeginPool
  <2>1. UNCHANGED <<pc, job, phase, iter, rows>>
    BY <1>2 DEF BeginPool, chain
  <2> QED
    BY <1>c, <2>1
<1>3. ASSUME NEW w \in Workers, SpawnOne(w) PROVE PlaceInv'
  <2>1. UNCHANGED <<job, phase, iter, rows>> /\ pc' = [pc EXCEPT ![w] = "claim"]
    BY <1>3 DEF SpawnOne, chain
  <2> QED
    BY <1>d, <1>f, <2>1
<1>4. CASE CallerMoves
  <2>1. UNCHANGED <<pc, job, phase, iter, rows>>
    BY <1>4 DEF CallerMoves, Moves, chain
  <2> QED
    BY <1>c, <2>1
<1>5. CASE Takes
  <2>1. UNCHANGED <<pc, job, phase, iter, rows>>
    BY <1>5 DEF Takes, chain
  <2> QED
    BY <1>c, <2>1
<1>6. CASE Observes
  <2>1. UNCHANGED <<pc, job, phase, iter, rows>>
    BY <1>6 DEF Observes, chain
  <2> QED
    BY <1>c, <2>1
<1>7. CASE Discards
  <2>1. UNCHANGED <<pc, job, phase, iter, rows>>
    BY <1>7 DEF Discards, chain
  <2> QED
    BY <1>c, <2>1
<1>8. CASE CopyOut
  <2>1. UNCHANGED <<pc, job, phase, iter, rows>>
    BY <1>8 DEF CopyOut, chain
  <2> QED
    BY <1>c, <2>1
<1>9. ASSUME NEW r \in Runners, ClaimsOne(r) PROVE PlaceInv'
  <2>1. UNCHANGED <<iter, rows>> /\ pc' = [pc EXCEPT ![r] = "init"] /\ job' = [job EXCEPT ![r] = next]
        /\ phase' = [phase EXCEPT ![next] = "init"]
    BY <1>9 DEF ClaimsOne
  <2> SUFFICES ASSUME NEW s \in Runners PROVE PlaceOK(s)'
    BY DEF PlaceInv
  <2>2. CASE s = r
    BY <1>d, <2>1, <2>2, NoPlace
  <2>3. CASE s # r
    <3>1. pc'[s] = pc[s] /\ job'[s] = job[s]
      BY <1>d, <2>1, <2>3
    <3>2. pc[s] \in Active => job[s] # next /\ job[s] \in Chains
      BY <1>e
    <3>3. pc[s] \in Active => phase'[job[s]] = phase[job[s]]
      BY <1>d, <2>1, <3>2
    <3> QED
      BY <1>a, <1>b, <2>1, <3>1, <3>3, PlaceFrame
  <2> QED
    BY <2>2, <2>3
<1>10. ASSUME NEW w \in Workers, ClaimsNone(w) PROVE PlaceInv'
  <2>1. UNCHANGED <<phase, iter, rows>> /\ pc' = [pc EXCEPT ![w] = "leave"] /\ job' = [job EXCEPT ![w] = None]
    BY <1>10 DEF ClaimsNone, chain
  <2> SUFFICES ASSUME NEW s \in Runners PROVE PlaceOK(s)'
    BY DEF PlaceInv
  <2>2. CASE s = w
    BY <1>d, <2>1, <2>2, NoPlace
  <2>3. CASE s # w
    <3>1. pc'[s] = pc[s] /\ job'[s] = job[s]
      BY <1>d, <2>1, <2>3
    <3> QED
      BY <1>a, <1>b, <2>1, <3>1, PlaceFrame
  <2> QED
    BY <2>2, <2>3
<1>11. CASE MainDone
  <2>1. UNCHANGED <<phase, iter, rows>> /\ pc' = [pc EXCEPT ![Main] = "exited"] /\ job' = [job EXCEPT ![Main] = None]
    BY <1>11 DEF MainDone, chain
  <2> SUFFICES ASSUME NEW s \in Runners PROVE PlaceOK(s)'
    BY DEF PlaceInv
  <2>2. CASE s = Main
    BY <1>d, <2>1, <2>2, NoPlace
  <2>3. CASE s # Main
    <3>1. pc'[s] = pc[s] /\ job'[s] = job[s]
      BY <1>d, <2>1, <2>3
    <3> QED
      BY <1>a, <1>b, <2>1, <3>1, PlaceFrame
  <2> QED
    BY <2>2, <2>3
<1>12. ASSUME NEW w \in Workers, Leaves(w) PROVE PlaceInv'
  <2>1. UNCHANGED <<job, phase, iter, rows>> /\ pc' = [pc EXCEPT ![w] = "exited"]
    BY <1>12 DEF Leaves, chain
  <2> QED
    BY <1>d, <1>f, <2>1
<1>13. ASSUME NEW r \in Runners, NEW c \in Chains, Hand(r, c), Fails(r, c)
      PROVE  PlaceInv'
  <2>1. UNCHANGED <<job, opts>>
    BY <1>13 DEF Fails, chain
  <2>2. /\ pc' = [pc EXCEPT ![r] = "claim"] /\ phase' = [phase EXCEPT ![c] = "failed"]
        /\ rows' = [rows EXCEPT ![c] = <<>>] /\ iter' = [iter EXCEPT ![c] = 0]
    BY <1>13 DEF Fails
  <2>3. job[r] = c /\ pc[r] \in Active
    BY <1>13 DEF Hand
  <2>4. \A s \in Runners : s # r => PlaceOK(s)'
    <3> SUFFICES ASSUME NEW s \in Runners, s # r PROVE PlaceOK(s)'
      OBVIOUS
    <3>1. pc'[s] = pc[s] /\ (pc[s] \in Active => job[s] # c /\ job[s] \in Chains)
      BY <1>d, <1>e, <2>1, <2>2, <2>3
    <3>2. pc[s] \in Active => /\ phase'[job[s]] = phase[job[s]] /\ iter'[job[s]] = iter[job[s]]
                             /\ rows'[job[s]] = rows[job[s]]
      BY <1>d, <2>1, <2>2, <3>1
    <3> QED
      BY <1>a, <1>b, <2>1, <3>1, <3>2, PlaceFrame
  <2>9. PlaceOK(r)'
    BY <1>d, <2>2, NoPlace
  <2> QED
    BY <2>4, <2>9 DEF PlaceInv
<1>14. ASSUME NEW r \in Runners, NEW c \in Chains, Hand(r, c), WarmsUp(r, c)
      PROVE  PlaceInv'
  <2>1. UNCHANGED <<job, iter, rows>>
    BY <1>14 DEF WarmsUp, chain
  <2>2. pc' = [pc EXCEPT ![r] = "check"] /\ phase' = [phase EXCEPT ![c] = "warmup"]
    BY <1>14 DEF WarmsUp
  <2>3. job[r] = c /\ pc[r] \in Active
    BY <1>14 DEF Hand
  <2>4. \A s \in Runners : s # r => PlaceOK(s)'
    <3> SUFFICES ASSUME NEW s \in Runners, s # r PROVE PlaceOK(s)'
      OBVIOUS
    <3>1. pc'[s] = pc[s] /\ (pc[s] \in Active => job[s] # c /\ job[s] \in Chains)
      BY <1>d, <1>e, <2>1, <2>2, <2>3
    <3>2. pc[s] \in Active => /\ phase'[job[s]] = phase[job[s]] /\ iter'[job[s]] = iter[job[s]]
                             /\ rows'[job[s]] = rows[job[s]]
      BY <1>d, <2>1, <2>2, <3>1
    <3> QED
      BY <1>a, <1>b, <2>1, <3>1, <3>2, PlaceFrame
  <2>9. PlaceOK(r)'
    <3>0. /\ job'[r] = c /\ \A t : Before(AllKept, t)' = Before(AllKept, t)
      BY <1>a, <2>1, <2>3 DEF Before, Earlier
    <3>1. /\ pc'[r] = "check" /\ phase'[c] = "warmup" /\ iter'[c] = iter[c] /\ rows'[c] = rows[c]
      BY <1>d, <2>1, <2>2
    <3>2. /\ iter'[c] = 0 /\ Len(rows'[c]) = 0 /\ Cardinality(Before(AllKept, <<"warmup", 0>>)) = 0
          /\ opts'.warmup \in Nat
      <4>1. phase[c] = "init"
        BY <1>14, HandFacts DEF WarmsUp
      <4>2. iter[c] = 0 /\ rows[c] = <<>>
        BY <4>1 DEF Good, RowsInv, RowOK
      <4>3. Cardinality(Before(AllKept, <<"warmup", 0>>)) = 0
        BY BeforeEnds, FS_EmptySet
      <4>4. opts'.warmup \in Nat
        BY OptionFacts
      <4> QED
        BY <3>1, <4>2, <4>3, <4>4
    <3> QED
      BY <1>a, <3>0, <3>1, <3>2 DEF PlaceOK, Limit, Before, Earlier
  <2> QED
    BY <2>4, <2>9 DEF PlaceInv
<1>15. ASSUME NEW r \in Runners, NEW c \in Chains, Hand(r, c), StartsSampling(r, c)
      PROVE  PlaceInv'
  <2>1. UNCHANGED <<job, pc, rows>>
    BY <1>15 DEF StartsSampling, chain
  <2>2. phase' = [phase EXCEPT ![c] = "sampling"] /\ iter' = [iter EXCEPT ![c] = 0]
    BY <1>15 DEF StartsSampling
  <2>3. job[r] = c /\ pc[r] \in Active
    BY <1>15 DEF Hand
  <2>4. \A s \in Runners : s # r => PlaceOK(s)'
    <3> SUFFICES ASSUME NEW s \in Runners, s # r PROVE PlaceOK(s)'
      OBVIOUS
    <3>1. pc'[s] = pc[s] /\ (pc[s] \in Active => job[s] # c /\ job[s] \in Chains)
      BY <1>d, <1>e, <2>1, <2>2, <2>3
    <3>2. pc[s] \in Active => /\ phase'[job[s]] = phase[job[s]] /\ iter'[job[s]] = iter[job[s]]
                             /\ rows'[job[s]] = rows[job[s]]
      BY <1>d, <2>1, <2>2, <3>1
    <3> QED
      BY <1>a, <1>b, <2>1, <3>1, <3>2, PlaceFrame
  <2>9. PlaceOK(r)'
    <3>0. /\ job'[r] = c /\ \A t : Before(AllKept, t)' = Before(AllKept, t)
      BY <1>a, <2>1, <2>3 DEF Before, Earlier
    <3>1. /\ pc'[r] = "check" /\ phase'[c] = "sampling" /\ iter'[c] = 0 /\ rows'[c] = rows[c]
      BY <1>15, <1>d, <2>1, <2>2 DEF StartsSampling
    <3>2. /\ Len(rows[c]) = Cardinality(Before(AllKept, <<"sampling", 0>>)) /\ opts'.samples \in Nat
      <4>1. Len(rows[c]) = Cardinality(Before(AllKept, <<phase[c], iter[c]>>))
        BY <1>15, <1>b, <2>3 DEF StartsSampling, PlaceOK
      <4>2. phase[c] = "warmup" /\ iter[c] = opts.warmup
        BY <1>15 DEF StartsSampling
      <4> QED
        BY <4>1, <4>2, BeforeEnds, OptionFacts
    <3> QED
      BY <1>a, <3>0, <3>1, <3>2 DEF PlaceOK, Limit, Before, Earlier
  <2> QED
    BY <2>4, <2>9 DEF PlaceInv
<1>16. ASSUME NEW r \in Runners, NEW c \in Chains, Hand(r, c), NEW i \in BOOLEAN, Returns(r, c, i)
      PROVE  PlaceInv'
  <2>1. UNCHANGED <<job, rows>>
    BY <1>16 DEF Returns, chain
  <2>2. /\ pc' = [pc EXCEPT ![r] = "claim"] /\ phase' = [phase EXCEPT ![c] = "done"]
        /\ iter' = [iter EXCEPT ![c] = 0]
    BY <1>16 DEF Returns
  <2>3. job[r] = c /\ pc[r] \in Active
    BY <1>16 DEF Hand
  <2>4. \A s \in Runners : s # r => PlaceOK(s)'
    <3> SUFFICES ASSUME NEW s \in Runners, s # r PROVE PlaceOK(s)'
      OBVIOUS
    <3>1. pc'[s] = pc[s] /\ (pc[s] \in Active => job[s] # c /\ job[s] \in Chains)
      BY <1>d, <1>e, <2>1, <2>2, <2>3
    <3>2. pc[s] \in Active => /\ phase'[job[s]] = phase[job[s]] /\ iter'[job[s]] = iter[job[s]]
                             /\ rows'[job[s]] = rows[job[s]]
      BY <1>d, <2>1, <2>2, <3>1
    <3> QED
      BY <1>a, <1>b, <2>1, <3>1, <3>2, PlaceFrame
  <2>9. PlaceOK(r)'
    BY <1>d, <2>2, NoPlace
  <2> QED
    BY <2>4, <2>9 DEF PlaceInv
<1>17. ASSUME NEW r \in Runners, NEW c \in Chains, Hand(r, c), GoesOn(r, c)
      PROVE  PlaceInv'
  <2>1. UNCHANGED <<job, phase, iter, rows>>
    BY <1>17 DEF GoesOn, chain
  <2>2. pc' = [pc EXCEPT ![r] = "step"]
    BY <1>17 DEF GoesOn
  <2>3. job[r] = c /\ pc[r] \in Active
    BY <1>17 DEF Hand
  <2>4. \A s \in Runners : s # r => PlaceOK(s)'
    <3> SUFFICES ASSUME NEW s \in Runners, s # r PROVE PlaceOK(s)'
      OBVIOUS
    <3>1. pc'[s] = pc[s] /\ (pc[s] \in Active => job[s] # c /\ job[s] \in Chains)
      BY <1>d, <1>e, <2>1, <2>2, <2>3
    <3>2. pc[s] \in Active => /\ phase'[job[s]] = phase[job[s]] /\ iter'[job[s]] = iter[job[s]]
                             /\ rows'[job[s]] = rows[job[s]]
      BY <1>d, <2>1, <2>2, <3>1
    <3> QED
      BY <1>a, <1>b, <2>1, <3>1, <3>2, PlaceFrame
  <2>9. PlaceOK(r)'
    <3>0. /\ job'[r] = c /\ \A t : Before(AllKept, t)' = Before(AllKept, t)
      BY <1>a, <2>1, <2>3 DEF Before, Earlier
    <3>1. /\ pc'[r] = "step" /\ phase'[c] = phase[c] /\ iter'[c] = iter[c] /\ rows'[c] = rows[c]
      BY <1>d, <2>1, <2>2
    <3>2. /\ Len(rows[c]) = Cardinality(Before(AllKept, <<phase[c], iter[c]>>)) /\ iter[c] < Limit(c)
      <4>1. iter[c] \in Nat /\ Limit(c) \in Nat /\ iter[c] # Limit(c)
        BY <1>17, <1>d, OptionFacts DEF GoesOn, Limit
      <4>2. pc[r] = "check" /\ PlaceOK(r) /\ job[r] = c
        BY <1>17, <1>b, <2>3 DEF GoesOn
      <4>3. iter[c] <= Limit(c) /\ Len(rows[c]) = Cardinality(Before(AllKept, <<phase[c], iter[c]>>))
        BY <4>2 DEF PlaceOK
      <4> QED
        BY <4>1, <4>3
    <3>3. iter[c] <= Limit(c) /\ Limit(c)' = Limit(c)
      BY <1>d, <2>1, <3>1, <3>2, OptionFacts DEF Limit
    <3> QED
      BY <1>a, <3>0, <3>1, <3>2, <3>3 DEF PlaceOK, Before, Earlier, Limit
  <2> QED
    BY <2>4, <2>9 DEF PlaceInv
<1>18. ASSUME NEW r \in Runners, NEW c \in Chains, Hand(r, c), Drops(r, c)
      PROVE  PlaceInv'
  <2>1. UNCHANGED <<job, phase, iter, rows>>
    BY <1>18 DEF Drops, chain
  <2>2. pc' = [pc EXCEPT ![r] = "report"]
    BY <1>18 DEF Drops
  <2>3. job[r] = c /\ pc[r] \in Active
    BY <1>18 DEF Hand
  <2>4. \A s \in Runners : s # r => PlaceOK(s)'
    <3> SUFFICES ASSUME NEW s \in Runners, s # r PROVE PlaceOK(s)'
      OBVIOUS
    <3>1. pc'[s] = pc[s] /\ (pc[s] \in Active => job[s] # c /\ job[s] \in Chains)
      BY <1>d, <1>e, <2>1, <2>2, <2>3
    <3>2. pc[s] \in Active => /\ phase'[job[s]] = phase[job[s]] /\ iter'[job[s]] = iter[job[s]]
                             /\ rows'[job[s]] = rows[job[s]]
      BY <1>d, <2>1, <2>2, <3>1
    <3> QED
      BY <1>a, <1>b, <2>1, <3>1, <3>2, PlaceFrame
  <2>9. PlaceOK(r)'
    <3>0. /\ job'[r] = c /\ \A t : Before(AllKept, t)' = Before(AllKept, t)
      BY <1>a, <2>1, <2>3 DEF Before, Earlier
    <3>1. /\ pc'[r] = "report" /\ phase'[c] = phase[c] /\ iter'[c] = iter[c] /\ rows'[c] = rows[c]
      BY <1>d, <2>1, <2>2
    <3>2. /\ Len(rows[c]) = Cardinality(Before(AllKept, <<phase[c], iter[c] + 1>>)) /\ iter[c] < Limit(c)
      <4>1. pc[r] = "step"
        BY <1>18 DEF Drops
      <4>2. /\ Cardinality(Before(AllKept, <<phase[c], iter[c] + 1>>)) =
                 Len(rows[c]) + (IF Keep(phase[c] = "warmup", iter[c]) THEN 1 ELSE 0)
            /\ iter[c] < Size(phase[c])
        BY <2>3, <4>1, RowRoom DEF Good
      <4>3. Len(rows[c]) \in Nat
        BY <1>d, LenProperties
      <4> QED
        BY <1>18, <4>2, <4>3 DEF Drops, Size, Limit
    <3>3. Limit(c)' = Limit(c)
      BY <2>1, <3>1 DEF Limit
    <3> QED
      BY <1>a, <3>0, <3>1, <3>2, <3>3 DEF PlaceOK, Before, Earlier
  <2> QED
    BY <2>4, <2>9 DEF PlaceInv
<1>19. ASSUME NEW r \in Runners, NEW c \in Chains, Hand(r, c), Stores(r, c)
      PROVE  PlaceInv'
  <2>1. UNCHANGED <<job, phase, iter>>
    BY <1>19 DEF Stores, chain
  <2>2. pc' = [pc EXCEPT ![r] = "report"] /\ rows' = [rows EXCEPT ![c] = Append(rows[c], Here(c))]
    BY <1>19 DEF Stores
  <2>3. job[r] = c /\ pc[r] \in Active
    BY <1>19 DEF Hand
  <2>4. \A s \in Runners : s # r => PlaceOK(s)'
    <3> SUFFICES ASSUME NEW s \in Runners, s # r PROVE PlaceOK(s)'
      OBVIOUS
    <3>1. pc'[s] = pc[s] /\ (pc[s] \in Active => job[s] # c /\ job[s] \in Chains)
      BY <1>d, <1>e, <2>1, <2>2, <2>3
    <3>2. pc[s] \in Active => /\ phase'[job[s]] = phase[job[s]] /\ iter'[job[s]] = iter[job[s]]
                             /\ rows'[job[s]] = rows[job[s]]
      BY <1>d, <2>1, <2>2, <3>1
    <3> QED
      BY <1>a, <1>b, <2>1, <3>1, <3>2, PlaceFrame
  <2>9. PlaceOK(r)'
    <3>0. /\ job'[r] = c /\ \A t : Before(AllKept, t)' = Before(AllKept, t)
      BY <1>a, <2>1, <2>3 DEF Before, Earlier
    <3>1. /\ pc'[r] = "report" /\ phase'[c] = phase[c] /\ iter'[c] = iter[c] /\ rows'[c] = Append(rows[c], Here(c))
      BY <1>d, <2>1, <2>2
    <3>2. /\ Len(rows'[c]) = Cardinality(Before(AllKept, <<phase[c], iter[c] + 1>>)) /\ iter[c] < Limit(c)
      <4>1. pc[r] = "step"
        BY <1>19 DEF Stores
      <4>2. /\ Cardinality(Before(AllKept, <<phase[c], iter[c] + 1>>)) =
                 Len(rows[c]) + (IF Keep(phase[c] = "warmup", iter[c]) THEN 1 ELSE 0)
            /\ iter[c] < Size(phase[c])
        BY <2>3, <4>1, RowRoom DEF Good
      <4>3. Here(c) \in Transitions
        BY <1>19, <1>d, HandFacts DEF Stores, Here, Transitions
      <4>4. Len(Append(rows[c], Here(c))) = Len(rows[c]) + 1
        BY <1>d, <4>3, AppendProperties
      <4> QED
        BY <1>19, <3>1, <4>2, <4>4 DEF Stores, Size, Limit
    <3>3. Limit(c)' = Limit(c)
      BY <2>1, <3>1 DEF Limit
    <3> QED
      BY <1>a, <3>0, <3>1, <3>2, <3>3 DEF PlaceOK, Before, Earlier
  <2> QED
    BY <2>4, <2>9 DEF PlaceInv
<1>20. ASSUME NEW r \in Runners, NEW c \in Chains, Hand(r, c), Advances(r, c),
             Silent \/ (r = Main /\ Told(c)) \/ (r # Main /\ Enqueued(c))
      PROVE  PlaceInv'
  <2>1. UNCHANGED <<job, phase, rows>>
    BY <1>20 DEF Advances, chain
  <2>2. pc' = [pc EXCEPT ![r] = "check"] /\ iter' = [iter EXCEPT ![c] = @ + 1]
    BY <1>20 DEF Advances
  <2>3. job[r] = c /\ pc[r] \in Active
    BY <1>20 DEF Hand
  <2>4. \A s \in Runners : s # r => PlaceOK(s)'
    <3> SUFFICES ASSUME NEW s \in Runners, s # r PROVE PlaceOK(s)'
      OBVIOUS
    <3>1. pc'[s] = pc[s] /\ (pc[s] \in Active => job[s] # c /\ job[s] \in Chains)
      BY <1>d, <1>e, <2>1, <2>2, <2>3
    <3>2. pc[s] \in Active => /\ phase'[job[s]] = phase[job[s]] /\ iter'[job[s]] = iter[job[s]]
                             /\ rows'[job[s]] = rows[job[s]]
      BY <1>d, <2>1, <2>2, <3>1
    <3> QED
      BY <1>a, <1>b, <2>1, <3>1, <3>2, PlaceFrame
  <2>9. PlaceOK(r)'
    <3>0. /\ job'[r] = c /\ \A t : Before(AllKept, t)' = Before(AllKept, t)
      BY <1>a, <2>1, <2>3 DEF Before, Earlier
    <3>1. /\ pc'[r] = "check" /\ phase'[c] = phase[c] /\ iter'[c] = iter[c] + 1 /\ rows'[c] = rows[c]
      BY <1>d, <2>1, <2>2
    <3>2. /\ Len(rows[c]) = Cardinality(Before(AllKept, <<phase[c], iter[c] + 1>>)) /\ iter[c] < Limit(c)
      BY <1>20, <1>b, <2>3 DEF Advances, PlaceOK
    <3>3. Limit(c)' = Limit(c)
      BY <2>1, <3>1 DEF Limit
    <3>4. iter[c] + 1 <= Limit(c)
      BY <1>d, <3>2, OptionFacts DEF Limit
    <3> QED
      BY <1>a, <3>0, <3>1, <3>2, <3>3, <3>4 DEF PlaceOK, Before, Earlier
  <2> QED
    BY <2>4, <2>9 DEF PlaceInv
<1>21. ASSUME NEW r \in Runners, pc[r] \in Active, job[r] \in Chains, phase[job[r]] \in Sampling \cup {"init"}, Works(r, job[r])
      PROVE  PlaceInv'
  <2>1. Hand(r, job[r])
    BY <1>21 DEF Hand
  <2> QED
    BY <1>21, <2>1, <1>13, <1>14, <1>15, <1>16, <1>17, <1>18, <1>19, <1>20 DEF Works
<1> QED
  BY <1>1, <1>2, <1>3, <1>4, <1>5, <1>6, <1>7, <1>8, <1>9, <1>10, <1>11, <1>12, <1>21 DEF Steps

(* At the join of a pool whose progress is watched every worker has left. *)
LEMMA NobodyWorks ==
  ASSUME TypeOK, Good, Pool, at \notin {"begin", "spawn"}, live = 0
  PROVE  \A w \in Workers : pc[w] = "exited" \/ pc[w] = "unborn"
<1>1. Cardinality(Gone) = Threads /\ Cardinality(Born) = Threads
  BY BornFacts, ThreadFacts DEF Good, LiveInv
<1>2. Gone = Born
  BY <1>1, BornFacts
<1> QED
  BY <1>2 DEF Gone, Born

(* A sequence is its first element and the rest. *)
LEMMA HeadThenTail ==
  ASSUME NEW q \in Seq(Event), q # <<>>
  PROVE  <<Head(q)>> \o Tail(q) = q
  BY ConcatProperties, HeadTailProperties, LenProperties, SeqEqual, SMT

(* And of an element put before a sequence these are the two. *)
LEMMA FirstThenRest ==
  ASSUME NEW e \in Event, NEW q \in Seq(Event)
  PROVE  /\ <<e>> \o q # <<>>
         /\ Head(<<e>> \o q) = e /\ Tail(<<e>> \o q) = q
  BY ConcatProperties, HeadTailProperties, LenProperties, SeqEqual, SMT

(* What is appended to the second of two sequences is appended to both. *)
LEMMA AppendBehind ==
  ASSUME NEW p \in Seq(Event), NEW q \in Seq(Event), NEW e \in Event
  PROVE  Append(p \o q, e) = p \o Append(q, e)
<1>1. <<e>> \in Seq(Event) /\ p \o q \in Seq(Event)
  BY ConcatProperties
<1>2. Append(p \o q, e) = (p \o q) \o <<e>> /\ Append(q, e) = q \o <<e>>
  BY <1>1, AppendIsConcat
<1> QED
  BY <1>1, <1>2, ConcatAssociative

(* The events owed are the one in hand and those queued, in this order. *)
LEMMA QueueStep ==
  ASSUME TypeOK, OneRunner, ~Over, Good, opts' = opts, Steps
  PROVE  QueueInv'
<1>a. Pool' = Pool
  BY OptionsStay
<1> DEFINE Quiet == ~opts.progress \/ ~Pool
           Past == {"join", "rethrow", "copy", "returned"}
           Balance == ~progressError => owed = event \o events
<1>b. /\ IF at = "observe" THEN Len(event) = 1 ELSE event = <<>>
      /\ Quiet => events = <<>> /\ event = <<>> /\ owed = <<>>
      /\ Balance /\ ordered
      /\ ~Quiet /\ at \in Past => events = <<>> /\ live = 0
  BY OptionFacts DEF Good, QueueInv
<1>c. /\ IF at' = "observe" THEN Len(event') = 1 ELSE event' = <<>>
      /\ Quiet => events' = <<>> /\ event' = <<>> /\ owed' = <<>>
      /\ Balance' /\ ordered'
      /\ ~Quiet /\ at' \in Past => events' = <<>> /\ live' = 0
      => QueueInv'
  <2>1. Quiet' = Quiet
    BY <1>a
  <2> QED
    BY <2>1, OptionFacts DEF QueueInv
<1>d. /\ owed \in Seq(Event) /\ progressError \in BOOLEAN
      /\ events \in Seq(Event) /\ event \in Seq(Event) /\ live \in Nat
  BY DEF TypeOK
<1>g. UNCHANGED <<events, event, progressError, owed, ordered>> => Balance' /\ ordered'
  BY <1>b
<1>f. UNCHANGED <<at, queue>> => QueueInv'
  BY <1>b, <1>c, <1>g DEF queue
<1>1. CASE BeginAlone
  <2>1. UNCHANGED queue /\ at = "begin" /\ at' = "loop"
    BY <1>1 DEF BeginAlone
  <2> QED
    BY <1>b, <1>c, <1>g, <2>1 DEF queue
<1>2. CASE BeginPool
  <2>1. UNCHANGED <<events, event, progressError, owed, ordered>> /\ at = "begin" /\ at' = "spawn"
    BY <1>2 DEF BeginPool
  <2> QED
    BY <1>b, <1>c, <1>g, <2>1
<1>3. ASSUME NEW w \in Workers, SpawnOne(w) PROVE QueueInv'
  <2>1. UNCHANGED <<at, queue>>
    BY <1>3 DEF SpawnOne
  <2> QED
    BY <1>f, <2>1
<1>4. CASE CallerMoves
  <2>1. /\ UNCHANGED queue /\ at # "observe" /\ at' # "observe"
        /\ ~Quiet /\ at' \in Past => at \in Past \/ (events = <<>> /\ live = 0)
    BY <1>4 DEF CallerMoves, Moves, Drained
  <2> QED
    BY <1>b, <1>c, <1>g, <2>1 DEF queue
<1>5. CASE Takes
  <2>1. /\ at = "wait" /\ events # <<>> /\ at' = "observe" /\ event' = <<Head(events)>> /\ events' = Tail(events)
        /\ UNCHANGED <<live, progressError, owed, ordered>>
    BY <1>5 DEF Takes
  <2>2. event = <<>> /\ ~Quiet
    BY <1>b, <2>1
  <2>3. <<Head(events)>> \o Tail(events) = events
    BY <1>d, <2>1, HeadThenTail
  <2>4. <<>> \o events = events
    BY <1>d, ConcatEmptySeq
  <2>5. Balance'
    BY <1>b, <2>1, <2>2, <2>3, <2>4
  <2> QED
    BY <1>b, <1>c, <2>1, <2>2, <2>5
<1>6. CASE Observes
  <2>1. /\ at = "observe" /\ ~progressError /\ at' = "poll" /\ event' = <<>>
        /\ CallObserver(event[1], owed) /\ UNCHANGED <<live, events>>
    BY <1>6 DEF Observes
  <2>2. Len(event) = 1 /\ event = <<event[1]>> /\ event[1] \in Event
    <3>1. Len(event) = 1 /\ event = <<event[1]>> /\ 1 \in 1 .. Len(event)
      BY <2>1, EventInHand
    <3> QED
      BY <1>d, <3>1, ElementOfSeq
  <2>3. ~Quiet
    BY <1>b, <2>2
  <2>4. owed = <<event[1]>> \o events
    BY <1>b, <2>1, <2>2
  <2>5. owed # <<>> /\ Head(owed) = event[1] /\ Tail(owed) = events
    BY <1>d, <2>2, <2>4, FirstThenRest
  <2>6. owed' = events /\ ordered'
    BY <1>b, <2>1, <2>5 DEF CallObserver
  <2>7. <<>> \o events = events
    BY <1>d, ConcatEmptySeq
  <2>8. Balance'
    BY <2>1, <2>6, <2>7
  <2> QED
    BY <1>c, <2>1, <2>3, <2>6, <2>8
<1>7. CASE Discards
  <2>1. at = "observe" /\ progressError /\ at' = "poll" /\ event' = <<>> /\ UNCHANGED <<live, events, progressError, owed, ordered>>
    BY <1>7 DEF Discards
  <2>2. ~Quiet
    BY <1>b, <2>1, EventInHand
  <2> QED
    BY <1>b, <1>c, <2>1, <2>2
<1>8. CASE CopyOut
  <2>1. UNCHANGED queue /\ at = "copy" /\ at' = "returned"
    BY <1>8 DEF CopyOut
  <2> QED
    BY <1>b, <1>c, <1>g, <2>1 DEF queue
<1>9. ASSUME NEW r \in Runners, ClaimsOne(r) PROVE QueueInv'
  <2>1. UNCHANGED <<at, queue>>
    BY <1>9 DEF ClaimsOne
  <2> QED
    BY <1>f, <2>1
<1>10. ASSUME NEW w \in Workers, ClaimsNone(w) PROVE QueueInv'
  <2>1. UNCHANGED <<at, queue>>
    BY <1>10 DEF ClaimsNone
  <2> QED
    BY <1>f, <2>1
<1>11. CASE MainDone
  <2>1. UNCHANGED queue /\ at # "observe" /\ at' = "rethrow" /\ Quiet
    BY <1>11 DEF MainDone, Good, StageInv
  <2> QED
    BY <1>b, <1>c, <1>g, <2>1 DEF queue
<1>12. ASSUME NEW w \in Workers, Leaves(w) PROVE QueueInv'
  <2>1. UNCHANGED <<at, events, event, progressError, owed, ordered>> /\ live > 0
    BY <1>12, LeaverIsCounted DEF Leaves, Good
  <2> QED
    BY <1>b, <1>c, <1>d, <1>g, <2>1
<1>13. ASSUME NEW r \in Runners, NEW c \in Chains, Hand(r, c), Fails(r, c)
      PROVE  QueueInv'
  <2>1. UNCHANGED <<at, queue>>
    BY <1>13 DEF Fails
  <2> QED
    BY <1>f, <2>1
<1>14. ASSUME NEW r \in Runners, NEW c \in Chains, Hand(r, c), WarmsUp(r, c)
      PROVE  QueueInv'
  <2>1. UNCHANGED <<at, queue>>
    BY <1>14 DEF WarmsUp
  <2> QED
    BY <1>f, <2>1
<1>15. ASSUME NEW r \in Runners, NEW c \in Chains, Hand(r, c), StartsSampling(r, c)
      PROVE  QueueInv'
  <2>1. UNCHANGED <<at, queue>>
    BY <1>15 DEF StartsSampling
  <2> QED
    BY <1>f, <2>1
<1>16. ASSUME NEW r \in Runners, NEW c \in Chains, Hand(r, c), NEW i \in BOOLEAN, Returns(r, c, i)
      PROVE  QueueInv'
  <2>1. UNCHANGED <<at, queue>>
    BY <1>16 DEF Returns
  <2> QED
    BY <1>f, <2>1
<1>17. ASSUME NEW r \in Runners, NEW c \in Chains, Hand(r, c), GoesOn(r, c)
      PROVE  QueueInv'
  <2>1. UNCHANGED <<at, queue>>
    BY <1>17 DEF GoesOn
  <2> QED
    BY <1>f, <2>1
<1>18. ASSUME NEW r \in Runners, NEW c \in Chains, Hand(r, c), Drops(r, c)
      PROVE  QueueInv'
  <2>1. UNCHANGED <<at, queue>>
    BY <1>18 DEF Drops
  <2> QED
    BY <1>f, <2>1
<1>19. ASSUME NEW r \in Runners, NEW c \in Chains, Hand(r, c), Stores(r, c)
      PROVE  QueueInv'
  <2>1. UNCHANGED <<at, queue>>
    BY <1>19 DEF Stores
  <2> QED
    BY <1>f, <2>1
<1>20. ASSUME NEW r \in Runners, NEW c \in Chains, Hand(r, c), Advances(r, c),
             Silent \/ (r = Main /\ Told(c)) \/ (r # Main /\ Enqueued(c))
      PROVE  QueueInv'
  <2>1. UNCHANGED <<at, live, event>> /\ pc[r] = "report" /\ c \in Chains
    BY <1>20 DEF Advances
  <2>2. CASE Silent
    BY <1>f, <2>1, <2>2 DEF Silent, queue
  <2>3. CASE r = Main /\ Told(c)
    <3>1. ~Pool
      BY <2>1, <2>3 DEF Good, StageInv
    <3>2. Quiet /\ events' = <<>> /\ event' = <<>> /\ owed = <<>>
      BY <1>b, <2>1, <2>3, <3>1 DEF Told
    <3>3. Append(owed, <<c, Here(c)>>) = <<<<c, Here(c)>>>>
      BY <3>2, EmptySeq, HeadTailAppend, SMT
    <3>4. owed' = <<>> /\ ordered' /\ Balance'
      <4>1. CallObserver(<<c, Here(c)>>, <<<<c, Here(c)>>>>)
        BY <2>3, <3>3 DEF Told
      <4> DEFINE e == <<c, Here(c)>>
      <4> HIDE DEF e
      <4>2. <<e>> # <<>> /\ Head(<<e>>) = e /\ Tail(<<e>>) = <<>>
        OBVIOUS
      <4>3. owed' = <<>> /\ ordered'
        <5>1. CallObserver(e, <<e>>)
          BY <4>1 DEF e
        <5> QED
          BY <1>b, <4>2, <5>1 DEF CallObserver
      <4>4. <<>> \o <<>> = <<>>
        BY EmptySeq, ConcatEmptySeq
      <4> QED
        BY <3>2, <4>3, <4>4
    <3>5. IF at' = "observe" THEN Len(event') = 1 ELSE event' = <<>>
      BY <1>b, <2>1
    <3> QED
      BY <1>c, <3>2, <3>4, <3>5
  <2>4. CASE r # Main /\ Enqueued(c)
    <3>1. r \in Workers /\ Pool /\ ~Quiet
      BY <2>1, <2>4 DEF Good, StageInv, Runners, Enqueued
    <3>2. at \notin Past
      <4> SUFFICES ASSUME at \in Past PROVE FALSE
        OBVIOUS
      <4>1. live = 0
        BY <1>b, <3>1
      <4> QED
        BY <2>1, <3>1, <4>1, NobodyWorks
    <3>3. <<c, Here(c)>> \in Event
      BY <1>20, HandFacts DEF Advances, Here, Transitions, Event, TypeOK
    <3>4. Balance' /\ ordered'
      <4> SUFFICES ASSUME ~progressError' PROVE owed' = event' \o events'
        BY <1>b, <2>4 DEF Enqueued
      <4> DEFINE e == <<c, Here(c)>>
      <4>1. owed = event \o events /\ owed' = Append(owed, e) /\ events' = Append(events, e) /\ event' = event
        BY <1>b, <2>1, <2>4 DEF Enqueued
      <4>2. e \in Event
        BY <3>3
      <4> HIDE DEF e
      <4>3. Append(event \o events, e) = event \o Append(events, e)
        BY <1>d, <4>2, AppendBehind
      <4> QED
        BY <4>1, <4>3
    <3>5. IF at' = "observe" THEN Len(event') = 1 ELSE event' = <<>>
      BY <1>b, <2>1
    <3> QED
      BY <1>c, <2>1, <3>1, <3>2, <3>4, <3>5
  <2> QED
    BY <1>20, <2>2, <2>3, <2>4
<1>21. ASSUME NEW r \in Runners, pc[r] \in Active, job[r] \in Chains, phase[job[r]] \in Sampling \cup {"init"}, Works(r, job[r])
      PROVE  QueueInv'
  <2>1. Hand(r, job[r])
    BY <1>21 DEF Hand
  <2> QED
    BY <1>21, <2>1, <1>13, <1>14, <1>15, <1>16, <1>17, <1>18, <1>19, <1>20 DEF Works
<1> QED
  BY <1>1, <1>2, <1>3, <1>4, <1>5, <1>6, <1>7, <1>8, <1>9, <1>10, <1>11, <1>12, <1>21 DEF Steps

-----------------------------------------------------------------------------
(* Before the call nothing has happened. *)
LEMMA InitIInv == Init => IInv
<1> SUFFICES ASSUME Init PROVE IInv
  OBVIOUS
<1>1. /\ at = "begin" /\ next = 0 /\ live = 0 /\ events = <<>> /\ event = <<>>
      /\ \A r \in Runners : pc[r] = "unborn" /\ job[r] = None
      /\ \A c \in Chains : phase[c] = "todo" /\ iter[c] = 0 /\ rows[c] = <<>> /\ stored[c] = 0
                           /\ values[c] = <<>> /\ draws[c] = <<>>
      /\ owed = <<>> /\ ordered = TRUE
      /\ Main \in Runners /\ Workers \subseteq Runners
  BY DEF Init, Runners
<1>2. TypeOK
  <2>1. Cardinality(Workers) \in Nat /\ NChains \in Nat
    BY WorkersAssumption, SizesAssumption, FS_CardinalityType
  <2>2. live \in 0 .. Cardinality(Workers) /\ result \in [failed : 0 .. NChains, interrupted : BOOLEAN]
    BY <2>1 DEF Init
  <2>3. /\ rows \in [Chains -> Seq(Transitions)] /\ values \in [Chains -> Seq(Transitions)]
        /\ draws \in [Chains -> Seq(Transitions)] /\ events \in Seq(Event) /\ event \in Seq(Event)
        /\ owed \in Seq(Event) /\ ordered \in BOOLEAN
    BY EmptySeq DEF Init
  <2>4. /\ pc \in [Runners -> {"unborn", "claim", "init", "check", "step", "report", "leave", "exited"}]
        /\ job \in [Runners -> Chains \cup {None}]
        /\ phase \in [Chains -> {"todo", "init", "warmup", "sampling", "done", "failed"}]
    BY DEF Init
  <2>5. /\ iter \in [Chains -> Nat] /\ stored \in [Chains -> Nat] /\ interrupted \in [Chains -> BOOLEAN]
    BY DEF Init
  <2>6. /\ opts \in Options /\ stop \in BOOLEAN /\ progressError \in BOOLEAN
    BY DEF Init
  <2> QED
    BY <1>1, <2>2, <2>3, <2>4, <2>5, <2>6 DEF TypeOK
<1>3. OneRunner /\ ~Over
  BY <1>1 DEF OneRunner, Over
<1>4. StageInv /\ LiveInv
  BY <1>1 DEF StageInv, LiveInv
<1>5. RunnerInv
  <2>1. \A c \in Chains : c >= next
    BY <1>1, ThreadFacts, <1>2 DEF Chains
  <2> QED
    BY <1>1, <2>1 DEF RunnerInv, Active, Sampling
<1>6. RowsInv
  <2> SUFFICES ASSUME NEW c \in Chains PROVE RowOK(c)
    BY DEF RowsInv
  <2>1. Numbered(AllKept, rows[c])
    BY <1>1 DEF Numbered
  <2> QED
    BY <1>1, <1>2, <2>1, TopEmpty DEF RowOK, Sampling
<1>7. PlaceInv
  BY <1>1 DEF PlaceInv, PlaceOK
<1>8. QueueInv
  <2>1. <<>> \o <<>> = <<>>
    BY EmptySeq, ConcatEmptySeq
  <2> QED
    BY <1>1, <2>1 DEF QueueInv
<1> QED
  BY <1>2, <1>3, <1>4, <1>5, <1>6, <1>7, <1>8 DEF IInv

(* Every step keeps the invariant. *)
LEMMA NextIInv == IInv /\ [Next]_vars => IInv'
<1> SUFFICES ASSUME IInv, [Next]_vars PROVE IInv'
  OBVIOUS
<1>1. /\ TypeOK /\ OneRunner
      /\ Over => ordered /\ \A r \in Runners : pc[r] \in {"unborn", "exited"}
      /\ ~Over => Good
  BY DEF IInv, Good
<1>2. opts' = opts
  BY StepKeepsOptions
<1>3. ASSUME Over, Next PROVE FALSE
  <2>1. \A r \in Runners : pc[r] \in {"unborn", "exited"}
    BY <1>1, <1>3
  <2>2. at \in {"threw", "terminated"}
    BY <1>3 DEF Over
  <2>3. ~Caller /\ ~SpawnFails
    BY <2>2 DEF Caller, Begin, Spawn, SpawnFails, Spawned, Poll, Wait, Observe, Join, Rethrow, CopyOut
  <2>4. \A r \in Runners : ~Runner(r)
    BY <2>1 DEF Runner, Claim, InitChain, NextLoop, Check, Step, StepStores, StepThrows, Report, Leave
  <2> QED
    BY <1>3, <2>3, <2>4 DEF Next
<1>4. ASSUME ~Over, SpawnFails PROVE IInv'
  <2>1. TypeOK'
    BY <1>1, <1>4 DEF SpawnFails, TypeOK, Runners, chain, queue, buffers
  <2>2. OneRunner'
    BY <1>1, <1>4 DEF SpawnFails, OneRunner
  <2>3. Over' /\ ordered' /\ \A r \in Runners : pc'[r] = "exited"
    BY <1>1, <1>4 DEF SpawnFails, Over, queue, Good, QueueInv
  <2> QED
    BY <2>1, <2>2, <2>3 DEF IInv
<1>5. ASSUME ~Over, Steps PROVE IInv'
  <2>1. TypeOK' /\ OneRunner'
    BY <1>1, <1>2, <1>5, TypeStep, OneRunnerStep
  <2>2. StageInv' /\ LiveInv' /\ RunnerInv' /\ RowsInv' /\ PlaceInv' /\ QueueInv'
    BY <1>1, <1>2, <1>5, StageStep, LiveStep, RunnerStep, RowsStep, PlaceStep, QueueStep
  <2>3. Over' => pc' = pc /\ at = "rethrow"
    BY <1>5 DEF Over, Steps, BeginAlone, BeginPool, SpawnOne, CallerMoves, Moves, Takes, Observes, Discards, CopyOut,
           ClaimsOne, ClaimsNone, MainDone, Leaves, Works, Fails, WarmsUp, StartsSampling, Returns, GoesOn, Drops, Stores, Advances
  <2>4. Over' => \A r \in Runners : pc'[r] \in {"unborn", "exited"}
    BY <1>1, <1>5, <2>3 DEF Good, StageInv
  <2> QED
    BY <2>1, <2>2, <2>4 DEF IInv, QueueInv
<1>6. ASSUME ~Over, Next, ~SpawnFails PROVE Steps
  BY <1>1, <1>6, CallerSteps, RunnerSteps DEF Next, Good
<1>7. ASSUME UNCHANGED vars PROVE IInv'
  <2>1. /\ UNCHANGED <<opts, at, next, pc, job, phase, iter, rows, stored, interrupted, stop, events, live, event,
                       progressError, owed, ordered, values, draws, result>>
    BY <1>7 DEF vars, chain, queue, buffers
  <2>2. /\ AllKept' = AllKept /\ NStored' = NStored /\ Threads' = Threads
        /\ Pool' = Pool /\ Born' = Born /\ Gone' = Gone
    BY <1>2, <2>1, OptionsStay DEF Born, Gone
  <2>3. TypeOK' /\ OneRunner' /\ (Over' <=> Over)
    BY <1>1, <2>1 DEF TypeOK, OneRunner, Over
  <2>4. ASSUME Good PROVE StageInv' /\ LiveInv' /\ RunnerInv'
    BY <2>1, <2>2, <2>4 DEF Good, StageInv, LiveInv, RunnerInv
  <2>5. ASSUME Good PROVE RowsInv'
    BY <2>1, <2>2, <2>5, RowFrame DEF Good, RowsInv
  <2>6. ASSUME Good PROVE PlaceInv'
    BY <2>1, <2>2, <2>6, PlaceFrame DEF Good, PlaceInv
  <2>7. ASSUME Good PROVE QueueInv'
    BY <2>1, <2>2, <2>7 DEF Good, QueueInv
  <2>8. Over' => ordered' /\ \A r \in Runners : pc'[r] \in {"unborn", "exited"}
    BY <1>1, <2>1, <2>3
  <2> QED
    BY <1>1, <2>3, <2>4, <2>5, <2>6, <2>7, <2>8 DEF IInv
<1> QED
  BY <1>3, <1>4, <1>5, <1>6, <1>7

(* The inductive invariant holds throughout the call, whatever fails in it. *)
THEOREM Invariance == Spec => []IInv
  BY InitIInv, NextIInv, PTL DEF Spec

(* A chain is sampled by one runner, and run_nuts_chains is left, by return or *)
(* by an exception, only when no runner is alive and every chain has ended:    *)
(* the runners write into the frame that is left.                              *)
THEOREM ChainsAreAccountedFor == Spec => []ChainsAccounted
<1>1. IInv => ChainsAccounted
  <2> SUFFICES ASSUME IInv PROVE ChainsAccounted
    OBVIOUS
  <2>1. TypeOK /\ OneRunner
    BY DEF IInv
  <2>2. at = "threw" => \A r \in Runners : pc[r] \in {"unborn", "exited"}
    BY DEF IInv, Over
  <2>3. ASSUME at \in {"rethrow", "copy", "returned"}
        PROVE  /\ \A r \in Runners : pc[r] \in {"unborn", "exited"}
               /\ \A c \in Chains : phase[c] \in {"done", "failed"}
    <3>1. StageInv /\ RunnerInv
      BY <2>3 DEF IInv, Over
    <3>2. next >= NChains /\ \A r \in Runners : pc[r] \in {"unborn", "exited"}
      BY <2>3, <3>1 DEF StageInv
    <3>3. ASSUME NEW c \in Chains PROVE phase[c] \in {"done", "failed"}
      <4>1. c < next
        BY <2>1, <3>2, <3>3, ThreadFacts DEF Chains, TypeOK
      <4>2. phase[c] # "todo"
        <5>1. c \in Int /\ next \in Int
          BY <2>1, ThreadFacts DEF Chains, TypeOK
        <5> QED
          BY <3>1, <4>1, <5>1 DEF RunnerInv
      <4>3. phase[c] \notin Sampling \cup {"init"}
        BY <3>1, <3>2 DEF RunnerInv, Active
      <4> QED
        BY <2>1, <4>2, <4>3 DEF TypeOK, Sampling
    <3> QED
      BY <3>2, <3>3
  <2> QED
    BY <2>1, <2>2, <2>3 DEF ChainsAccounted, OneRunner
<1> QED
  BY Invariance, <1>1, PTL

(* The rows that the caller gets are the first kept transitions in their       *)
(* order, and row k of its output values was written from draw k; and they are *)
(* all of them, stanli_n_stored_draws many, unless the chain was interrupted   *)
(* or a sum of stanli_n_stored_draws overflowed an int.                        *)
THEOREM DrawsAreComplete == Spec => []DrawsComplete
<1>1. IInv /\ ChainsAccounted => DrawsComplete
  <2> SUFFICES ASSUME IInv, ChainsAccounted, at = "returned"
               PROVE  /\ SizesFit => /\ Cardinality(AllKept) = NStored
                                     /\ \A c \in Chains : c \notin Failed /\ ~interrupted[c] =>
                                          Len(draws[c]) = Cardinality(AllKept)
                      /\ \A c \in Chains :
                           /\ c \in Failed => draws[c] = <<>>
                           /\ c \notin Failed =>
                                /\ \A k \in DOMAIN draws[c] :
                                     /\ draws[c][k] \in AllKept
                                     /\ Cardinality({t \in AllKept : Earlier(t, draws[c][k])}) = k - 1
                                /\ values[c] = draws[c]
    BY DEF DrawsComplete, StoredRowsAnnounced
  <2>1. TypeOK /\ \A c \in Chains : RowOK(c) /\ rows[c] \in Seq(Transitions)
    BY DEF IInv, Over, RowsInv, TypeOK
  <2>2. \A c \in Chains :
          draws[c] = Top(rows[c]) /\ Numbered(AllKept, rows[c]) /\ phase[c] \in {"done", "failed"}
    BY <2>1 DEF RowOK, ChainsAccounted
  <2>3. ASSUME SizesFit, NEW c \in Chains, c \notin Failed, ~interrupted[c]
        PROVE  Len(draws[c]) = Cardinality(AllKept)
    <3>1. phase[c] = "done" /\ Len(rows[c]) = Cardinality(AllKept)
      BY <2>1, <2>2, <2>3 DEF RowOK, Failed
    <3>2. Len(rows[c]) <= NStored
      BY <2>1, <2>3, <3>1, KeptCount
    <3> QED
      BY <2>1, <2>2, <3>1, <3>2, TopAll
  <2>4. SizesFit => Cardinality(AllKept) = NStored
    BY <2>1, KeptCount
  <2>5. ASSUME NEW c \in Chains PROVE c \in Failed => draws[c] = <<>>
    BY <2>1, <2>2, TopEmpty DEF RowOK, Failed
  <2>6. ASSUME NEW c \in Chains, NEW k \in DOMAIN draws[c]
        PROVE  /\ draws[c][k] \in AllKept
               /\ Cardinality({t \in AllKept : Earlier(t, draws[c][k])}) = k - 1
    <3>1. draws[c] \in Seq(Transitions) /\ k \in 1 .. Len(Top(rows[c]))
      BY <2>1, <2>2, <2>6, LenProperties DEF TypeOK
    <3>2. k \in 1 .. Len(rows[c]) /\ draws[c][k] = rows[c][k]
      BY <2>1, <2>2, <3>1, TopFacts
    <3> QED
      BY <2>2, <3>2 DEF Numbered, Before
  <2>7. ASSUME NEW c \in Chains PROVE c \notin Failed => values[c] = draws[c]
    BY <2>1, <2>2 DEF RowOK, Failed
  <2> QED
    BY <2>3, <2>4, <2>5, <2>6, <2>7
<1> QED
  BY Invariance, ChainsAreAccountedFor, <1>1, PTL

(* Every event the observer is called with is the oldest it has not had, and   *)
(* the pool is joined with its queue drained: unless the observer threw, it    *)
(* has then had them all.                                                      *)
THEOREM ProgressIsDelivered == Spec => []ProgressDelivered
<1>1. IInv => ProgressDelivered
  <2> SUFFICES ASSUME IInv PROVE ProgressDelivered
    OBVIOUS
  <2>1. ordered
    BY DEF IInv, QueueInv
  <2>2. ASSUME at \in {"join", "copy", "returned"}, ~progressError PROVE owed = <<>>
    <3>1. TypeOK /\ QueueInv
      BY <2>2 DEF IInv, Over
    <3>2. CASE ~opts.progress \/ ~Pool
      BY <3>1, <3>2 DEF QueueInv
    <3>3. CASE opts.progress /\ Pool
      <4>1. events = <<>> /\ event = <<>> /\ owed = event \o events
        BY <2>2, <3>1, <3>3 DEF QueueInv
      <4>2. <<>> \o <<>> = <<>>
        BY EmptySeq, ConcatEmptySeq
      <4> QED
        BY <4>1, <4>2
    <3> QED
      BY <3>2, <3>3
  <2> QED
    BY <2>1, <2>2 DEF ProgressDelivered
<1> QED
  BY Invariance, <1>1, PTL
=============================================================================
