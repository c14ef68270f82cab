-------------------------- MODULE MessageSinkProofs --------------------------
(***************************************************************************)
(* No line is lost, repeated or out of order, and no former callback runs, *)
(* for any emitters, hosts, callbacks and numbers of lines and calls.      *)
(***************************************************************************)
EXTENDS MessageSink, SequenceTheorems, FiniteSetTheorems, TLAPS

(* Who holds sink_mutex(), and where each thread can be. *)
Locked == {"sink", "call", "captured", "clear"}
MutexInv ==
  /\ \A t \in Threads : pc[t] \in Locked <=> mutex = t
  /\ \A t \in Emitters : pc[t] \in {"idle", "sink", "call", "captured"}
  /\ \A h \in Hosts : pc[h] \in {"idle", "install", "take", "clear", "give"}
  /\ \A t \in Emitters : done[t] \in 0 .. MaxMessages
  /\ \A t \in Emitters : pc[t] \in {"sink", "call"} => done[t] # 0
  /\ \A t \in Emitters : pc[t] = "call" => cb[t] \in Callbacks

(* A host has text in hand only between the swap and the copy it gives out. *)
TextInv == \A h \in Hosts : pc[h] \notin {"clear", "give"} => text[h] = <<>>

(* The flag is up, or about to be, while there is captured text. *)
PendingInv ==
  /\ captured # <<>> => pending \/ \E t \in Emitters : pc[t] = "captured"
  /\ \A h \in Hosts : pc[h] = "clear" => captured = <<>>

(* The lines each place holds. *)
Labels == ({"stdout", "captured", "called", "hand", "unheard", "unallocated"} \X {None})
          \cup ({"text", "taken"} \X Hosts)
LinesOf(c) == [i \in DOMAIN c |-> c[i][2]]
CalledLines == Range(LinesOf(called))
Holds == [l \in Labels |->
            IF l[1] = "stdout" THEN Range(stdout)
            ELSE IF l[1] = "captured" THEN Range(captured)
            ELSE IF l[1] = "called" THEN CalledLines
            ELSE IF l[1] = "hand" THEN InHand
            ELSE IF l[1] = "unheard" THEN unheard
            ELSE IF l[1] = "unallocated" THEN unallocated
            ELSE IF l[1] = "text" THEN Range(text[l[2]])
            ELSE Range(taken[l[2]])]
Emitted == {m \in Message : m[2] <= done[m[1]]}

(* Every line that was emitted is in exactly one place. *)
Partition(F, E) ==
  /\ \A l \in Labels : F[l] \subseteq E
  /\ \A m \in E : \E l \in Labels : m \in F[l]
  /\ \A l, k \in Labels : l # k => F[l] \cap F[k] = {}
PlaceInv == Partition(Holds, Emitted)

(* The lines of one emitter in s come before its lines in r. *)
Before(s, r) ==
  \A i \in DOMAIN s, j \in DOMAIN r : s[i][1] = r[j][1] => s[i][2] < r[j][2]
OrderInv ==
  /\ InOrder(stdout) /\ InOrder(captured)
  /\ InOrder(LinesOf(called))
  /\ \A h \in Hosts : /\ InOrder(taken[h]) /\ InOrder(text[h])
                      /\ Before(taken[h], text[h])
                      /\ Before(taken[h], captured) /\ Before(text[h], captured)

(* The inductive invariant. *)
IInv == /\ TypeOK /\ MutexInv /\ TextInv /\ PendingInv
        /\ PlaceInv /\ OrderInv /\ FormerCallbackQuiet

-----------------------------------------------------------------------------
(* One more line, in place a. *)
LEMMA PartitionAdd ==
  ASSUME NEW F, NEW G, NEW E, NEW m, NEW a \in Labels, Partition(F, E), m \notin E,
         \A l \in Labels : G[l] = IF l = a THEN F[l] \cup {m} ELSE F[l]
  PROVE  Partition(G, E \cup {m})
<1>1. \A l \in Labels : F[l] \subseteq G[l] /\ G[l] \subseteq F[l] \cup {m}
  OBVIOUS
<1>2. \A l \in Labels : G[l] \subseteq E \cup {m}
  BY <1>1 DEF Partition
<1>3. \A x \in E \cup {m} : \E l \in Labels : x \in G[l]
  BY <1>1 DEF Partition
<1>4. ASSUME NEW l \in Labels, NEW k \in Labels, l # k, NEW x \in G[l], x \in G[k]
      PROVE  FALSE
  <2>1. F[l] \cap F[k] = {} /\ F[l] \subseteq E /\ F[k] \subseteq E
    BY <1>4 DEF Partition
  <2>2. /\ G[l] = IF l = a THEN F[l] \cup {m} ELSE F[l]
        /\ G[k] = IF k = a THEN F[k] \cup {m} ELSE F[k]
    OBVIOUS
  <2> QED
    BY <1>4, <2>1, <2>2
<1> QED
  BY <1>2, <1>3, <1>4 DEF Partition

(* The lines X go from place a to place b. *)
Moved(F, G, X, a, b) ==
  \A l \in Labels : G[l] = IF l = a THEN F[l] \ X
                           ELSE IF l = b THEN F[l] \cup X ELSE F[l]

(* ... and each line still has one place. *)
LEMMA PartitionMove ==
  ASSUME NEW F, NEW G, NEW E, NEW X, NEW a \in Labels, NEW b \in Labels, a # b,
         Partition(F, E), X \subseteq F[a], Moved(F, G, X, a, b)
  PROVE  Partition(G, E)
<1>0. \A l \in Labels : G[l] = IF l = a THEN F[l] \ X
                               ELSE IF l = b THEN F[l] \cup X ELSE F[l]
  BY DEF Moved
<1>1. \A l \in Labels : G[l] \subseteq E
  BY <1>0 DEF Partition
<1>2. ASSUME NEW x \in E PROVE \E l \in Labels : x \in G[l]
  <2>1. CASE x \in X
    BY <1>0, <2>1
  <2>2. CASE x \notin X
    <3>1. PICK l \in Labels : x \in F[l]
      BY DEF Partition
    <3> QED
      BY <1>0, <2>2, <3>1
  <2> QED
    BY <2>1, <2>2
<1>3. ASSUME NEW l \in Labels, NEW k \in Labels, l # k, NEW x \in G[l], x \in G[k]
      PROVE  FALSE
  <2>1. F[l] \cap F[k] = {}
    BY <1>3 DEF Partition
  <2>2. (l # a => F[l] \cap F[a] = {}) /\ (k # a => F[k] \cap F[a] = {})
    BY DEF Partition
  <2>3. G[l] = IF l = a THEN F[l] \ X ELSE IF l = b THEN F[l] \cup X ELSE F[l]
    BY <1>0
  <2>4. G[k] = IF k = a THEN F[k] \ X ELSE IF k = b THEN F[k] \cup X ELSE F[k]
    BY <1>0
  <2>5. CASE x \in X
    <3>1. l # a /\ k # a
      BY <1>3, <2>3, <2>4, <2>5
    <3>2. l = b /\ k = b
      BY <1>3, <2>2, <2>3, <2>4, <2>5, <3>1
    <3> QED
      BY <1>3, <3>2
  <2>6. CASE x \notin X
    BY <1>3, <2>1, <2>3, <2>4, <2>6
  <2> QED
    BY <2>5, <2>6
<1> QED
  BY <1>1, <1>2, <1>3 DEF Partition

(* The lines of a sequence that grows. *)
LEMMA RangeAppend ==
  ASSUME NEW S, NEW s \in Seq(S), NEW m \in S
  PROVE  /\ Append(s, m) \in Seq(S)
         /\ Range(Append(s, m)) = Range(s) \cup {m}
<1>1. /\ Append(s, m) \in Seq(S) /\ Len(Append(s, m)) = Len(s) + 1
      /\ \A i \in 1 .. Len(s) : Append(s, m)[i] = s[i]
      /\ Append(s, m)[Len(s) + 1] = m
  BY AppendProperties
<1>2. /\ Len(s) \in Nat /\ DOMAIN s = 1 .. Len(s)
      /\ DOMAIN Append(s, m) = 1 .. Len(s) + 1
  BY <1>1, LenProperties
<1>3. PICK r : r = Append(s, m)
  OBVIOUS
<1>4. \A i \in 1 .. Len(s) + 1 : i \in 1 .. Len(s) \/ i = Len(s) + 1
  BY <1>2
<1>5. 1 .. Len(s) \subseteq 1 .. Len(s) + 1 /\ Len(s) + 1 \in 1 .. Len(s) + 1
  BY <1>2
<1>6. Range(r) = Range(s) \cup {m}
  BY <1>1, <1>2, <1>3, <1>4, <1>5 DEF Range
<1> QED
  BY <1>1, <1>3, <1>6

(* The lines of two sequences put together. *)
LEMMA RangeConcat ==
  ASSUME NEW S, NEW s \in Seq(S), NEW r \in Seq(S)
  PROVE  s \o r \in Seq(S) /\ Range(s \o r) = Range(s) \cup Range(r)
<1>1. /\ s \o r \in Seq(S) /\ Len(s \o r) = Len(s) + Len(r)
      /\ \A i \in 1 .. Len(s) + Len(r) :
           (s \o r)[i] = IF i <= Len(s) THEN s[i] ELSE r[i - Len(s)]
  BY ConcatProperties
<1>2. /\ Len(s) \in Nat /\ DOMAIN s = 1 .. Len(s)
      /\ Len(r) \in Nat /\ DOMAIN r = 1 .. Len(r)
      /\ DOMAIN (s \o r) = 1 .. Len(s) + Len(r)
  BY <1>1, LenProperties
<1>3. PICK q : q = s \o r
  OBVIOUS
<1>4. ASSUME NEW i \in DOMAIN q PROVE q[i] \in Range(s) \cup Range(r)
  <2>1. CASE i <= Len(s)
    <3>1. i \in DOMAIN s /\ q[i] = s[i]
      BY <1>1, <1>2, <1>3, <2>1
    <3> QED
      BY <3>1 DEF Range
  <2>2. CASE ~(i <= Len(s))
    <3>1. i - Len(s) \in DOMAIN r /\ q[i] = r[i - Len(s)]
      BY <1>1, <1>2, <1>3, <2>2
    <3> QED
      BY <3>1 DEF Range
  <2> QED
    BY <2>1, <2>2
<1>5. ASSUME NEW i \in DOMAIN s PROVE s[i] \in Range(q)
  <2>1. i \in DOMAIN q /\ q[i] = s[i]
    BY <1>1, <1>2, <1>3
  <2> QED
    BY <2>1 DEF Range
<1>6. ASSUME NEW i \in DOMAIN r PROVE r[i] \in Range(q)
  <2>1. Len(s) + i \in DOMAIN q /\ q[Len(s) + i] = r[i]
    <3>1. Len(s) + i \in 1 .. Len(s) + Len(r) /\ ~(Len(s) + i <= Len(s))
          /\ (Len(s) + i) - Len(s) = i
      BY <1>2
    <3> QED
      BY <1>1, <1>2, <1>3, <3>1
  <2> QED
    BY <2>1 DEF Range
<1>7. Range(q) = Range(s) \cup Range(r)
  BY <1>4, <1>5, <1>6 DEF Range
<1> QED
  BY <1>1, <1>3, <1>7

(* No line of S is of m's emitter and as late as m. *)
Later(m, S) == \A x \in S : x[1] = m[1] => x[2] < m[2]

(* A later line goes last. *)
LEMMA OrderAppend ==
  ASSUME NEW S, NEW s \in Seq(S), NEW m \in S, InOrder(s), Later(m, Range(s))
  PROVE  InOrder(Append(s, m))
<1>1. /\ \A i \in 1 .. Len(s) : Append(s, m)[i] = s[i]
      /\ Append(s, m)[Len(s) + 1] = m
      /\ Append(s, m) \in Seq(S) /\ Len(Append(s, m)) = Len(s) + 1
  BY AppendProperties
<1>2. /\ Len(s) \in Nat /\ DOMAIN s = 1 .. Len(s)
      /\ DOMAIN Append(s, m) = 1 .. Len(s) + 1
  BY <1>1, LenProperties
<1>3. PICK r : r = Append(s, m)
  OBVIOUS
<1> SUFFICES ASSUME NEW i \in 1 .. Len(s) + 1, NEW j \in 1 .. Len(s) + 1,
                    i < j, r[i][1] = r[j][1]
             PROVE  r[i][2] < r[j][2]
  BY <1>2, <1>3 DEF InOrder
<1>4. i \in 1 .. Len(s) /\ r[i] = s[i]
  BY <1>1, <1>2, <1>3
<1>5. CASE j = Len(s) + 1
  <2>1. r[j] = m /\ s[i] \in Range(s)
    BY <1>1, <1>2, <1>3, <1>4, <1>5 DEF Range
  <2> QED
    BY <1>4, <2>1 DEF Later
<1>6. CASE j # Len(s) + 1
  <2>1. j \in 1 .. Len(s) /\ r[j] = s[j]
    BY <1>1, <1>2, <1>3, <1>6
  <2> QED
    BY <1>2, <1>4, <2>1 DEF InOrder
<1> QED
  BY <1>5, <1>6

(* A line that is later than those of s may go after them. *)
LEMMA BeforeAppend ==
  ASSUME NEW S, NEW s \in Seq(S), NEW r \in Seq(S), NEW m \in S, Before(s, r),
         Later(m, Range(s))
  PROVE  Before(s, Append(r, m))
<1>1. PICK q : q = Append(r, m)
  OBVIOUS
<1>2. /\ Len(r) \in Nat /\ DOMAIN r = 1 .. Len(r) /\ DOMAIN q = 1 .. Len(r) + 1
      /\ q[Len(r) + 1] = m /\ \A i \in 1 .. Len(r) : q[i] = r[i]
  BY <1>1, AppendProperties, LenProperties
<1> SUFFICES ASSUME NEW i \in DOMAIN s, NEW j \in 1 .. Len(r) + 1, s[i][1] = q[j][1]
             PROVE  s[i][2] < q[j][2]
  BY <1>1, <1>2 DEF Before
<1>3. CASE j = Len(r) + 1
  <2>1. s[i] \in Range(s)
    BY DEF Range
  <2> QED
    BY <1>2, <1>3, <2>1 DEF Later
<1>4. CASE j # Len(r) + 1
  <2>1. j \in 1 .. Len(r)
    BY <1>2, <1>4
  <2> QED
    BY <1>2, <2>1 DEF Before
<1> QED
  BY <1>3, <1>4

(* Two sequences in order, the one before the other. *)
LEMMA OrderConcat ==
  ASSUME NEW S, NEW s \in Seq(S), NEW r \in Seq(S),
         InOrder(s), InOrder(r), Before(s, r)
  PROVE  InOrder(s \o r)
<1>1. PICK q : q = s \o r
  OBVIOUS
<1>2. /\ Len(s) \in Nat /\ DOMAIN s = 1 .. Len(s)
      /\ Len(r) \in Nat /\ DOMAIN r = 1 .. Len(r)
      /\ DOMAIN q = 1 .. Len(s) + Len(r)
      /\ \A i \in 1 .. Len(s) + Len(r) :
           q[i] = IF i <= Len(s) THEN s[i] ELSE r[i - Len(s)]
  BY <1>1, ConcatProperties, LenProperties
<1> SUFFICES ASSUME NEW i \in DOMAIN q, NEW j \in DOMAIN q, i < j, q[i][1] = q[j][1]
             PROVE  q[i][2] < q[j][2]
  BY <1>1 DEF InOrder
<1>3. CASE j <= Len(s)
  <2>1. i \in DOMAIN s /\ j \in DOMAIN s /\ q[i] = s[i] /\ q[j] = s[j]
    BY <1>2, <1>3
  <2> QED
    BY <2>1 DEF InOrder
<1>4. CASE i <= Len(s) /\ ~(j <= Len(s))
  <2>1. i \in DOMAIN s /\ j - Len(s) \in DOMAIN r /\ q[i] = s[i] /\ q[j] = r[j - Len(s)]
    BY <1>2, <1>4
  <2> QED
    BY <2>1 DEF Before
<1>5. CASE ~(i <= Len(s)) /\ ~(j <= Len(s))
  <2>1. /\ i - Len(s) \in DOMAIN r /\ j - Len(s) \in DOMAIN r
        /\ q[i] = r[i - Len(s)] /\ q[j] = r[j - Len(s)] /\ i - Len(s) < j - Len(s)
    BY <1>2, <1>5
  <2> QED
    BY <2>1 DEF InOrder
<1> QED
  BY <1>2, <1>3, <1>4, <1>5

(* Both before a third. *)
LEMMA BeforeConcat ==
  ASSUME NEW S, NEW s \in Seq(S), NEW r \in Seq(S), NEW q, Before(s, q), Before(r, q)
  PROVE  Before(s \o r, q)
<1>1. PICK p : p = s \o r
  OBVIOUS
<1>2. /\ Len(s) \in Nat /\ DOMAIN s = 1 .. Len(s)
      /\ Len(r) \in Nat /\ DOMAIN r = 1 .. Len(r)
      /\ DOMAIN p = 1 .. Len(s) + Len(r)
      /\ \A i \in 1 .. Len(s) + Len(r) :
           p[i] = IF i <= Len(s) THEN s[i] ELSE r[i - Len(s)]
  BY <1>1, ConcatProperties, LenProperties
<1> SUFFICES ASSUME NEW i \in DOMAIN p, NEW j \in DOMAIN q, p[i][1] = q[j][1]
             PROVE  p[i][2] < q[j][2]
  BY <1>1 DEF Before
<1>3. CASE i <= Len(s)
  <2>1. i \in DOMAIN s /\ p[i] = s[i]
    BY <1>2, <1>3
  <2> QED
    BY <2>1 DEF Before
<1>4. CASE ~(i <= Len(s))
  <2>1. i - Len(s) \in DOMAIN r /\ p[i] = r[i - Len(s)]
    BY <1>2, <1>4
  <2> QED
    BY <2>1 DEF Before
<1> QED
  BY <1>3, <1>4

(* The empty sequence is in order and before and after everything. *)
LEMMA EmptyOrder ==
  /\ InOrder(<<>>) /\ Range(<<>>) = {}
  /\ \A s : Before(s, <<>>) /\ Before(<<>>, s)
<1>1. DOMAIN <<>> = {}
  OBVIOUS
<1> QED
  BY <1>1 DEF InOrder, Before, Range

-----------------------------------------------------------------------------
(* What a label looks like, and the lines it names. *)
LEMMA LabelForms ==
  /\ \A l \in Labels :
       /\ l = <<l[1], l[2]>>
       /\ l[1] \in {"stdout", "captured", "called", "hand", "unheard", "unallocated",
                    "text", "taken"}
       /\ l[1] \in {"text", "taken"} => l[2] \in Hosts
       /\ l[1] \notin {"text", "taken"} => l[2] = None
  /\ \A x \in {"stdout", "captured", "called", "hand", "unheard", "unallocated"} :
       <<x, None>> \in Labels
  /\ \A h \in Hosts : <<"text", h>> \in Labels /\ <<"taken", h>> \in Labels
BY DEF Labels

(* The places of the lines, one at a time. *)
LEMMA HoldsAt ==
  /\ Holds[<<"stdout", None>>] = Range(stdout)
  /\ Holds[<<"captured", None>>] = Range(captured)
  /\ Holds[<<"called", None>>] = CalledLines
  /\ Holds[<<"hand", None>>] = InHand
  /\ Holds[<<"unheard", None>>] = unheard
  /\ Holds[<<"unallocated", None>>] = unallocated
  /\ \A h \in Hosts : /\ Holds[<<"text", h>>] = Range(text[h])
                      /\ Holds[<<"taken", h>>] = Range(taken[h])
BY LabelForms DEF Holds

(* The step begins, ends or drops no emission. *)
HandKept ==
  \A t \in Emitters :
     /\ done'[t] = done[t]
     /\ pc'[t] \in {"sink", "call"} <=> pc[t] \in {"sink", "call"}

(* The lines in hand, and those emitted, are the emitters' affair. *)
LEMMA HandFrame ==
  ASSUME HandKept
  PROVE  InHand' = InHand /\ Emitted' = Emitted
<1>1. InHand' = InHand
  BY DEF InHand, Current, HandKept
<1>2. \A m \in Message : m[1] \in Emitters
  BY DEF Message
<1>3. Emitted' = Emitted
  BY <1>2 DEF Emitted, HandKept
<1> QED
  BY <1>1, <1>3

(* A step that moves no line leaves every line in its place and order. *)
LEMMA LinesFrame ==
  ASSUME PlaceInv, OrderInv, UNCHANGED <<captured, text, places>>,
         InHand' = InHand, Emitted' = Emitted
  PROVE  PlaceInv' /\ OrderInv'
<1>1. CalledLines' = CalledLines
  BY DEF CalledLines, places
<1>2. Holds' = Holds
  BY <1>1 DEF Holds, places
<1>3. PlaceInv'
  BY <1>2 DEF PlaceInv, Partition
<1>4. OrderInv'
  BY DEF OrderInv, InOrder, Before, LinesOf, places
<1> QED
  BY <1>3, <1>4

(* A line that is emitted is new, and later than those of its emitter. *)
LEMMA NewLine ==
  ASSUME TypeOK, MutexInv, PlaceInv, NEW t \in Emitters, done[t] < MaxMessages,
         \A u \in Emitters : done'[u] = IF u = t THEN done[t] + 1 ELSE done[u]
  PROVE  /\ <<t, done[t] + 1>> \in Message /\ <<t, done[t] + 1>> \notin Emitted
         /\ Emitted' = Emitted \cup {<<t, done[t] + 1>>}
         /\ \A l \in Labels : Later(<<t, done[t] + 1>>, Holds[l])
<1>1. done[t] \in 0 .. MaxMessages /\ MaxMessages \in Nat
  BY MessagesAssumption DEF MutexInv
<1>2. <<t, done[t] + 1>> \in Message
  BY <1>1 DEF Message
<1>3. <<t, done[t] + 1>> \notin Emitted
  BY <1>1 DEF Emitted
<1>4. ASSUME NEW m \in Message
      PROVE  m[2] <= done'[m[1]] <=> m[2] <= done[m[1]] \/ m = <<t, done[t] + 1>>
  <2>1. m[1] \in Emitters /\ m[2] \in Nat /\ m = <<m[1], m[2]>>
    BY <1>1 DEF Message
  <2>2. CASE m[1] = t
    <3>1. done'[m[1]] = done[t] + 1 /\ done[m[1]] = done[t]
      BY <2>1, <2>2
    <3>2. m[2] <= done[t] + 1 <=> m[2] <= done[t] \/ m[2] = done[t] + 1
      BY <1>1, <2>1
    <3>3. m[2] = done[t] + 1 <=> m = <<t, done[t] + 1>>
      BY <2>1, <2>2
    <3> QED
      BY <3>1, <3>2, <3>3
  <2>3. CASE m[1] # t
    BY <2>1, <2>3
  <2> QED
    BY <2>2, <2>3
<1>5. Emitted' = Emitted \cup {<<t, done[t] + 1>>}
  BY <1>2, <1>4 DEF Emitted
<1>6. ASSUME NEW l \in Labels PROVE Later(<<t, done[t] + 1>>, Holds[l])
  <2>1. Holds[l] \subseteq Emitted
    BY DEF PlaceInv, Partition
  <2>2. \A x \in Emitted : x[1] = t => x[2] < done[t] + 1
    <3> SUFFICES ASSUME NEW x \in Emitted, x[1] = t PROVE x[2] < done[t] + 1
      OBVIOUS
    <3>1. x[2] \in Nat /\ x[2] <= done[x[1]]
      BY DEF Emitted, Message
    <3> QED
      BY <1>1, <3>1
  <2> QED
    BY <2>1, <2>2 DEF Later
<1> QED
  BY <1>2, <1>3, <1>5, <1>6

(* Nothing was printed yet. *)
LEMMA InitIInv == Init => IInv
<1> SUFFICES ASSUME Init PROVE IInv
  OBVIOUS
<1>1. \A t \in Threads : pc[t] = "idle" /\ cb[t] = None /\ done[t] = 0
  BY DEF Init
<1>2. \A h \in Hosts : text[h] = <<>> /\ taken[h] = <<>>
  BY DEF Init
<1>3. TypeOK
  <2>1. /\ mutex \in Threads \cup {None} /\ callback \in Callbacks \cup {None}
        /\ unheard \subseteq Message /\ unallocated \subseteq Message
    BY DEF Init
  <2>2. sink \in BOOLEAN /\ capturing \in BOOLEAN /\ pending \in BOOLEAN
    BY DEF Init
  <2>3. /\ captured \in Seq(Message) /\ stdout \in Seq(Message)
        /\ called \in Seq(Callbacks \X Message)
        /\ text \in [Hosts -> Seq(Message)] /\ taken \in [Hosts -> Seq(Message)]
    BY DEF Init
  <2>4. /\ pc \in [Threads -> {"idle", "sink", "call", "captured", "install", "take",
                                "clear", "give"}]
        /\ cb \in [Threads -> Callbacks \cup {None}] /\ done \in [Threads -> Nat]
    BY DEF Init
  <2> QED
    BY <2>1, <2>2, <2>3, <2>4 DEF TypeOK
<1>4. Emitters \subseteq Threads /\ Hosts \subseteq Threads
  BY DEF Threads
<1>5. MutexInv
  BY <1>1, <1>4, NoneAssumption, MessagesAssumption DEF MutexInv, Init, Locked, Threads
<1>6. TextInv /\ PendingInv /\ FormerCallbackQuiet
  BY <1>1, <1>2, <1>4 DEF TextInv, PendingInv, FormerCallbackQuiet, Init
<1>7. InHand = {}
  BY <1>1, <1>4 DEF InHand
<1>8. Emitted = {}
  <2>1. \A m \in Message : m[2] \in 1 .. MaxMessages /\ m[1] \in Threads
    BY <1>4 DEF Message
  <2>2. \A m \in Message : ~(m[2] <= done[m[1]])
    BY <1>1, <2>1, MessagesAssumption
  <2> QED
    BY <2>2 DEF Emitted
<1>9. CalledLines = {} /\ Range(<<>>) = {}
  BY EmptyOrder DEF CalledLines, LinesOf, Init, Range
<1>10. \A l \in Labels : Holds[l] = {}
  <2> SUFFICES ASSUME NEW l \in Labels PROVE Holds[l] = {}
    OBVIOUS
  <2> QED
    BY <1>2, <1>7, <1>9, LabelForms DEF Holds, Init
<1>11. PlaceInv
  BY <1>8, <1>10 DEF PlaceInv, Partition
<1>12. OrderInv
  <2>1. InOrder(LinesOf(called))
    BY DEF Init, InOrder, LinesOf
  <2> QED
    BY <1>2, <2>1, EmptyOrder DEF OrderInv, Init
<1> QED
  BY <1>3, <1>5, <1>6, <1>11, <1>12 DEF IInv

-----------------------------------------------------------------------------
(* What a step does to the thread t that takes it: the label it goes to, its *)
(* count, the callback it has in hand and who then holds the mutex.         *)
Moves(t, l, d, c, m) ==
  /\ \A u \in Threads : pc'[u] = IF u = t THEN l ELSE pc[u]
  /\ \A u \in Threads : done'[u] = IF u = t THEN d ELSE done[u]
  /\ \A u \in Threads : cb'[u] = IF u = t THEN c ELSE cb[u]
  /\ mutex' = m

(* Each action of an emitter, in these terms. *)
LEMMA EmitterMoves ==
  ASSUME TypeOK, NEW t \in Emitters
  PROVE  /\ EmitToSink(t) => Moves(t, "sink", done[t] + 1, cb[t], t)
         /\ SinkReads(t) => IF callback # None
                            THEN Moves(t, "call", done[t], callback, mutex)
                            ELSE Moves(t, "idle", done[t], cb[t], None)
         /\ SinkCalls(t) => Moves(t, "idle", done[t], None, None)
         /\ EmitCaptured(t) => Moves(t, "captured", done[t] + 1, cb[t], t)
         /\ CapturePending(t) => Moves(t, "idle", done[t], cb[t], None)
         /\ EmitToStdout(t) => Moves(t, pc[t], done[t] + 1, cb[t], mutex)
<1> t \in Threads
  BY DEF Threads
<1>0. DOMAIN pc = Threads /\ DOMAIN done = Threads /\ DOMAIN cb = Threads
  BY DEF TypeOK
<1>1. EmitToSink(t) => Moves(t, "sink", done[t] + 1, cb[t], t)
  BY <1>0 DEF EmitToSink, Moves, Goto, Count
<1>2. SinkReads(t) => IF callback # None
                      THEN Moves(t, "call", done[t], callback, mutex)
                      ELSE Moves(t, "idle", done[t], cb[t], None)
  BY <1>0 DEF SinkReads, Moves, Goto
<1>3. SinkCalls(t) => Moves(t, "idle", done[t], None, None)
  BY <1>0 DEF SinkCalls, Moves, Goto
<1>4. EmitCaptured(t) => Moves(t, "captured", done[t] + 1, cb[t], t)
  BY <1>0 DEF EmitCaptured, Moves, Goto, Count
<1>5. CapturePending(t) => Moves(t, "idle", done[t], cb[t], None)
  BY <1>0 DEF CapturePending, Moves, Goto
<1>6. EmitToStdout(t) => Moves(t, pc[t], done[t] + 1, cb[t], mutex)
  BY <1>0 DEF EmitToStdout, Moves, Count
<1> QED
  BY <1>1, <1>2, <1>3, <1>4, <1>5, <1>6

(* ... and each action of a host. *)
LEMMA HostMoves ==
  ASSUME TypeOK, NEW h \in Hosts
  PROVE  /\ \A c : SetPrintCallback(h, c) => Moves(h, "install", done[h] + 1, c, mutex)
         /\ SetMessageSink(h) => Moves(h, "idle", done[h], None, mutex)
         /\ \A on : SetMessageCapture(h, on)
                      => Moves(h, pc[h], done[h] + 1, cb[h], mutex)
         /\ TakeCheck(h) => \/ pending /\ Moves(h, "take", done[h] + 1, cb[h], mutex)
                            \/ Moves(h, "idle", done[h] + 1, cb[h], mutex)
         /\ TakeSwap(h) => Moves(h, "clear", done[h], cb[h], h)
         /\ TakeClear(h) => Moves(h, "give", done[h], cb[h], None)
         /\ TakeMessages(h) => Moves(h, "idle", done[h], cb[h], mutex)
<1> h \in Threads
  BY DEF Threads
<1>0. DOMAIN pc = Threads /\ DOMAIN done = Threads /\ DOMAIN cb = Threads
  BY DEF TypeOK
<1>1. ASSUME NEW c, SetPrintCallback(h, c)
      PROVE  Moves(h, "install", done[h] + 1, c, mutex)
  BY <1>0, <1>1 DEF SetPrintCallback, Moves, Goto, Count
<1>2. SetMessageSink(h) => Moves(h, "idle", done[h], None, mutex)
  BY <1>0 DEF SetMessageSink, Moves, Goto
<1>3. ASSUME NEW on, SetMessageCapture(h, on)
      PROVE  Moves(h, pc[h], done[h] + 1, cb[h], mutex)
  BY <1>0, <1>3 DEF SetMessageCapture, Moves, Count
<1>4. TakeCheck(h) => \/ pending /\ Moves(h, "take", done[h] + 1, cb[h], mutex)
                      \/ Moves(h, "idle", done[h] + 1, cb[h], mutex)
  BY <1>0 DEF TakeCheck, Moves, Goto, Count
<1>5. TakeSwap(h) => Moves(h, "clear", done[h], cb[h], h)
  BY <1>0 DEF TakeSwap, Moves, Goto
<1>6. TakeClear(h) => Moves(h, "give", done[h], cb[h], None)
  BY <1>0 DEF TakeClear, Moves, Goto
<1>7. TakeMessages(h) => Moves(h, "idle", done[h], cb[h], mutex)
  BY <1>0 DEF TakeMessages, Moves, Goto
<1> QED
  BY <1>1, <1>2, <1>3, <1>4, <1>5, <1>6, <1>7

(* An emitter that goes to label l, as its guards let it. *)
LEMMA EmitterMutex ==
  ASSUME TypeOK, MutexInv, NEW t \in Emitters, NEW l, NEW d, NEW c, NEW m,
         Moves(t, l, d, c, m), l \in {"idle", "sink", "call", "captured"},
         pc[t] \in Locked \/ mutex = None,
         m = IF l = "idle" THEN None ELSE t,
         d \in 0 .. MaxMessages, l \in {"sink", "call"} => d # 0,
         l = "call" => c \in Callbacks
  PROVE  MutexInv'
<1>1. t \in Threads /\ t \notin Hosts /\ t # None /\ None \notin Threads
  BY RolesAssumption, NoneAssumption DEF Threads
<1>2. ASSUME NEW u \in Threads PROVE pc'[u] \in Locked <=> mutex' = u
  <2>1. CASE u = t
    BY <1>1, <2>1 DEF Moves, Locked
  <2>2. CASE u # t
    <3>1. pc'[u] = pc[u] /\ pc[u] \notin Locked
      BY <1>1, <2>2 DEF Moves, MutexInv
    <3> QED
      BY <1>1, <2>2, <3>1 DEF Moves
  <2> QED
    BY <2>1, <2>2
<1>3. \A u \in Emitters : u \in Threads
  BY DEF Threads
<1>4. \A h \in Hosts : h \in Threads /\ h # t
  BY <1>1 DEF Threads
<1>5. \A u \in Emitters : pc'[u] \in {"idle", "sink", "call", "captured"}
  BY <1>3 DEF Moves, MutexInv
<1>6. \A h \in Hosts : pc'[h] \in {"idle", "install", "take", "clear", "give"}
  BY <1>4 DEF Moves, MutexInv
<1>7. \A u \in Emitters : done'[u] \in 0 .. MaxMessages
  BY <1>3 DEF Moves, MutexInv
<1>8. \A u \in Emitters : pc'[u] \in {"sink", "call"} => done'[u] # 0
  BY <1>3 DEF Moves, MutexInv
<1>9. \A u \in Emitters : pc'[u] = "call" => cb'[u] \in Callbacks
  BY <1>3 DEF Moves, MutexInv
<1> QED
  BY <1>2, <1>5, <1>6, <1>7, <1>8, <1>9 DEF MutexInv

(* A host that goes to label l, and what it leaves to the emitters. *)
LEMMA HostMutex ==
  ASSUME TypeOK, MutexInv, NEW h \in Hosts, NEW l, NEW d, NEW c, NEW m,
         Moves(h, l, d, c, m), l \in {"idle", "install", "take", "clear", "give"},
         \/ m = mutex /\ l # "clear" /\ pc[h] # "clear"
         \/ m = h /\ l = "clear" /\ mutex = None
         \/ m = None /\ l # "clear" /\ pc[h] = "clear"
  PROVE  /\ MutexInv' /\ InHand' = InHand /\ Emitted' = Emitted
         /\ \A t \in Emitters : pc'[t] = pc[t] /\ cb'[t] = cb[t]
<1>1. h \in Threads /\ h \notin Emitters /\ h # None /\ None \notin Threads
  BY RolesAssumption, NoneAssumption DEF Threads
<1>2. \A t \in Emitters : t \in Threads /\ t # h
  BY <1>1 DEF Threads
<1>3. \A t \in Emitters : pc'[t] = pc[t] /\ cb'[t] = cb[t] /\ done'[t] = done[t]
  BY <1>2 DEF Moves
<1>4. ASSUME NEW u \in Threads PROVE pc'[u] \in Locked <=> mutex' = u
  <2>1. pc[h] \in Locked <=> pc[h] = "clear"
    BY DEF MutexInv, Locked
  <2>2. l \in Locked <=> l = "clear"
    BY DEF Locked
  <2>3. (pc[u] \in Locked <=> mutex = u) /\ (pc[h] \in Locked <=> mutex = h)
    BY <1>1 DEF MutexInv
  <2>4. pc'[u] = (IF u = h THEN l ELSE pc[u]) /\ mutex' = m
    BY DEF Moves
  <2> QED
    BY <1>1, <2>1, <2>2, <2>3, <2>4
<1>5. \A g \in Hosts : pc'[g] \in {"idle", "install", "take", "clear", "give"}
  BY DEF Moves, MutexInv, Threads
<1>6. MutexInv'
  BY <1>3, <1>4, <1>5 DEF MutexInv
<1>7. InHand' = InHand /\ Emitted' = Emitted
  BY <1>3, HandFrame DEF HandKept
<1> QED
  BY <1>3, <1>6, <1>7

-----------------------------------------------------------------------------
(* The parts of the state, for the type of a step. *)
ThreadTypes ==
  /\ mutex \in Threads \cup {None}
  /\ pc \in [Threads -> {"idle", "sink", "call", "captured", "install",
                         "take", "clear", "give"}]
  /\ cb \in [Threads -> Callbacks \cup {None}]
  /\ done \in [Threads -> Nat]
FlagTypes ==
  /\ sink \in BOOLEAN /\ capturing \in BOOLEAN /\ pending \in BOOLEAN
  /\ callback \in Callbacks \cup {None}
LineTypes ==
  /\ captured \in Seq(Message) /\ stdout \in Seq(Message)
  /\ text \in [Hosts -> Seq(Message)] /\ taken \in [Hosts -> Seq(Message)]
  /\ called \in Seq(Callbacks \X Message)
  /\ unheard \subseteq Message /\ unallocated \subseteq Message

(* They are its type. *)
LEMMA TypeParts == TypeOK <=> ThreadTypes /\ FlagTypes /\ LineTypes
BY DEF TypeOK, ThreadTypes, FlagTypes, LineTypes

(* A call of a callback appends its line. *)
LEMMA LinesOfAppend ==
  ASSUME NEW c \in Seq(Callbacks \X Message), NEW a \in Callbacks, NEW m \in Message
  PROVE  /\ LinesOf(c) \in Seq(Message)
         /\ Append(c, <<a, m>>) \in Seq(Callbacks \X Message)
         /\ LinesOf(Append(c, <<a, m>>)) = Append(LinesOf(c), m)
<1>1. PICK d : d = Append(c, <<a, m>>)
  OBVIOUS
<1>2. <<a, m>> \in Callbacks \X Message
  OBVIOUS
<1>3. /\ Len(c) \in Nat /\ DOMAIN c = 1 .. Len(c) /\ DOMAIN d = 1 .. Len(c) + 1
      /\ d[Len(c) + 1] = <<a, m>> /\ \A i \in 1 .. Len(c) : d[i] = c[i]
      /\ d \in Seq(Callbacks \X Message)
  BY <1>1, <1>2, AppendProperties, LenProperties
<1>4. \A i \in 1 .. Len(c) : c[i] \in Callbacks \X Message
  BY <1>3, ElementOfSeq
<1>5. LinesOf(c) \in Seq(Message) /\ Len(LinesOf(c)) = Len(c)
  <2>1. LinesOf(c) = [i \in 1 .. Len(c) |-> c[i][2]]
    BY <1>3 DEF LinesOf
  <2>2. \A i \in 1 .. Len(c) : c[i][2] \in Message
    BY <1>4
  <2> QED
    BY <1>3, <2>1, <2>2
<1>7. /\ DOMAIN Append(LinesOf(c), m) = 1 .. Len(c) + 1
      /\ Append(LinesOf(c), m)[Len(c) + 1] = m
      /\ \A i \in 1 .. Len(c) : Append(LinesOf(c), m)[i] = LinesOf(c)[i]
  BY <1>3, <1>5, AppendProperties, LenProperties
<1>8. LinesOf(d) = Append(LinesOf(c), m)
  <2>1. PICK f : f = Append(LinesOf(c), m)
    OBVIOUS
  <2>2. f = [i \in DOMAIN f |-> f[i]]
    <3>1. f \in Seq(Message)
      BY <1>5, <2>1, AppendProperties
    <3> QED
      BY <3>1, LenProperties
  <2>3. DOMAIN f = DOMAIN d
    BY <1>3, <1>7, <2>1
  <2>4. ASSUME NEW i \in DOMAIN d PROVE f[i] = d[i][2]
    <3>1. CASE i = Len(c) + 1
      BY <1>3, <1>7, <2>1, <3>1
    <3>2. CASE i # Len(c) + 1
      <4>1. i \in 1 .. Len(c)
        BY <1>3, <3>2
      <4> QED
        BY <1>3, <1>7, <2>1, <4>1 DEF LinesOf
    <3> QED
      BY <3>1, <3>2
  <2>5. LinesOf(d) = [i \in DOMAIN d |-> d[i][2]]
    BY DEF LinesOf
  <2> QED
    BY <2>1, <2>2, <2>3, <2>4, <2>5
<1> QED
  BY <1>1, <1>3, <1>5, <1>8

(* emit_message enters the sink: its line is in hand. *)
LEMMA EmitToSinkStep ==
  ASSUME IInv, NEW t \in Emitters, EmitToSink(t)
  PROVE  IInv'
<1>0. TypeOK /\ MutexInv /\ TextInv /\ PendingInv /\ PlaceInv /\ OrderInv
      /\ FormerCallbackQuiet
  BY DEF IInv
<1>1. t \in Threads /\ Emitters \subseteq Threads /\ Hosts \subseteq Threads /\ t \notin Hosts
  BY RolesAssumption DEF Threads
<1>2. Moves(t, "sink", done[t] + 1, cb[t], t)
  BY <1>0, EmitterMoves
<1>3. /\ pc[t] = "idle" /\ done[t] < MaxMessages /\ mutex = None
      /\ UNCHANGED <<sink, callback, capturing, captured, pending, cb, text, stdout,
                     called, taken, unheard, unallocated>>
  BY DEF EmitToSink, places
<1>4. done[t] \in 0 .. MaxMessages /\ MaxMessages \in Nat
  BY <1>0, MessagesAssumption DEF MutexInv
<1>5. TypeOK'
  <2>1. ThreadTypes'
    BY <1>0, <1>1, <1>3 DEF EmitToSink, ThreadTypes, TypeOK, Goto, Count
  <2>2. FlagTypes' /\ LineTypes'
    BY <1>0, <1>3, TypeParts DEF FlagTypes, LineTypes
  <2> QED
    BY <2>1, <2>2 DEF TypeOK, ThreadTypes, FlagTypes, LineTypes
<1>6. MutexInv'
  <2>1. PICK d : d = done[t] + 1
    OBVIOUS
  <2>2. d \in 0 .. MaxMessages /\ d # 0
    BY <1>3, <1>4, <2>1
  <2> QED
    BY <1>0, <1>2, <1>3, <2>1, <2>2, EmitterMutex
<1>7. TextInv'
  BY <1>0, <1>1, <1>2, <1>3 DEF TextInv, Moves
<1>8. PendingInv'
  BY <1>0, <1>1, <1>2, <1>3 DEF PendingInv, Moves
<1>9. FormerCallbackQuiet'
  BY <1>0, <1>1, <1>2, <1>3 DEF FormerCallbackQuiet, Moves
<1>10. PICK m : m = <<t, done[t] + 1>>
  OBVIOUS
<1>11. \A u \in Emitters : done'[u] = IF u = t THEN done[t] + 1 ELSE done[u]
  BY <1>1, <1>2 DEF Moves
<1>12. /\ m \in Message /\ m \notin Emitted /\ Emitted' = Emitted \cup {m}
       /\ \A l \in Labels : Later(m, Holds[l])
  BY <1>0, <1>3, <1>10, <1>11, NewLine
<1>13. InHand' = InHand \cup {m}
  BY <1>1, <1>2, <1>3, <1>10 DEF InHand, Current, Moves
<1>14. CalledLines' = CalledLines
  BY <1>3 DEF CalledLines
<1>15. \A l \in Labels : Holds'[l] = IF l = <<"hand", None>> THEN Holds[l] \cup {m}
                                     ELSE Holds[l]
  BY <1>3, <1>13, <1>14, LabelForms DEF Holds
<1>16. PlaceInv'
  <2>1. Partition(Holds', Emitted \cup {m})
    BY <1>0, <1>12, <1>15, PartitionAdd, LabelForms DEF PlaceInv
  <2> QED
    BY <1>12, <2>1 DEF PlaceInv, Partition
<1>17. OrderInv'
  BY <1>0, <1>3 DEF OrderInv, InOrder, Before
<1> QED
  BY <1>5, <1>6, <1>7, <1>8, <1>9, <1>16, <1>17 DEF IInv

(* emit_message raises the flag and unlocks. *)
LEMMA CapturePendingStep ==
  ASSUME IInv, NEW t \in Emitters, CapturePending(t)
  PROVE  IInv'
<1>0. TypeOK /\ MutexInv /\ TextInv /\ PendingInv /\ PlaceInv /\ OrderInv
      /\ FormerCallbackQuiet
  BY DEF IInv
<1>1. t \in Threads /\ Emitters \subseteq Threads /\ Hosts \subseteq Threads /\ t \notin Hosts
  BY RolesAssumption DEF Threads
<1>2. Moves(t, "idle", done[t], cb[t], None)
  BY <1>0, EmitterMoves
<1>3. /\ pc[t] = "captured" /\ pending' = TRUE
      /\ UNCHANGED <<sink, callback, capturing, captured, cb, done, text, places>>
  BY DEF CapturePending
<1>4. UNCHANGED <<stdout, called, taken, unheard, unallocated>>
  BY <1>3 DEF places
<1>5. TypeOK'
  <2>1. ThreadTypes'
    BY <1>0, <1>1, <1>3 DEF CapturePending, ThreadTypes, TypeOK, Goto, Count
  <2>2. LineTypes'
    BY <1>0, <1>3, <1>4, TypeParts DEF LineTypes
  <2>3. FlagTypes'
    BY <1>0, <1>3, TypeParts DEF FlagTypes
  <2> QED
    BY <2>1, <2>2, <2>3 DEF TypeOK, ThreadTypes, FlagTypes, LineTypes
<1>6. MutexInv'
  <2>1. done[t] \in 0 .. MaxMessages
    BY <1>0 DEF MutexInv
  <2>2. pc[t] \in Locked
    BY <1>3 DEF Locked
  <2> QED
    BY <1>0, <1>2, <2>1, <2>2, EmitterMutex
<1>7. TextInv'
  BY <1>0, <1>1, <1>2, <1>3 DEF TextInv, Moves
<1>8. PendingInv'
  BY <1>0, <1>1, <1>2, <1>3 DEF PendingInv, Moves
<1>9. FormerCallbackQuiet'
  BY <1>0, <1>1, <1>2, <1>3 DEF FormerCallbackQuiet, Moves
<1>10. InHand' = InHand /\ Emitted' = Emitted
  <2>1. HandKept
    BY <1>1, <1>2, <1>3 DEF Moves, HandKept
  <2> QED
    BY <2>1, HandFrame
<1>11. PlaceInv' /\ OrderInv'
  BY <1>0, <1>3, <1>10, LinesFrame
<1> QED
  BY <1>5, <1>6, <1>7, <1>8, <1>9, <1>11 DEF IInv

(* A line goes straight to stdout. *)
LEMMA EmitToStdoutStep ==
  ASSUME IInv, NEW t \in Emitters, EmitToStdout(t)
  PROVE  IInv'
<1>0. TypeOK /\ MutexInv /\ TextInv /\ PendingInv /\ PlaceInv /\ OrderInv
      /\ FormerCallbackQuiet
  BY DEF IInv
<1>1. t \in Threads /\ Emitters \subseteq Threads /\ Hosts \subseteq Threads /\ t \notin Hosts
  BY RolesAssumption DEF Threads
<1>2. Moves(t, pc[t], done[t] + 1, cb[t], mutex)
  BY <1>0, EmitterMoves
<1>3. /\ pc[t] = "idle" /\ done[t] < MaxMessages /\ mutex = None
      /\ UNCHANGED <<mutex, sink, callback, capturing, captured, pending, pc, cb, text,
                     called, taken, unheard, unallocated>>
      /\ stdout' = Append(stdout, <<t, done[t] + 1>>)
  BY DEF EmitToStdout
<1>4. done[t] \in 0 .. MaxMessages /\ MaxMessages \in Nat
  BY <1>0, MessagesAssumption DEF MutexInv
<1>6. MutexInv'
  <2>1. PICK d : d = done[t] + 1
    OBVIOUS
  <2>2. d \in 0 .. MaxMessages /\ d # 0
    BY <1>3, <1>4, <2>1
  <2> QED
    BY <1>0, <1>2, <1>3, <2>1, <2>2, EmitterMutex
<1>7. TextInv'
  BY <1>0, <1>1, <1>2, <1>3 DEF TextInv, Moves
<1>8. PendingInv'
  BY <1>0, <1>1, <1>2, <1>3 DEF PendingInv, Moves
<1>9. FormerCallbackQuiet'
  BY <1>0, <1>1, <1>2, <1>3 DEF FormerCallbackQuiet, Moves
<1>10. PICK m : m = <<t, done[t] + 1>>
  OBVIOUS
<1>11. \A u \in Emitters : done'[u] = IF u = t THEN done[t] + 1 ELSE done[u]
  BY <1>1, <1>2 DEF Moves
<1>12. /\ m \in Message /\ m \notin Emitted /\ Emitted' = Emitted \cup {m}
       /\ \A l \in Labels : Later(m, Holds[l])
  BY <1>0, <1>3, <1>10, <1>11, NewLine
<1>13. InHand' = InHand
  BY <1>1, <1>2, <1>3 DEF InHand, Current, Moves
<1>14. CalledLines' = CalledLines
  BY <1>3 DEF CalledLines
<1>15. stdout \in Seq(Message) /\ stdout' = Append(stdout, m)
  BY <1>0, <1>3, <1>10 DEF TypeOK
<1>16. stdout' \in Seq(Message) /\ Range(stdout') = Range(stdout) \cup {m}
  BY <1>12, <1>15, RangeAppend
<1>17. TypeOK'
  <2>1. ThreadTypes'
    BY <1>0, <1>1, <1>3 DEF EmitToStdout, ThreadTypes, TypeOK, Count
  <2>2. FlagTypes' /\ LineTypes'
    BY <1>0, <1>3, <1>16, TypeParts DEF FlagTypes, LineTypes
  <2> QED
    BY <2>1, <2>2 DEF TypeOK, ThreadTypes, FlagTypes, LineTypes
<1>18. \A l \in Labels : Holds'[l] = IF l = <<"stdout", None>> THEN Holds[l] \cup {m}
                                     ELSE Holds[l]
  BY <1>3, <1>13, <1>14, <1>16, LabelForms DEF Holds
<1>19. PlaceInv'
  <2>1. Partition(Holds', Emitted \cup {m})
    BY <1>0, <1>12, <1>18, PartitionAdd, LabelForms DEF PlaceInv
  <2> QED
    BY <1>12, <2>1 DEF PlaceInv, Partition
<1>20. OrderInv'
  <2>1. InOrder(stdout) /\ Later(m, Range(stdout))
    BY <1>0, <1>12, LabelForms, HoldsAt DEF OrderInv
  <2>2. InOrder(stdout')
    BY <1>12, <1>15, <2>1, OrderAppend
  <2> QED
    BY <1>0, <1>3, <2>2 DEF OrderInv, InOrder, Before
<1> QED
  BY <1>6, <1>7, <1>8, <1>9, <1>17, <1>19, <1>20 DEF IInv

(* A line is appended to the captured text. *)
LEMMA EmitCapturedStep ==
  ASSUME IInv, NEW t \in Emitters, EmitCaptured(t)
  PROVE  IInv'
<1>0. TypeOK /\ MutexInv /\ TextInv /\ PendingInv /\ PlaceInv /\ OrderInv
      /\ FormerCallbackQuiet
  BY DEF IInv
<1>1. t \in Threads /\ Emitters \subseteq Threads /\ Hosts \subseteq Threads /\ t \notin Hosts
  BY RolesAssumption DEF Threads
<1>2. Moves(t, "captured", done[t] + 1, cb[t], t)
  BY <1>0, EmitterMoves
<1>3. /\ pc[t] = "idle" /\ done[t] < MaxMessages /\ mutex = None
      /\ UNCHANGED <<sink, callback, capturing, pending, cb, text, stdout,
                     called, taken, unheard, unallocated>>
      /\ captured' = Append(captured, <<t, done[t] + 1>>)
  BY DEF EmitCaptured, places
<1>4. done[t] \in 0 .. MaxMessages /\ MaxMessages \in Nat
  BY <1>0, MessagesAssumption DEF MutexInv
<1>6. MutexInv'
  <2>1. PICK d : d = done[t] + 1
    OBVIOUS
  <2>2. d \in 0 .. MaxMessages /\ d # 0
    BY <1>3, <1>4, <2>1
  <2> QED
    BY <1>0, <1>2, <1>3, <2>1, <2>2, EmitterMutex
<1>7. TextInv'
  BY <1>0, <1>1, <1>2, <1>3 DEF TextInv, Moves
<1>8. PendingInv'
  <2>1. pc'[t] = "captured"
    BY <1>1, <1>2 DEF Moves
  <2>2. \A h \in Hosts : pc'[h] # "clear"
    <3> SUFFICES ASSUME NEW h \in Hosts, pc'[h] = "clear" PROVE FALSE
      OBVIOUS
    <3>1. h \in Threads /\ h # t /\ h # None
      BY <1>1, NoneAssumption
    <3>2. pc[h] \in Locked
      BY <1>2, <3>1 DEF Moves, Locked
    <3> QED
      BY <1>0, <1>3, <3>1, <3>2 DEF MutexInv
  <2> QED
    BY <2>1, <2>2 DEF PendingInv
<1>9. FormerCallbackQuiet'
  BY <1>0, <1>1, <1>2, <1>3 DEF FormerCallbackQuiet, Moves
<1>10. PICK m : m = <<t, done[t] + 1>>
  OBVIOUS
<1>11. \A u \in Emitters : done'[u] = IF u = t THEN done[t] + 1 ELSE done[u]
  BY <1>1, <1>2 DEF Moves
<1>12. /\ m \in Message /\ m \notin Emitted /\ Emitted' = Emitted \cup {m}
       /\ \A l \in Labels : Later(m, Holds[l])
  BY <1>0, <1>3, <1>10, <1>11, NewLine
<1>13. InHand' = InHand
  BY <1>1, <1>2, <1>3 DEF InHand, Current, Moves
<1>14. CalledLines' = CalledLines
  BY <1>3 DEF CalledLines
<1>15. captured \in Seq(Message) /\ captured' = Append(captured, m)
  BY <1>0, <1>3, <1>10 DEF TypeOK
<1>16. captured' \in Seq(Message) /\ Range(captured') = Range(captured) \cup {m}
  BY <1>12, <1>15, RangeAppend
<1>17. TypeOK'
  <2>1. ThreadTypes'
    BY <1>0, <1>1, <1>3 DEF EmitCaptured, ThreadTypes, TypeOK, Count, Goto
  <2>2. FlagTypes' /\ LineTypes'
    BY <1>0, <1>3, <1>16, TypeParts DEF FlagTypes, LineTypes
  <2> QED
    BY <2>1, <2>2 DEF TypeOK, ThreadTypes, FlagTypes, LineTypes
<1>18. \A l \in Labels : Holds'[l] = IF l = <<"captured", None>> THEN Holds[l] \cup {m}
                                     ELSE Holds[l]
  BY <1>3, <1>13, <1>14, <1>16, LabelForms DEF Holds
<1>19. PlaceInv'
  <2>1. Partition(Holds', Emitted \cup {m})
    BY <1>0, <1>12, <1>18, PartitionAdd, LabelForms DEF PlaceInv
  <2> QED
    BY <1>12, <2>1 DEF PlaceInv, Partition
<1>20. OrderInv'
  <2>1. InOrder(captured) /\ Later(m, Range(captured))
    BY <1>0, <1>12, LabelForms, HoldsAt DEF OrderInv
  <2>2. InOrder(captured')
    BY <1>12, <1>15, <2>1, OrderAppend
  <2>3. ASSUME NEW h \in Hosts
        PROVE  Before(taken[h], captured') /\ Before(text[h], captured')
    <3>1. Later(m, Range(taken[h])) /\ Later(m, Range(text[h]))
      BY <1>12, LabelForms, HoldsAt
    <3>2. /\ taken[h] \in Seq(Message) /\ text[h] \in Seq(Message)
          /\ Before(taken[h], captured) /\ Before(text[h], captured)
      BY <1>0 DEF TypeOK, OrderInv
    <3> QED
      BY <1>12, <1>15, <3>1, <3>2, BeforeAppend
  <2>4. InOrder(stdout)' /\ InOrder(LinesOf(called))'
    BY <1>0, <1>3 DEF OrderInv, InOrder
  <2>5. \A h \in Hosts : InOrder(taken[h])' /\ InOrder(text[h])' /\ Before(taken[h], text[h])'
    BY <1>0, <1>3 DEF OrderInv, InOrder, Before
  <2>6. \A h \in Hosts : Before(taken[h], captured)' /\ Before(text[h], captured)'
    BY <1>3, <2>3 DEF Before
  <2>7. InOrder(captured)'
    BY <2>2 DEF InOrder
  <2> QED
    BY <2>4, <2>5, <2>6, <2>7 DEF OrderInv
<1> QED
  BY <1>6, <1>7, <1>8, <1>9, <1>17, <1>19, <1>20 DEF IInv

(* The line in hand of the one emitter that runs the sink. *)
LEMMA HandLeaves ==
  ASSUME TypeOK, MutexInv, NEW t \in Emitters, pc[t] \in {"sink", "call"}, NEW c,
         Moves(t, "idle", done[t], c, None)
  PROVE  /\ Current(t) \in InHand /\ Current(t) \in Message
         /\ InHand' = InHand \ {Current(t)} /\ Emitted' = Emitted
<1>1. t \in Threads /\ Emitters \subseteq Threads
  BY DEF Threads
<1>2. Current(t) \in InHand
  BY DEF InHand
<1>3. Current(t) \in Message
  <2>1. done[t] \in 0 .. MaxMessages /\ done[t] # 0
    BY DEF MutexInv
  <2> QED
    BY <2>1, MessagesAssumption DEF Current, Message
<1>4. \A u \in Emitters : done'[u] = done[u]
  BY <1>1 DEF Moves
<1>5. \A m \in Message : m[1] \in Emitters
  BY DEF Message
<1>6. Emitted' = Emitted
  BY <1>4, <1>5 DEF Emitted
<1>7. \A u \in Emitters : pc'[u] = IF u = t THEN "idle" ELSE pc[u]
  BY <1>1 DEF Moves
<1>8. InHand' = InHand \ {Current(t)}
  BY <1>4, <1>7 DEF InHand, Current
<1> QED
  BY <1>2, <1>3, <1>6, <1>8

(* The sink finds no callback: the line is unheard. *)
LEMMA SinkDropsStep ==
  ASSUME IInv, NEW t \in Emitters, callback = None, SinkReads(t)
  PROVE  IInv'
<1>0. TypeOK /\ MutexInv /\ TextInv /\ PendingInv /\ PlaceInv /\ OrderInv
      /\ FormerCallbackQuiet
  BY DEF IInv
<1>1. t \in Threads /\ Emitters \subseteq Threads /\ Hosts \subseteq Threads /\ t \notin Hosts
  BY RolesAssumption DEF Threads
<1>2. Moves(t, "idle", done[t], cb[t], None)
  BY <1>0, EmitterMoves
<1>3. /\ pc[t] = "sink" /\ unheard' = unheard \cup {Current(t)}
      /\ UNCHANGED <<sink, callback, capturing, captured, pending, done, text,
                     stdout, called, taken, unallocated, cb>>
  BY DEF SinkReads
<1>6. MutexInv'
  <2>1. done[t] \in 0 .. MaxMessages /\ pc[t] \in Locked
    BY <1>0, <1>3 DEF MutexInv, Locked
  <2> QED
    BY <1>0, <1>2, <2>1, EmitterMutex
<1>7. TextInv'
  BY <1>0, <1>1, <1>2, <1>3 DEF TextInv, Moves
<1>8. PendingInv'
  BY <1>0, <1>1, <1>2, <1>3 DEF PendingInv, Moves
<1>9. FormerCallbackQuiet'
  BY <1>0, <1>1, <1>2, <1>3 DEF FormerCallbackQuiet, Moves
<1>10. /\ Current(t) \in InHand /\ Current(t) \in Message
       /\ InHand' = InHand \ {Current(t)} /\ Emitted' = Emitted
  BY <1>0, <1>2, <1>3, HandLeaves
<1>11. PICK m : m = Current(t)
  OBVIOUS
<1>12. TypeOK'
  <2>1. ThreadTypes'
    BY <1>0, <1>1, <1>3 DEF SinkReads, ThreadTypes, TypeOK, Goto
  <2>2. FlagTypes' /\ LineTypes'
    BY <1>0, <1>3, <1>10, TypeParts DEF FlagTypes, LineTypes
  <2> QED
    BY <2>1, <2>2 DEF TypeOK, ThreadTypes, FlagTypes, LineTypes
<1>13. CalledLines' = CalledLines
  BY <1>3 DEF CalledLines
<1>14. Moved(Holds, Holds', {m}, <<"hand", None>>, <<"unheard", None>>)
  BY <1>3, <1>10, <1>11, <1>13, LabelForms DEF Holds, Moved
<1>15. PlaceInv'
  <2>1. {m} \subseteq Holds[<<"hand", None>>]
    BY <1>10, <1>11, HoldsAt
  <2>2. Partition(Holds', Emitted)
    <3> DEFINE a == <<"hand", None>>
               b == <<"unheard", None>>
    <3>1. a \in Labels /\ b \in Labels /\ a # b
      BY LabelForms
    <3> QED
      BY <1>0, <1>14, <2>1, <3>1, PartitionMove DEF PlaceInv
  <2> QED
    BY <1>10, <2>2 DEF PlaceInv, Partition
<1>16. OrderInv'
  BY <1>0, <1>3 DEF OrderInv, InOrder, Before
<1> QED
  BY <1>6, <1>7, <1>8, <1>9, <1>12, <1>15, <1>16 DEF IInv

(* The sink reads the callback and is about to call it. *)
LEMMA SinkReadsStep ==
  ASSUME IInv, NEW t \in Emitters, callback # None, SinkReads(t)
  PROVE  IInv'
<1>0. TypeOK /\ MutexInv /\ TextInv /\ PendingInv /\ PlaceInv /\ OrderInv
      /\ FormerCallbackQuiet
  BY DEF IInv
<1>1. t \in Threads /\ Emitters \subseteq Threads /\ Hosts \subseteq Threads /\ t \notin Hosts
  BY RolesAssumption DEF Threads
<1>2. Moves(t, "call", done[t], callback, mutex)
  BY <1>0, EmitterMoves
<1>3. /\ pc[t] = "sink" /\ UNCHANGED places
      /\ UNCHANGED <<mutex, sink, callback, capturing, captured, pending, done, text,
                     stdout, called, taken, unallocated, unheard>>
  BY DEF SinkReads, places
<1>4. callback \in Callbacks
  BY <1>0 DEF TypeOK
<1>5. TypeOK'
  <2>1. ThreadTypes'
    BY <1>0, <1>1, <1>3, <1>4 DEF SinkReads, ThreadTypes, TypeOK, Goto
  <2>2. FlagTypes' /\ LineTypes'
    BY <1>0, <1>3, TypeParts DEF FlagTypes, LineTypes
  <2> QED
    BY <2>1, <2>2 DEF TypeOK, ThreadTypes, FlagTypes, LineTypes
<1>6. MutexInv'
  <2>1. done[t] \in 0 .. MaxMessages /\ done[t] # 0 /\ pc[t] \in Locked
    BY <1>0, <1>3 DEF MutexInv, Locked
  <2>2. mutex = t
    BY <1>0, <1>1, <2>1 DEF MutexInv
  <2> QED
    BY <1>0, <1>2, <1>4, <2>1, <2>2, EmitterMutex
<1>7. TextInv'
  BY <1>0, <1>1, <1>2, <1>3 DEF TextInv, Moves
<1>8. PendingInv'
  BY <1>0, <1>1, <1>2, <1>3 DEF PendingInv, Moves
<1>9. FormerCallbackQuiet'
  BY <1>0, <1>1, <1>2, <1>3 DEF FormerCallbackQuiet, Moves
<1>10. HandKept
  BY <1>1, <1>2, <1>3 DEF Moves, HandKept
<1>11. PlaceInv' /\ OrderInv'
  BY <1>0, <1>3, <1>10, HandFrame, LinesFrame
<1> QED
  BY <1>5, <1>6, <1>7, <1>8, <1>9, <1>11 DEF IInv

(* The callback gets the line. *)
LEMMA SinkCallsStep ==
  ASSUME IInv, NEW t \in Emitters, SinkCalls(t)
  PROVE  IInv'
<1>0. TypeOK /\ MutexInv /\ TextInv /\ PendingInv /\ PlaceInv /\ OrderInv
      /\ FormerCallbackQuiet
  BY DEF IInv
<1>1. t \in Threads /\ Emitters \subseteq Threads /\ Hosts \subseteq Threads /\ t \notin Hosts
  BY RolesAssumption DEF Threads
<1>2. Moves(t, "idle", done[t], None, None)
  BY <1>0, EmitterMoves
<1>3. /\ pc[t] = "call" /\ called' = Append(called, <<cb[t], Current(t)>>)
      /\ UNCHANGED <<sink, callback, capturing, captured, pending, done, text,
                     stdout, taken, unheard, unallocated>>
  BY DEF SinkCalls
<1>4. cb[t] \in Callbacks
  BY <1>0, <1>3 DEF MutexInv
<1>6. MutexInv'
  <2>1. done[t] \in 0 .. MaxMessages /\ pc[t] \in Locked
    BY <1>0, <1>3 DEF MutexInv, Locked
  <2> QED
    BY <1>0, <1>2, <2>1, EmitterMutex
<1>7. TextInv'
  BY <1>0, <1>1, <1>2, <1>3 DEF TextInv, Moves
<1>8. PendingInv'
  BY <1>0, <1>1, <1>2, <1>3 DEF PendingInv, Moves
<1>9. FormerCallbackQuiet'
  BY <1>0, <1>1, <1>2, <1>3 DEF FormerCallbackQuiet, Moves
<1>10. /\ Current(t) \in InHand /\ Current(t) \in Message
       /\ InHand' = InHand \ {Current(t)} /\ Emitted' = Emitted
  BY <1>0, <1>2, <1>3, HandLeaves
<1>11. PICK m : m = Current(t)
  OBVIOUS
<1>12. /\ called \in Seq(Callbacks \X Message)
       /\ called' = Append(called, <<cb[t], m>>) /\ m \in Message
  BY <1>0, <1>3, <1>10, <1>11 DEF TypeOK
<1>13. /\ LinesOf(called) \in Seq(Message) /\ called' \in Seq(Callbacks \X Message)
       /\ LinesOf(called') = Append(LinesOf(called), m)
  <2>1. PICK c : c = cb[t]
    OBVIOUS
  <2>2. c \in Callbacks /\ called' = Append(called, <<c, m>>)
    BY <1>4, <1>12, <2>1
  <2>3. PICK q \in Seq(Callbacks \X Message) : q = called
    BY <1>12
  <2>4. /\ LinesOf(q) \in Seq(Message) /\ Append(q, <<c, m>>) \in Seq(Callbacks \X Message)
        /\ LinesOf(Append(q, <<c, m>>)) = Append(LinesOf(q), m)
    BY <1>12, <2>2, LinesOfAppend
  <2> QED
    BY <2>2, <2>3, <2>4
<1>14. CalledLines' = CalledLines \cup {m}
  <2>1. PICK s : s = LinesOf(called)
    OBVIOUS
  <2>2. Range(Append(s, m)) = Range(s) \cup {m}
    BY <1>12, <1>13, <2>1, RangeAppend
  <2> QED
    BY <1>13, <2>1, <2>2 DEF CalledLines
<1>15. TypeOK'
  <2>1. ThreadTypes'
    BY <1>0, <1>1, <1>3 DEF SinkCalls, ThreadTypes, TypeOK, Goto
  <2>2. FlagTypes' /\ LineTypes'
    BY <1>0, <1>3, <1>13, TypeParts DEF FlagTypes, LineTypes
  <2> QED
    BY <2>1, <2>2 DEF TypeOK, ThreadTypes, FlagTypes, LineTypes
<1>16. Moved(Holds, Holds', {m}, <<"hand", None>>, <<"called", None>>)
  BY <1>3, <1>10, <1>11, <1>14, LabelForms DEF Holds, Moved
<1>17. {m} \subseteq Holds[<<"hand", None>>]
  BY <1>10, <1>11, HoldsAt
<1>18. PlaceInv'
  <2>1. Partition(Holds', Emitted)
    <3> DEFINE a == <<"hand", None>>
               b == <<"called", None>>
    <3>1. a \in Labels /\ b \in Labels /\ a # b
      BY LabelForms
    <3> QED
      BY <1>0, <1>16, <1>17, <3>1, PartitionMove DEF PlaceInv
  <2> QED
    BY <1>10, <2>1 DEF PlaceInv, Partition
<1>19. Later(m, Range(LinesOf(called)))
  <2>1. /\ <<"hand", None>> \in Labels /\ <<"called", None>> \in Labels
        /\ <<"hand", None>> # <<"called", None>>
    BY LabelForms
  <2>2. InHand \cap CalledLines = {} /\ CalledLines \subseteq Emitted
    BY <1>0, <2>1, HoldsAt DEF PlaceInv, Partition
  <2> SUFFICES ASSUME NEW x \in CalledLines, x[1] = m[1] PROVE x[2] < m[2]
    BY DEF Later, CalledLines
  <2>3. x # m /\ x \in Message /\ x[2] <= done[x[1]]
    BY <1>10, <1>11, <2>2 DEF Emitted
  <2>4. x = <<x[1], x[2]>> /\ x[2] \in Nat
    BY <2>3, MessagesAssumption DEF Message
  <2>5. m = <<t, done[t]>> /\ m[1] = t /\ m[2] = done[t] /\ done[t] \in Nat
    BY <1>0, <1>1, <1>11 DEF Current, TypeOK
  <2> QED
    BY <2>3, <2>4, <2>5
<1>20. OrderInv'
  <2>1. InOrder(LinesOf(called'))
    BY <1>0, <1>12, <1>13, <1>19, OrderAppend DEF OrderInv
  <2>2. InOrder(LinesOf(called))'
    BY <2>1 DEF InOrder
  <2> QED
    BY <1>0, <1>3, <2>2 DEF OrderInv, InOrder, Before
<1> QED
  BY <1>6, <1>7, <1>8, <1>9, <1>15, <1>18, <1>20 DEF IInv

(* A host stores another callback: its install is under way. *)
LEMMA SetPrintCallbackStep ==
  ASSUME IInv, NEW h \in Hosts, NEW c \in Callbacks \cup {None}, SetPrintCallback(h, c)
  PROVE  IInv'
<1>0. TypeOK /\ MutexInv /\ TextInv /\ PendingInv /\ PlaceInv /\ OrderInv
      /\ FormerCallbackQuiet
  BY DEF IInv
<1>1. h \in Threads /\ Emitters \subseteq Threads /\ Hosts \subseteq Threads /\ h \notin Emitters
  BY RolesAssumption DEF Threads
<1>2. Moves(h, "install", done[h] + 1, c, mutex)
  BY <1>0, HostMoves
<1>3. /\ pc[h] = "idle" /\ callback' = c
      /\ UNCHANGED <<mutex, sink, capturing, pending, captured, text, places>>
  BY DEF SetPrintCallback
<1>4. UNCHANGED <<stdout, called, taken, unheard, unallocated>>
  BY <1>3 DEF places
<1>5. TypeOK'
  <2>1. ThreadTypes'
    BY <1>0, <1>1, <1>3 DEF SetPrintCallback, ThreadTypes, TypeOK, Goto, Count
  <2>2. LineTypes'
    BY <1>0, <1>3, <1>4, TypeParts DEF LineTypes
  <2>3. FlagTypes'
    BY <1>0, <1>3, TypeParts DEF FlagTypes
  <2> QED
    BY <2>1, <2>2, <2>3 DEF TypeOK, ThreadTypes, FlagTypes, LineTypes
<1>6. /\ MutexInv' /\ InHand' = InHand /\ Emitted' = Emitted
      /\ \A t \in Emitters : pc'[t] = pc[t] /\ cb'[t] = cb[t]
  BY <1>0, <1>2, <1>3, HostMutex
<1>7. TextInv'
  BY <1>0, <1>1, <1>2, <1>3 DEF TextInv, Moves
<1>8. PendingInv'
  BY <1>0, <1>1, <1>2, <1>3, <1>6 DEF PendingInv, Moves
<1>9. FormerCallbackQuiet'
  BY <1>0, <1>1, <1>2, <1>3, <1>6 DEF FormerCallbackQuiet, Moves
<1>10. PlaceInv' /\ OrderInv'
  BY <1>0, <1>3, <1>6, LinesFrame
<1> QED
  BY <1>5, <1>6, <1>7, <1>8, <1>9, <1>10 DEF IInv

(* A host gets the mutex, so no call of a former callback is left. *)
LEMMA SetMessageSinkStep ==
  ASSUME IInv, NEW h \in Hosts, SetMessageSink(h)
  PROVE  IInv'
<1>0. TypeOK /\ MutexInv /\ TextInv /\ PendingInv /\ PlaceInv /\ OrderInv
      /\ FormerCallbackQuiet
  BY DEF IInv
<1>1. h \in Threads /\ Emitters \subseteq Threads /\ Hosts \subseteq Threads /\ h \notin Emitters
  BY RolesAssumption DEF Threads
<1>2. Moves(h, "idle", done[h], None, mutex)
  BY <1>0, HostMoves
<1>3. /\ pc[h] = "install" /\ mutex = None /\ sink' = (cb[h] # None)
      /\ UNCHANGED <<mutex, callback, capturing, pending, captured, text, places>>
  BY DEF SetMessageSink
<1>4. UNCHANGED <<stdout, called, taken, unheard, unallocated>>
  BY <1>3 DEF places
<1>5. TypeOK'
  <2>1. ThreadTypes'
    BY <1>0, <1>1, <1>3 DEF SetMessageSink, ThreadTypes, TypeOK, Goto, Count
  <2>2. LineTypes'
    BY <1>0, <1>3, <1>4, TypeParts DEF LineTypes
  <2>3. FlagTypes'
    BY <1>0, <1>3, TypeParts DEF FlagTypes
  <2> QED
    BY <2>1, <2>2, <2>3 DEF TypeOK, ThreadTypes, FlagTypes, LineTypes
<1>6. /\ MutexInv' /\ InHand' = InHand /\ Emitted' = Emitted
      /\ \A t \in Emitters : pc'[t] = pc[t] /\ cb'[t] = cb[t]
  BY <1>0, <1>2, <1>3, HostMutex
<1>7. TextInv'
  BY <1>0, <1>1, <1>2, <1>3 DEF TextInv, Moves
<1>8. PendingInv'
  BY <1>0, <1>1, <1>2, <1>3, <1>6 DEF PendingInv, Moves
<1>9. FormerCallbackQuiet'
  <2>1. \A t \in Emitters : pc[t] # "call"
    <3> SUFFICES ASSUME NEW t \in Emitters, pc[t] = "call" PROVE FALSE
      OBVIOUS
    <3>1. t \in Threads /\ t # None /\ pc[t] \in Locked
      BY <1>1, NoneAssumption DEF Locked
    <3> QED
      BY <1>0, <1>3, <3>1 DEF MutexInv
  <2> QED
    BY <1>6, <2>1 DEF FormerCallbackQuiet
<1>10. PlaceInv' /\ OrderInv'
  BY <1>0, <1>3, <1>6, LinesFrame
<1> QED
  BY <1>5, <1>6, <1>7, <1>8, <1>9, <1>10 DEF IInv

(* A host switches capture. *)
LEMMA SetMessageCaptureStep ==
  ASSUME IInv, NEW h \in Hosts, NEW on \in BOOLEAN, SetMessageCapture(h, on)
  PROVE  IInv'
<1>0. TypeOK /\ MutexInv /\ TextInv /\ PendingInv /\ PlaceInv /\ OrderInv
      /\ FormerCallbackQuiet
  BY DEF IInv
<1>1. h \in Threads /\ Emitters \subseteq Threads /\ Hosts \subseteq Threads /\ h \notin Emitters
  BY RolesAssumption DEF Threads
<1>2. Moves(h, pc[h], done[h] + 1, cb[h], mutex)
  BY <1>0, HostMoves
<1>3. /\ pc[h] = "idle" /\ capturing' = on
      /\ UNCHANGED <<mutex, sink, callback, pending, captured, text, places>>
  BY DEF SetMessageCapture
<1>4. UNCHANGED <<stdout, called, taken, unheard, unallocated>>
  BY <1>3 DEF places
<1>5. TypeOK'
  <2>1. ThreadTypes'
    BY <1>0, <1>1, <1>3 DEF SetMessageCapture, ThreadTypes, TypeOK, Goto, Count
  <2>2. LineTypes'
    BY <1>0, <1>3, <1>4, TypeParts DEF LineTypes
  <2>3. FlagTypes'
    BY <1>0, <1>3, TypeParts DEF FlagTypes
  <2> QED
    BY <2>1, <2>2, <2>3 DEF TypeOK, ThreadTypes, FlagTypes, LineTypes
<1>6. /\ MutexInv' /\ InHand' = InHand /\ Emitted' = Emitted
      /\ \A t \in Emitters : pc'[t] = pc[t] /\ cb'[t] = cb[t]
  BY <1>0, <1>2, <1>3, HostMutex
<1>7. TextInv'
  BY <1>0, <1>1, <1>2, <1>3 DEF TextInv, Moves
<1>8. PendingInv'
  BY <1>0, <1>1, <1>2, <1>3, <1>6 DEF PendingInv, Moves
<1>9. FormerCallbackQuiet'
  BY <1>0, <1>1, <1>2, <1>3, <1>6 DEF FormerCallbackQuiet, Moves
<1>10. PlaceInv' /\ OrderInv'
  BY <1>0, <1>3, <1>6, LinesFrame
<1> QED
  BY <1>5, <1>6, <1>7, <1>8, <1>9, <1>10 DEF IInv

(* A host looks at the flag. *)
LEMMA TakeCheckStep ==
  ASSUME IInv, NEW h \in Hosts, TakeCheck(h)
  PROVE  IInv'
<1>0. TypeOK /\ MutexInv /\ TextInv /\ PendingInv /\ PlaceInv /\ OrderInv
      /\ FormerCallbackQuiet
  BY DEF IInv
<1>1. h \in Threads /\ Emitters \subseteq Threads /\ Hosts \subseteq Threads /\ h \notin Emitters
  BY RolesAssumption DEF Threads
<1>2. PICK l \in {"take", "idle"} : Moves(h, l, done[h] + 1, cb[h], mutex)
  BY <1>0, HostMoves
<1>3. /\ pc[h] = "idle"
      /\ UNCHANGED <<mutex, sink, callback, capturing, pending, captured, text, places>>
  BY DEF TakeCheck
<1>4. UNCHANGED <<stdout, called, taken, unheard, unallocated>>
  BY <1>3 DEF places
<1>5. TypeOK'
  <2>1. ThreadTypes'
    BY <1>0, <1>1, <1>3 DEF TakeCheck, ThreadTypes, TypeOK, Goto, Count
  <2>2. LineTypes'
    BY <1>0, <1>3, <1>4, TypeParts DEF LineTypes
  <2>3. FlagTypes'
    BY <1>0, <1>3, TypeParts DEF FlagTypes
  <2> QED
    BY <2>1, <2>2, <2>3 DEF TypeOK, ThreadTypes, FlagTypes, LineTypes
<1>6. /\ MutexInv' /\ InHand' = InHand /\ Emitted' = Emitted
      /\ \A t \in Emitters : pc'[t] = pc[t] /\ cb'[t] = cb[t]
  BY <1>0, <1>2, <1>3, HostMutex
<1>7. TextInv'
  BY <1>0, <1>1, <1>2, <1>3 DEF TextInv, Moves
<1>8. PendingInv'
  BY <1>0, <1>1, <1>2, <1>3, <1>6 DEF PendingInv, Moves
<1>9. FormerCallbackQuiet'
  BY <1>0, <1>1, <1>2, <1>3, <1>6 DEF FormerCallbackQuiet, Moves
<1>10. PlaceInv' /\ OrderInv'
  BY <1>0, <1>3, <1>6, LinesFrame
<1> QED
  BY <1>5, <1>6, <1>7, <1>8, <1>9, <1>10 DEF IInv

(* A host lowers the flag: there is no captured text. *)
LEMMA TakeClearStep ==
  ASSUME IInv, NEW h \in Hosts, TakeClear(h)
  PROVE  IInv'
<1>0. TypeOK /\ MutexInv /\ TextInv /\ PendingInv /\ PlaceInv /\ OrderInv
      /\ FormerCallbackQuiet
  BY DEF IInv
<1>1. h \in Threads /\ Emitters \subseteq Threads /\ Hosts \subseteq Threads /\ h \notin Emitters
  BY RolesAssumption DEF Threads
<1>2. Moves(h, "give", done[h], cb[h], None)
  BY <1>0, HostMoves
<1>3. /\ pc[h] = "clear" /\ pending' = FALSE
      /\ UNCHANGED <<sink, callback, capturing, captured, cb, done, text, places>>
  BY DEF TakeClear
<1>4. UNCHANGED <<stdout, called, taken, unheard, unallocated>>
  BY <1>3 DEF places
<1>5. TypeOK'
  <2>1. ThreadTypes'
    BY <1>0, <1>1, <1>3 DEF TakeClear, ThreadTypes, TypeOK, Goto, Count
  <2>2. LineTypes'
    BY <1>0, <1>3, <1>4, TypeParts DEF LineTypes
  <2>3. FlagTypes'
    BY <1>0, <1>3, TypeParts DEF FlagTypes
  <2> QED
    BY <2>1, <2>2, <2>3 DEF TypeOK, ThreadTypes, FlagTypes, LineTypes
<1>6. /\ MutexInv' /\ InHand' = InHand /\ Emitted' = Emitted
      /\ \A t \in Emitters : pc'[t] = pc[t] /\ cb'[t] = cb[t]
  BY <1>0, <1>2, <1>3, HostMutex
<1>7. TextInv'
  BY <1>0, <1>1, <1>2, <1>3 DEF TextInv, Moves
<1>8. PendingInv'
  BY <1>0, <1>1, <1>2, <1>3, <1>6 DEF PendingInv, Moves
<1>9. FormerCallbackQuiet'
  BY <1>0, <1>1, <1>2, <1>3, <1>6 DEF FormerCallbackQuiet, Moves
<1>10. PlaceInv' /\ OrderInv'
  BY <1>0, <1>3, <1>6, LinesFrame
<1> QED
  BY <1>5, <1>6, <1>7, <1>8, <1>9, <1>10 DEF IInv

(* A host swaps the captured text out. *)
LEMMA TakeSwapStep ==
  ASSUME IInv, NEW h \in Hosts, TakeSwap(h)
  PROVE  IInv'
<1>0. TypeOK /\ MutexInv /\ TextInv /\ PendingInv /\ PlaceInv /\ OrderInv
      /\ FormerCallbackQuiet
  BY DEF IInv
<1>1. h \in Threads /\ Emitters \subseteq Threads /\ Hosts \subseteq Threads /\ h \notin Emitters
  BY RolesAssumption DEF Threads
<1>2. Moves(h, "clear", done[h], cb[h], h)
  BY <1>0, HostMoves
<1>3. /\ pc[h] = "take" /\ mutex = None /\ captured' = <<>>
      /\ UNCHANGED <<sink, callback, capturing, pending, cb, done, stdout, called,
                     taken, unheard, unallocated>>
  BY DEF TakeSwap, places
<1>4. \A g \in Hosts : text'[g] = IF g = h THEN captured ELSE text[g]
  BY <1>0 DEF TakeSwap, TypeOK
<1>5. TypeOK'
  <2>1. ThreadTypes'
    BY <1>0, <1>1, <1>3 DEF TakeSwap, ThreadTypes, TypeOK, Goto
  <2>2. text' \in [Hosts -> Seq(Message)]
    BY <1>0 DEF TakeSwap, TypeOK
  <2>3. captured' \in Seq(Message)
    BY <1>3
  <2>4. LineTypes'
    BY <1>0, <1>3, <2>2, <2>3, TypeParts DEF LineTypes
  <2>5. FlagTypes'
    BY <1>0, <1>3, TypeParts DEF FlagTypes
  <2> QED
    BY <2>1, <2>4, <2>5 DEF TypeOK, ThreadTypes, FlagTypes, LineTypes
<1>6. /\ MutexInv' /\ InHand' = InHand /\ Emitted' = Emitted
      /\ \A t \in Emitters : pc'[t] = pc[t] /\ cb'[t] = cb[t]
  BY <1>0, <1>2, <1>3, HostMutex
<1>7. TextInv'
  BY <1>0, <1>1, <1>2, <1>4 DEF TextInv, Moves
<1>8. PendingInv'
  BY <1>3 DEF PendingInv
<1>9. FormerCallbackQuiet'
  BY <1>0, <1>1, <1>2, <1>3, <1>6 DEF FormerCallbackQuiet, Moves
<1>10. text[h] = <<>>
  BY <1>0, <1>3 DEF TextInv
<1>11. CalledLines' = CalledLines
  BY <1>3 DEF CalledLines
<1>12. PlaceInv'
  <2> DEFINE a == <<"captured", None>>
             b == <<"text", h>>
  <2>1. a \in Labels /\ b \in Labels /\ a # b
    BY LabelForms
  <2>2. PICK X : X = Range(captured)
    OBVIOUS
  <2>3. Holds[a] = X /\ Holds[b] = {}
    BY <1>10, <2>2, HoldsAt, EmptyOrder
  <2>4. ASSUME NEW l \in Labels
        PROVE  Holds'[l] = IF l = a THEN Holds[l] \ X
                           ELSE IF l = b THEN Holds[l] \cup X ELSE Holds[l]
    <3>1. CASE l = a
      <4>1. Holds'[l] = Range(captured')
        BY <3>1 DEF Holds
      <4> QED
        BY <1>3, <2>1, <2>3, <3>1, <4>1, EmptyOrder
    <3>2. CASE l = b
      <4>1. Holds'[l] = Range(text'[h])
        BY <3>2 DEF Holds
      <4> QED
        BY <1>4, <2>1, <2>2, <2>3, <3>2, <4>1
    <3>3. CASE l # a /\ l # b
      <4>1. \A g \in Hosts : g # h => Range(text'[g]) = Range(text[g])
        BY <1>4
      <4>2. l[1] # "captured" /\ (l[1] = "text" => l[2] \in Hosts /\ l[2] # h)
        BY <3>3, LabelForms
      <4>3. Holds'[l] = Holds[l]
        BY <1>3, <1>6, <1>11, <4>1, <4>2 DEF Holds
      <4> QED
        BY <3>3, <4>3
    <3> QED
      BY <3>1, <3>2, <3>3
  <2>5. Moved(Holds, Holds', X, a, b)
    BY <2>4 DEF Moved
  <2> HIDE DEF a, b
  <2>6. Partition(Holds', Emitted)
    BY <1>0, <2>1, <2>3, <2>5, PartitionMove DEF PlaceInv
  <2> QED
    BY <1>6, <2>6 DEF PlaceInv, Partition
<1>13. OrderInv'
  <2>1. /\ InOrder(stdout)' /\ InOrder(LinesOf(called))'
        /\ \A g \in Hosts : InOrder(taken[g])'
    BY <1>0, <1>3 DEF OrderInv, InOrder
  <2>2. /\ InOrder(captured)'
        /\ \A g \in Hosts : Before(taken[g], captured)' /\ Before(text[g], captured)'
    BY <1>3, EmptyOrder DEF InOrder, Before
  <2>3. ASSUME NEW g \in Hosts PROVE InOrder(text[g])' /\ Before(taken[g], text[g])'
    <3>1. CASE g = h
      BY <1>0, <1>3, <1>4, <3>1 DEF OrderInv, InOrder, Before
    <3>2. CASE g # h
      BY <1>0, <1>3, <1>4, <3>2 DEF OrderInv, InOrder, Before
    <3> QED
      BY <3>1, <3>2
  <2> QED
    BY <2>1, <2>2, <2>3 DEF OrderInv
<1> QED
  BY <1>5, <1>6, <1>7, <1>8, <1>9, <1>12, <1>13 DEF IInv

(* A host gives its text out. *)
LEMMA TakeGivesStep ==
  ASSUME IInv, NEW h \in Hosts, TakeMessages(h),
         taken' = [taken EXCEPT ![h] = @ \o text[h]], unallocated' = unallocated
  PROVE  IInv'
<1>0. TypeOK /\ MutexInv /\ TextInv /\ PendingInv /\ PlaceInv /\ OrderInv
      /\ FormerCallbackQuiet
  BY DEF IInv
<1>1. h \in Threads /\ Emitters \subseteq Threads /\ Hosts \subseteq Threads /\ h \notin Emitters
  BY RolesAssumption DEF Threads
<1>2. Moves(h, "idle", done[h], cb[h], mutex)
  BY <1>0, HostMoves
<1>3. /\ pc[h] = "give"
      /\ UNCHANGED <<mutex, sink, callback, capturing, captured, pending, cb, done,
                     stdout, called, unheard, unallocated>>
  BY DEF TakeMessages
<1>4. \A g \in Hosts : text'[g] = IF g = h THEN <<>> ELSE text[g]
  BY <1>0 DEF TakeMessages, TypeOK
<1>5. \A g \in Hosts : taken'[g] = IF g = h THEN taken[h] \o text[h] ELSE taken[g]
  BY <1>0 DEF TypeOK
<1>6. /\ MutexInv' /\ InHand' = InHand /\ Emitted' = Emitted
      /\ \A t \in Emitters : pc'[t] = pc[t] /\ cb'[t] = cb[t]
  BY <1>0, <1>2, <1>3, HostMutex
<1>7. TextInv'
  BY <1>0, <1>1, <1>2, <1>4 DEF TextInv, Moves
<1>8. PendingInv'
  BY <1>0, <1>1, <1>2, <1>3, <1>6 DEF PendingInv, Moves
<1>9. FormerCallbackQuiet'
  BY <1>0, <1>1, <1>2, <1>3, <1>6 DEF FormerCallbackQuiet, Moves
<1>10. CalledLines' = CalledLines
  BY <1>3 DEF CalledLines
<1>11. PICK X : X = Range(text[h])
  OBVIOUS
<1>12. text[h] \in Seq(Message) /\ taken[h] \in Seq(Message) /\ X \subseteq Message
  <2>1. text[h] \in Seq(Message) /\ taken[h] \in Seq(Message)
    BY <1>0 DEF TypeOK
  <2>2. DOMAIN text[h] = 1 .. Len(text[h]) /\ \A i \in 1 .. Len(text[h]) : text[h][i] \in Message
    BY <2>1, LenProperties, ElementOfSeq
  <2> QED
    BY <1>11, <2>1, <2>2 DEF Range
<1>13. TypeOK'
  <2>1. ThreadTypes'
    BY <1>0, <1>1, <1>3 DEF TakeMessages, ThreadTypes, TypeOK, Goto
  <2>2. text' \in [Hosts -> Seq(Message)]
    <3>1. <<>> \in Seq(Message)
      OBVIOUS
    <3> QED
      BY <1>0, <3>1 DEF TakeMessages, TypeOK
  <2>3. taken' \in [Hosts -> Seq(Message)]
    <3>1. taken[h] \o text[h] \in Seq(Message)
      BY <1>12, ConcatProperties
    <3> QED
      BY <1>0, <3>1 DEF TypeOK
  <2>4. LineTypes'
    BY <1>0, <1>3, <1>5, <1>12, <2>2, <2>3, TypeParts DEF LineTypes
  <2>5. FlagTypes'
    BY <1>0, <1>3, TypeParts DEF FlagTypes
  <2> QED
    BY <2>1, <2>4, <2>5 DEF TypeOK, ThreadTypes, FlagTypes, LineTypes
<1>14. PlaceInv'
  <2> DEFINE a == <<"text", h>>
             b == <<"taken", h>>
  <2>1. a \in Labels /\ b \in Labels /\ a # b
    BY LabelForms
  <2>2. Holds[a] = X
    BY <1>11, HoldsAt
  <2>3. ASSUME NEW l \in Labels
        PROVE  Holds'[l] = IF l = a THEN Holds[l] \ X
                           ELSE IF l = b THEN Holds[l] \cup X ELSE Holds[l]
    <3>1. CASE l = a
      <4>1. Holds'[l] = Range(text'[h])
        BY <3>1 DEF Holds
      <4> QED
        BY <1>4, <2>1, <2>2, <3>1, <4>1, EmptyOrder
    <3>2. CASE l = b
      <4>1. Holds'[l] = Range(taken'[h]) /\ Holds[l] = Range(taken[h])
        BY <3>2 DEF Holds
      <4>2. Range(taken'[h]) = Range(taken[h]) \cup X
        BY <1>5, <1>11, <1>12, RangeConcat
      <4> QED
        BY <2>1, <3>2, <4>1, <4>2
    <3>3. CASE l # a /\ l # b
      <4>1. \A g \in Hosts : g # h => /\ Range(text'[g]) = Range(text[g])
                                       /\ Range(taken'[g]) = Range(taken[g])
        BY <1>3, <1>4, <1>5
      <4>2. l[1] \in {"text", "taken"} => l[2] \in Hosts /\ l[2] # h
        BY <3>3, LabelForms
      <4>3. Holds'[l] = Holds[l]
        <5>1. CASE l[1] \in {"text", "taken"}
          <6>1. PICK g \in Hosts : g = l[2] /\ g # h
            BY <4>2, <5>1
          <6>2. \/ Holds'[l] = Range(text'[g]) /\ Holds[l] = Range(text[g])
                \/ Holds'[l] = Range(taken'[g]) /\ Holds[l] = Range(taken[g])
            BY <5>1, <6>1 DEF Holds
          <6> QED
            BY <4>1, <6>1, <6>2
        <5>2. CASE l[1] \notin {"text", "taken"}
          BY <1>3, <1>6, <1>10, <5>2, LabelForms DEF Holds
        <5> QED
          BY <5>1, <5>2
      <4> QED
        BY <3>3, <4>3
    <3> QED
      BY <3>1, <3>2, <3>3
  <2>4. Moved(Holds, Holds', X, a, b)
    BY <2>3 DEF Moved
  <2> HIDE DEF a, b
  <2>5. Partition(Holds', Emitted)
    BY <1>0, <2>1, <2>2, <2>4, PartitionMove DEF PlaceInv
  <2> QED
    BY <1>6, <2>5 DEF PlaceInv, Partition
<1>15. OrderInv'
  <2>1. /\ InOrder(taken[h]) /\ InOrder(text[h]) /\ Before(taken[h], text[h])
        /\ Before(taken[h], captured) /\ Before(text[h], captured)
    BY <1>0 DEF OrderInv
  <2>2. PICK q : q = taken[h] \o text[h]
    OBVIOUS
  <2>3. InOrder(q) /\ Before(q, captured)
    BY <1>12, <2>1, <2>2, OrderConcat, BeforeConcat
  <2>4. ASSUME NEW g \in Hosts
        PROVE  /\ InOrder(taken[g])' /\ InOrder(text[g])' /\ Before(taken[g], text[g])'
               /\ Before(taken[g], captured)' /\ Before(text[g], captured)'
    <3>1. CASE g = h
      <4>1. taken'[g] = q /\ text'[g] = <<>> /\ captured' = captured
        BY <1>3, <1>4, <1>5, <2>2, <3>1
      <4>2. /\ InOrder(taken'[g]) /\ InOrder(text'[g]) /\ Before(taken'[g], text'[g])
            /\ Before(taken'[g], captured') /\ Before(text'[g], captured')
        BY <2>3, <4>1, EmptyOrder
      <4> QED
        BY <4>2
    <3>2. CASE g # h
      BY <1>0, <1>3, <1>4, <1>5, <3>2 DEF OrderInv, InOrder, Before
    <3> QED
      BY <3>1, <3>2
  <2>5. InOrder(stdout)' /\ InOrder(LinesOf(called))' /\ InOrder(captured)'
    BY <1>0, <1>3 DEF OrderInv, InOrder
  <2> QED
    BY <2>4, <2>5 DEF OrderInv
<1> QED
  BY <1>6, <1>7, <1>8, <1>9, <1>13, <1>14, <1>15 DEF IInv

(* ... or loses it, for want of memory. *)
LEMMA TakeFailsStep ==
  ASSUME IInv, NEW h \in Hosts, TakeMessages(h),
         unallocated' = unallocated \cup Range(text[h]), taken' = taken
  PROVE  IInv'
<1>0. TypeOK /\ MutexInv /\ TextInv /\ PendingInv /\ PlaceInv /\ OrderInv
      /\ FormerCallbackQuiet
  BY DEF IInv
<1>1. h \in Threads /\ Emitters \subseteq Threads /\ Hosts \subseteq Threads /\ h \notin Emitters
  BY RolesAssumption DEF Threads
<1>2. Moves(h, "idle", done[h], cb[h], mutex)
  BY <1>0, HostMoves
<1>3. /\ pc[h] = "give"
      /\ UNCHANGED <<mutex, sink, callback, capturing, captured, pending, cb, done,
                     stdout, called, unheard, taken>>
  BY DEF TakeMessages
<1>4. \A g \in Hosts : text'[g] = IF g = h THEN <<>> ELSE text[g]
  BY <1>0 DEF TakeMessages, TypeOK
<1>5. taken' = taken
  OBVIOUS
<1>6. /\ MutexInv' /\ InHand' = InHand /\ Emitted' = Emitted
      /\ \A t \in Emitters : pc'[t] = pc[t] /\ cb'[t] = cb[t]
  BY <1>0, <1>2, <1>3, HostMutex
<1>7. TextInv'
  BY <1>0, <1>1, <1>2, <1>4 DEF TextInv, Moves
<1>8. PendingInv'
  BY <1>0, <1>1, <1>2, <1>3, <1>6 DEF PendingInv, Moves
<1>9. FormerCallbackQuiet'
  BY <1>0, <1>1, <1>2, <1>3, <1>6 DEF FormerCallbackQuiet, Moves
<1>10. CalledLines' = CalledLines
  BY <1>3 DEF CalledLines
<1>11. PICK X : X = Range(text[h])
  OBVIOUS
<1>12. text[h] \in Seq(Message) /\ taken[h] \in Seq(Message) /\ X \subseteq Message
  <2>1. text[h] \in Seq(Message) /\ taken[h] \in Seq(Message)
    BY <1>0 DEF TypeOK
  <2>2. DOMAIN text[h] = 1 .. Len(text[h]) /\ \A i \in 1 .. Len(text[h]) : text[h][i] \in Message
    BY <2>1, LenProperties, ElementOfSeq
  <2> QED
    BY <1>11, <2>1, <2>2 DEF Range
<1>13. TypeOK'
  <2>1. ThreadTypes'
    BY <1>0, <1>1, <1>3 DEF TakeMessages, ThreadTypes, TypeOK, Goto
  <2>2. text' \in [Hosts -> Seq(Message)]
    <3>1. <<>> \in Seq(Message)
      OBVIOUS
    <3> QED
      BY <1>0, <3>1 DEF TakeMessages, TypeOK
  <2>3. unallocated' \subseteq Message
    BY <1>0, <1>11, <1>12 DEF TypeOK
  <2>4. LineTypes'
    BY <1>0, <1>3, <1>5, <1>12, <2>2, <2>3, TypeParts DEF LineTypes
  <2>5. FlagTypes'
    BY <1>0, <1>3, TypeParts DEF FlagTypes
  <2> QED
    BY <2>1, <2>4, <2>5 DEF TypeOK, ThreadTypes, FlagTypes, LineTypes
<1>14. PlaceInv'
  <2> DEFINE a == <<"text", h>>
             b == <<"unallocated", None>>
  <2>1. a \in Labels /\ b \in Labels /\ a # b
    BY LabelForms
  <2>2. Holds[a] = X
    BY <1>11, HoldsAt
  <2>3. ASSUME NEW l \in Labels
        PROVE  Holds'[l] = IF l = a THEN Holds[l] \ X
                           ELSE IF l = b THEN Holds[l] \cup X ELSE Holds[l]
    <3>1. CASE l = a
      <4>1. Holds'[l] = Range(text'[h])
        BY <3>1 DEF Holds
      <4> QED
        BY <1>4, <2>1, <2>2, <3>1, <4>1, EmptyOrder
    <3>2. CASE l = b
      <4>1. Holds'[l] = unallocated' /\ Holds[l] = unallocated
        BY <3>2 DEF Holds
      <4> QED
        BY <1>11, <2>1, <3>2, <4>1
    <3>3. CASE l # a /\ l # b
      <4>1. \A g \in Hosts : g # h => /\ Range(text'[g]) = Range(text[g])
                                       /\ Range(taken'[g]) = Range(taken[g])
        BY <1>3, <1>4, <1>5
      <4>2. l[1] # "unallocated" /\ (l[1] = "text" => l[2] \in Hosts /\ l[2] # h)
        BY <3>3, LabelForms
      <4>3. Holds'[l] = Holds[l]
        BY <1>3, <1>5, <1>6, <1>10, <4>1, <4>2 DEF Holds
      <4> QED
        BY <3>3, <4>3
    <3> QED
      BY <3>1, <3>2, <3>3
  <2>4. Moved(Holds, Holds', X, a, b)
    BY <2>3 DEF Moved
  <2> HIDE DEF a, b
  <2>5. Partition(Holds', Emitted)
    BY <1>0, <2>1, <2>2, <2>4, PartitionMove DEF PlaceInv
  <2> QED
    BY <1>6, <2>5 DEF PlaceInv, Partition
<1>15. OrderInv'
  <2>1. ASSUME NEW g \in Hosts
        PROVE  /\ InOrder(taken[g])' /\ InOrder(text[g])' /\ Before(taken[g], text[g])'
               /\ Before(taken[g], captured)' /\ Before(text[g], captured)'
    <3>1. CASE g = h
      <4>1. taken'[g] = taken[g] /\ text'[g] = <<>> /\ captured' = captured
        BY <1>3, <1>4, <1>5, <3>1
      <4> QED
        BY <1>0, <4>1, EmptyOrder DEF OrderInv, InOrder, Before
    <3>2. CASE g # h
      BY <1>0, <1>3, <1>4, <1>5, <3>2 DEF OrderInv, InOrder, Before
    <3> QED
      BY <3>1, <3>2
  <2>2. InOrder(stdout)' /\ InOrder(LinesOf(called))' /\ InOrder(captured)'
    BY <1>0, <1>3 DEF OrderInv, InOrder
  <2> QED
    BY <2>1, <2>2 DEF OrderInv
<1> QED
  BY <1>6, <1>7, <1>8, <1>9, <1>13, <1>14, <1>15 DEF IInv

(* A step that changes nothing. *)
LEMMA StutterStep ==
  ASSUME IInv, UNCHANGED vars
  PROVE  IInv'
<1>0. TypeOK /\ MutexInv /\ TextInv /\ PendingInv /\ PlaceInv /\ OrderInv
      /\ FormerCallbackQuiet
  BY DEF IInv
<1>1. UNCHANGED <<mutex, sink, callback, capturing, captured, pending, pc, cb, done,
                  text, stdout, called, taken, unheard, unallocated, places>>
  BY DEF vars, places
<1>2. TypeOK'
  BY <1>0, <1>1 DEF TypeOK
<1>3. MutexInv' /\ TextInv'
  BY <1>0, <1>1 DEF MutexInv, TextInv
<1>4. PendingInv' /\ FormerCallbackQuiet'
  BY <1>0, <1>1 DEF PendingInv, FormerCallbackQuiet
<1>5. HandKept
  BY <1>1 DEF HandKept
<1>6. PlaceInv' /\ OrderInv'
  BY <1>0, <1>1, <1>5, HandFrame, LinesFrame
<1> QED
  BY <1>2, <1>3, <1>4, <1>6 DEF IInv

(* Every step keeps the invariant. *)
LEMMA NextIInv == IInv /\ [Next]_vars => IInv'
<1> SUFFICES ASSUME IInv, [Next]_vars PROVE IInv'
  OBVIOUS
<1>1. CASE UNCHANGED vars
  BY <1>1, StutterStep
<1>2. ASSUME NEW t \in Emitters,
             \/ EmitToSink(t) \/ SinkReads(t) \/ SinkCalls(t)
             \/ EmitCaptured(t) \/ CapturePending(t) \/ EmitToStdout(t)
      PROVE  IInv'
  BY <1>2, EmitToSinkStep, SinkReadsStep, SinkDropsStep, SinkCallsStep, EmitCapturedStep,
     CapturePendingStep, EmitToStdoutStep
<1>3. ASSUME NEW h \in Hosts, TakeMessages(h) PROVE IInv'
  <2>1. \/ taken' = [taken EXCEPT ![h] = @ \o text[h]] /\ unallocated' = unallocated
        \/ unallocated' = unallocated \cup Range(text[h]) /\ taken' = taken
    BY <1>3 DEF TakeMessages
  <2> QED
    BY <1>3, <2>1, TakeGivesStep, TakeFailsStep
<1>4. ASSUME NEW h \in Hosts,
             \/ \E c \in Callbacks \cup {None} : SetPrintCallback(h, c)
             \/ \E on \in BOOLEAN : SetMessageCapture(h, on)
             \/ SetMessageSink(h) \/ TakeCheck(h) \/ TakeSwap(h) \/ TakeClear(h)
      PROVE  IInv'
  BY <1>4, SetPrintCallbackStep, SetMessageCaptureStep, SetMessageSinkStep, TakeCheckStep,
     TakeSwapStep, TakeClearStep
<1> QED
  BY <1>1, <1>2, <1>3, <1>4 DEF Next

(* The inductive invariant holds of every reachable state. *)
THEOREM Invariance == Spec => []IInv
BY InitIInv, NextIInv, PTL DEF Spec

-----------------------------------------------------------------------------
(* bs_set_print_callback: once every install has returned, no emitter is in  *)
(* or about to enter a callback other than the current one, for any number   *)
(* of emitters and hosts.                                                    *)
THEOREM FormerCallbacksAreQuiet == Spec => []FormerCallbackQuiet
<1>1. IInv => FormerCallbackQuiet
  BY DEF IInv
<1> QED
  BY <1>1, Invariance, PTL

(* A host's text with what is captured after it is in order. *)
LEMMA OrderHolds == IInv => EmissionOrder
<1> SUFFICES ASSUME IInv PROVE EmissionOrder
  OBVIOUS
<1>0. TypeOK /\ OrderInv
  BY DEF IInv
<1>1. InOrder(stdout) /\ InOrder([i \in DOMAIN called |-> called[i][2]])
  BY <1>0 DEF OrderInv, LinesOf
<1>2. ASSUME NEW h \in Hosts PROVE InOrder(taken[h] \o text[h] \o captured)
  <2>1. PICK s \in Seq(Message), r \in Seq(Message) : s = taken[h] /\ r = text[h]
    BY <1>0 DEF TypeOK
  <2>2. /\ InOrder(s) /\ InOrder(r) /\ InOrder(captured) /\ Before(s, r)
        /\ Before(s, captured) /\ Before(r, captured) /\ captured \in Seq(Message)
    BY <1>0, <2>1 DEF OrderInv, TypeOK
  <2>3. PICK q : q = s \o r
    OBVIOUS
  <2>4. q \in Seq(Message) /\ InOrder(q) /\ Before(q, captured)
    BY <2>2, <2>3, OrderConcat, BeforeConcat, ConcatProperties
  <2>5. InOrder(q \o captured)
    BY <2>2, <2>4, OrderConcat
  <2> QED
    BY <2>1, <2>3, <2>5
<1> QED
  BY <1>1, <1>2 DEF EmissionOrder

(* emit_message and take_captured_messages: at every destination the lines   *)
(* of one emitter come in the order it printed them, whatever the swaps.     *)
THEOREM LinesStayInOrder == Spec => []EmissionOrder
BY OrderHolds, Invariance, PTL

(* Where a sequence in order holds m: nowhere, or at one index. *)
LEMMA OneIndex ==
  ASSUME NEW s \in Seq(Message), NEW m \in Message, InOrder(s)
  PROVE  /\ m \notin Range(s) => At(s, m) = {}
         /\ m \in Range(s) => \E i \in DOMAIN s : At(s, m) = {i}
<1>1. m \notin Range(s) => At(s, m) = {}
  BY DEF Range, At
<1>2. ASSUME m \in Range(s) PROVE \E i \in DOMAIN s : At(s, m) = {i}
  <2>1. PICK i \in DOMAIN s : s[i] = m
    BY <1>2 DEF Range
  <2>2. ASSUME NEW j \in DOMAIN s, s[j] = m, j # i PROVE FALSE
    <3>1. i \in Int /\ j \in Int /\ m[2] \in Int
      BY LenProperties DEF Message
    <3>2. i < j \/ j < i
      BY <2>2, <3>1
    <3>3. m[2] < m[2]
      BY <2>1, <2>2, <3>2 DEF InOrder
    <3> QED
      BY <3>1, <3>3
  <2>3. At(s, m) = {i}
    BY <2>1, <2>2 DEF At
  <2> QED
    BY <2>3
<1> QED
  BY <1>1, <1>2

(* The spots of m in the place l. *)
SpotsAt(l, m) ==
  IF l[1] = "stdout" THEN {<<"stdout", i>> : i \in At(stdout, m)}
  ELSE IF l[1] = "captured" THEN {<<"captured", i>> : i \in At(captured, m)}
  ELSE IF l[1] = "called" THEN {<<"called", i>> : i \in At(LinesOf(called), m)}
  ELSE IF l[1] = "hand" THEN {<<"hand">> : x \in InHand \cap {m}}
  ELSE IF l[1] = "unheard" THEN {<<"unheard">> : x \in unheard \cap {m}}
  ELSE IF l[1] = "unallocated" THEN {<<"unallocated">> : x \in unallocated \cap {m}}
  ELSE IF l[1] = "text" THEN {<<"text", l[2], i>> : i \in At(text[l[2]], m)}
  ELSE {<<"taken", l[2], i>> : i \in At(taken[l[2]], m)}

(* A place has one spot of a line it holds, and none of another. *)
LEMMA OneSpot ==
  ASSUME IInv, NEW m \in Message, NEW l \in Labels
  PROVE  /\ m \notin Holds[l] => SpotsAt(l, m) = {}
         /\ m \in Holds[l] => \E p : SpotsAt(l, m) = {p}
<1>0. TypeOK /\ OrderInv
  BY DEF IInv
<1>1. ASSUME NEW s \in Seq(Message), InOrder(s), Holds[l] = Range(s), NEW f,
             SpotsAt(l, m) = {f[i] : i \in At(s, m)}
      PROVE  /\ m \notin Holds[l] => SpotsAt(l, m) = {}
             /\ m \in Holds[l] => \E p : SpotsAt(l, m) = {p}
  <2>1. CASE m \notin Range(s)
    <3>1. At(s, m) = {}
      BY <1>1, <2>1, OneIndex
    <3> QED
      BY <1>1, <2>1, <3>1
  <2>2. CASE m \in Range(s)
    <3>1. PICK i \in DOMAIN s : At(s, m) = {i}
      BY <1>1, <2>2, OneIndex
    <3>2. SpotsAt(l, m) = {f[i]}
      BY <1>1, <3>1
    <3> QED
      BY <1>1, <2>2, <3>2
  <2> QED
    BY <2>1, <2>2
<1>2. ASSUME NEW S, Holds[l] = S, NEW p, SpotsAt(l, m) = {p : x \in S \cap {m}}
      PROVE  /\ m \notin Holds[l] => SpotsAt(l, m) = {}
             /\ m \in Holds[l] => \E q : SpotsAt(l, m) = {q}
  BY <1>2
<1>3. CASE l[1] = "stdout"
  <2> DEFINE f == [i \in At(stdout, m) |-> <<"stdout", i>>]
  <2>1. SpotsAt(l, m) = {f[i] : i \in At(stdout, m)}
    BY <1>3 DEF SpotsAt
  <2>2. stdout \in Seq(Message) /\ InOrder(stdout) /\ Holds[l] = Range(stdout)
    BY <1>0, <1>3 DEF TypeOK, OrderInv, Holds
  <2> HIDE DEF f
  <2> QED
    BY <1>1, <2>1, <2>2
<1>4. CASE l[1] = "captured"
  <2> DEFINE f == [i \in At(captured, m) |-> <<"captured", i>>]
  <2>1. SpotsAt(l, m) = {f[i] : i \in At(captured, m)}
    BY <1>4 DEF SpotsAt
  <2>2. captured \in Seq(Message) /\ InOrder(captured) /\ Holds[l] = Range(captured)
    BY <1>0, <1>4 DEF TypeOK, OrderInv, Holds
  <2> HIDE DEF f
  <2> QED
    BY <1>1, <2>1, <2>2
<1>5. CASE l[1] = "called"
  <2>1. PICK s : s = LinesOf(called)
    OBVIOUS
  <2> DEFINE f == [i \in At(s, m) |-> <<"called", i>>]
  <2>2. SpotsAt(l, m) = {f[i] : i \in At(s, m)}
    BY <1>5, <2>1 DEF SpotsAt
  <2>3. s \in Seq(Message)
    <3>1. called \in Seq(Callbacks \X Message)
      BY <1>0 DEF TypeOK
    <3>2. /\ Len(called) \in Nat /\ DOMAIN called = 1 .. Len(called)
          /\ \A i \in 1 .. Len(called) : called[i] \in Callbacks \X Message
      BY <3>1, LenProperties, ElementOfSeq
    <3>3. s = [i \in 1 .. Len(called) |-> called[i][2]]
      BY <2>1, <3>2 DEF LinesOf
    <3>4. \A i \in 1 .. Len(called) : called[i][2] \in Message
      BY <3>2
    <3> QED
      BY <3>2, <3>3, <3>4
  <2>4. InOrder(s) /\ Holds[l] = Range(s)
    BY <1>0, <1>5, <2>1 DEF OrderInv, Holds, CalledLines
  <2> HIDE DEF f
  <2> QED
    BY <1>1, <2>2, <2>3, <2>4
<1>6. CASE l[1] = "text"
  <2>1. PICK h \in Hosts : h = l[2]
    BY <1>6, LabelForms
  <2> DEFINE f == [i \in At(text[h], m) |-> <<"text", h, i>>]
  <2>2. SpotsAt(l, m) = {f[i] : i \in At(text[h], m)}
    BY <1>6, <2>1 DEF SpotsAt
  <2>3. text[h] \in Seq(Message) /\ InOrder(text[h]) /\ Holds[l] = Range(text[h])
    BY <1>0, <1>6, <2>1 DEF TypeOK, OrderInv, Holds
  <2> HIDE DEF f
  <2> QED
    BY <1>1, <2>2, <2>3
<1>7. CASE l[1] = "taken"
  <2>1. PICK h \in Hosts : h = l[2]
    BY <1>7, LabelForms
  <2> DEFINE f == [i \in At(taken[h], m) |-> <<"taken", h, i>>]
  <2>2. SpotsAt(l, m) = {f[i] : i \in At(taken[h], m)}
    BY <1>7, <2>1 DEF SpotsAt
  <2>3. taken[h] \in Seq(Message) /\ InOrder(taken[h]) /\ Holds[l] = Range(taken[h])
    BY <1>0, <1>7, <2>1 DEF TypeOK, OrderInv, Holds
  <2> HIDE DEF f
  <2> QED
    BY <1>1, <2>2, <2>3
<1>8. CASE l[1] = "hand"
  <2>1. Holds[l] = InHand /\ SpotsAt(l, m) = {<<"hand">> : x \in InHand \cap {m}}
    BY <1>8 DEF Holds, SpotsAt
  <2> QED
    BY <2>1
<1>9. CASE l[1] = "unheard"
  <2>1. Holds[l] = unheard /\ SpotsAt(l, m) = {<<"unheard">> : x \in unheard \cap {m}}
    BY <1>9 DEF Holds, SpotsAt
  <2> QED
    BY <2>1
<1>10. CASE l[1] = "unallocated"
  <2>1. /\ Holds[l] = unallocated
        /\ SpotsAt(l, m) = {<<"unallocated">> : x \in unallocated \cap {m}}
    BY <1>10 DEF Holds, SpotsAt
  <2> QED
    BY <2>1
<1> QED
  BY <1>3, <1>4, <1>5, <1>6, <1>7, <1>8, <1>9, <1>10, LabelForms

(* The spots of a line are those in each place. *)
LEMMA SpotsSplit ==
  ASSUME NEW m
  PROVE  Spots(m) = UNION {SpotsAt(l, m) : l \in Labels}
<1> DEFINE T(h) == {<<"text", h, i>> : i \in At(text[h], m)}
           K(h) == {<<"taken", h, i>> : i \in At(taken[h], m)}
           A == {<<"stdout", i>> : i \in At(stdout, m)}
           B == {<<"captured", i>> : i \in At(captured, m)}
           C == {<<"called", i>> : i \in At(LinesOf(called), m)}
           D == {<<"hand">> : x \in InHand \cap {m}}
           E == {<<"unheard">> : x \in unheard \cap {m}}
           F == {<<"unallocated">> : x \in unallocated \cap {m}}
           V == HostSpots("text", text, m)
           W == HostSpots("taken", taken, m)
           U == {SpotsAt(l, m) : l \in Labels}
<1>0. At(LinesOf(called), m) = {j \in DOMAIN called : called[j][2] = m}
  BY DEF At, LinesOf
<1>1. Spots(m) = A \cup B \cup C \cup V \cup W \cup D \cup E \cup F
  BY <1>0 DEF Spots
<1>2. /\ SpotsAt(<<"stdout", None>>, m) = A /\ SpotsAt(<<"captured", None>>, m) = B
      /\ SpotsAt(<<"called", None>>, m) = C /\ SpotsAt(<<"hand", None>>, m) = D
      /\ SpotsAt(<<"unheard", None>>, m) = E /\ SpotsAt(<<"unallocated", None>>, m) = F
      /\ \A h \in Hosts : SpotsAt(<<"text", h>>, m) = T(h) /\ SpotsAt(<<"taken", h>>, m) = K(h)
  BY DEF SpotsAt
<1> HIDE DEF T, K, A, B, C, D, E, F
<1>3. /\ SpotsAt(<<"stdout", None>>, m) \subseteq UNION U
      /\ SpotsAt(<<"captured", None>>, m) \subseteq UNION U
      /\ SpotsAt(<<"called", None>>, m) \subseteq UNION U
      /\ SpotsAt(<<"hand", None>>, m) \subseteq UNION U
      /\ SpotsAt(<<"unheard", None>>, m) \subseteq UNION U
      /\ SpotsAt(<<"unallocated", None>>, m) \subseteq UNION U
      /\ \A h \in Hosts : /\ SpotsAt(<<"text", h>>, m) \subseteq UNION U
                          /\ SpotsAt(<<"taken", h>>, m) \subseteq UNION U
  BY LabelForms
<1>4. /\ V \subseteq UNION U /\ W \subseteq UNION U
      /\ \A h \in Hosts : T(h) \subseteq V /\ K(h) \subseteq W
  <2>1. V = UNION {T(h) : h \in Hosts} /\ W = UNION {K(h) : h \in Hosts}
    BY DEF HostSpots, T, K
  <2> QED
    BY <1>2, <1>3, <2>1
<1> HIDE DEF U, V, W
<1>5. Spots(m) \subseteq UNION U
  <2>1. /\ A \subseteq UNION U /\ B \subseteq UNION U /\ C \subseteq UNION U
        /\ D \subseteq UNION U /\ E \subseteq UNION U /\ F \subseteq UNION U
    BY <1>2, <1>3
  <2>2. PICK X : X = UNION U
    OBVIOUS
  <2> QED
    BY <1>1, <1>4, <2>1, <2>2
<1>6. ASSUME NEW l \in Labels PROVE SpotsAt(l, m) \subseteq Spots(m)
  <2>1. \/ l = <<"stdout", None>> \/ l = <<"captured", None>> \/ l = <<"called", None>>
        \/ l = <<"hand", None>> \/ l = <<"unheard", None>> \/ l = <<"unallocated", None>>
        \/ \E h \in Hosts : l = <<"text", h>> \/ l = <<"taken", h>>
    BY LabelForms
  <2>2. /\ A \subseteq Spots(m) /\ B \subseteq Spots(m) /\ C \subseteq Spots(m)
        /\ D \subseteq Spots(m) /\ E \subseteq Spots(m) /\ F \subseteq Spots(m)
        /\ \A h \in Hosts : T(h) \subseteq Spots(m) /\ K(h) \subseteq Spots(m)
    <3>1. PICK S : S = Spots(m)
      OBVIOUS
    <3>2. /\ A \subseteq S /\ B \subseteq S /\ C \subseteq S /\ D \subseteq S
          /\ E \subseteq S /\ F \subseteq S /\ V \subseteq S /\ W \subseteq S
      BY <1>1, <3>1
    <3> QED
      BY <1>4, <3>1, <3>2
  <2>3. /\ SpotsAt(<<"stdout", None>>, m) \subseteq Spots(m)
        /\ SpotsAt(<<"captured", None>>, m) \subseteq Spots(m)
        /\ SpotsAt(<<"called", None>>, m) \subseteq Spots(m)
        /\ SpotsAt(<<"hand", None>>, m) \subseteq Spots(m)
        /\ SpotsAt(<<"unheard", None>>, m) \subseteq Spots(m)
        /\ SpotsAt(<<"unallocated", None>>, m) \subseteq Spots(m)
        /\ \A h \in Hosts : /\ SpotsAt(<<"text", h>>, m) \subseteq Spots(m)
                            /\ SpotsAt(<<"taken", h>>, m) \subseteq Spots(m)
    BY <1>2, <2>2
  <2> QED
    BY <2>1, <2>3
<1> QED
  BY <1>5, <1>6 DEF U

(* What the invariant says of each line. *)
LEMMA OnceHolds == IInv => EachLineOnce
<1> SUFFICES ASSUME IInv PROVE EachLineOnce
  OBVIOUS
<1>0. TypeOK /\ MutexInv /\ PendingInv /\ PlaceInv
  BY DEF IInv
<1>1. mutex = None /\ captured # <<>> => pending
  <2> SUFFICES ASSUME mutex = None, captured # <<>>,
                      NEW t \in Emitters, pc[t] = "captured"
               PROVE  FALSE
    BY <1>0 DEF PendingInv
  <2>1. t \in Threads /\ t # None /\ pc[t] \in Locked
    BY NoneAssumption DEF Threads, Locked
  <2> QED
    BY <1>0, <2>1 DEF MutexInv
<1>2. ASSUME NEW m \in Message
      PROVE  Cardinality(Spots(m)) = IF m[2] <= done[m[1]] THEN 1 ELSE 0
  <2>1. CASE m \in Emitted
    <3>1. PICK l \in Labels : m \in Holds[l]
      BY <1>0, <2>1 DEF PlaceInv, Partition
    <3>2. \A k \in Labels : k # l => m \notin Holds[k]
      BY <1>0, <3>1 DEF PlaceInv, Partition
    <3>3. \A k \in Labels : k # l => SpotsAt(k, m) = {}
      BY <3>2, OneSpot
    <3>4. PICK p : SpotsAt(l, m) = {p}
      BY <3>1, OneSpot
    <3>5. Spots(m) = {p}
      BY <3>3, <3>4, SpotsSplit
    <3> QED
      BY <2>1, <3>5, FS_Singleton DEF Emitted
  <2>2. CASE m \notin Emitted
    <3>1. \A k \in Labels : m \notin Holds[k]
      BY <1>0, <2>2 DEF PlaceInv, Partition
    <3>2. \A k \in Labels : SpotsAt(k, m) = {}
      BY <3>1, OneSpot
    <3>3. Spots(m) = {}
      BY <3>2, SpotsSplit
    <3> QED
      BY <2>2, <3>3, FS_EmptySet DEF Emitted
  <2> QED
    BY <2>1, <2>2
<1> QED
  BY <1>0, <1>1, <1>2 DEF EachLineOnce

(* emit_message, the sink and take_captured_messages: a line is in exactly   *)
(* one place from the moment it is printed, and captured text is announced,  *)
(* for any number of emitters, hosts and lines.                              *)
THEOREM NoLineIsLostOrRepeated == Spec => []EachLineOnce
BY OnceHolds, Invariance, PTL
-----------------------------------------------------------------------------
(* The mapping of ImplementsLog. *)
Count1 == [t \in Emitters |-> Printed(t)]
Mail == [h \in Hosts |-> taken[h] \o text[h]]
Lost == unheard \cup unallocated

(* The sink stays installed while a line is on its way to the callback. *)
SinkHeld == \A t \in Emitters : pc[t] \in {"sink", "call"} => sink

(* The sink is only replaced under the mutex, which such a line's emitter    *)
(* holds.                                                                   *)
LEMMA SinkHeldStep == IInv /\ SinkHeld /\ [Next]_vars => SinkHeld'
<1> SUFFICES ASSUME IInv, SinkHeld, [Next]_vars PROVE SinkHeld'
  OBVIOUS
<1>0. TypeOK /\ MutexInv
  BY DEF IInv
<1>1. ASSUME NEW t \in Emitters,
             \/ EmitToSink(t) \/ SinkReads(t) \/ SinkCalls(t)
             \/ EmitCaptured(t) \/ CapturePending(t) \/ EmitToStdout(t)
      PROVE  SinkHeld'
  <2>1. pc \in [Threads -> {"idle", "sink", "call", "captured", "install",
                            "take", "clear", "give"}] /\ t \in Threads
    BY <1>0 DEF TypeOK, Threads
  <2>2. sink' = sink /\ (EmitToSink(t) => sink) /\ \A u \in Emitters : u \in Threads
    BY <1>1 DEF EmitToSink, SinkReads, SinkCalls, EmitCaptured, CapturePending,
                EmitToStdout, Threads
  <2>3. \A u \in Emitters : pc'[u] \in {"sink", "call"} =>
          pc[u] \in {"sink", "call"} \/ EmitToSink(t)
    BY <1>1, <2>1, <2>2 DEF SinkReads, SinkCalls, EmitCaptured, CapturePending,
                EmitToStdout, Goto
  <2> QED
    BY <2>2, <2>3 DEF SinkHeld
<1>2. ASSUME NEW h \in Hosts, SetMessageSink(h) PROVE SinkHeld'
  <2>1. \A u \in Emitters : u \in Threads /\ u # None /\ u # h
    BY RolesAssumption, NoneAssumption DEF Threads
  <2>2. mutex = None /\ pc' = [pc EXCEPT ![h] = "idle"]
    BY <1>2 DEF SetMessageSink, Goto
  <2>3. \A u \in Emitters : pc[u] \notin {"sink", "call"} /\ pc'[u] = pc[u]
    BY <1>0, <2>1, <2>2 DEF MutexInv, Locked, TypeOK
  <2> QED
    BY <2>3 DEF SinkHeld
<1>3. ASSUME NEW h \in Hosts,
             \/ \E c \in Callbacks \cup {None} : SetPrintCallback(h, c)
             \/ \E on \in BOOLEAN : SetMessageCapture(h, on)
             \/ TakeCheck(h) \/ TakeSwap(h) \/ TakeClear(h) \/ TakeMessages(h)
      PROVE  SinkHeld'
  <2>1. \A u \in Emitters : u \in Threads /\ u # h
    BY RolesAssumption DEF Threads
  <2>2. sink' = sink /\ (pc' = pc \/ \E l : pc' = [pc EXCEPT ![h] = l])
    BY <1>3 DEF SetPrintCallback, SetMessageCapture, TakeCheck, TakeSwap, TakeClear,
                TakeMessages, Goto
  <2>3. \A u \in Emitters : pc'[u] = pc[u]
    BY <1>0, <2>1, <2>2 DEF TypeOK
  <2> QED
    BY <2>2, <2>3 DEF SinkHeld
<1>4. CASE UNCHANGED vars
  BY <1>4 DEF vars, SinkHeld
<1> QED
  BY <1>1, <1>2, <1>3, <1>4 DEF Next

(* How an emitter's step changes what it has printed. *)
LEMMA PrintedMoves ==
  ASSUME NEW t \in Emitters, NEW l, NEW d, NEW c, NEW m, Moves(t, l, d, c, m),
         NEW k, k = d - IF l \in {"sink", "call"} THEN 1 ELSE 0
  PROVE  Count1' = [Count1 EXCEPT ![t] = k] /\ (k = Count1[t] => Count1' = Count1)
<1>1. \A u \in Emitters : u \in Threads
  BY DEF Threads
<1>2. /\ done'[t] = d /\ pc'[t] = l
      /\ \A u \in Emitters : u # t => done'[u] = done[u] /\ pc'[u] = pc[u]
  BY <1>1 DEF Moves
<1>3. Count1' = [u \in Emitters |-> done'[u] - IF pc'[u] \in {"sink", "call"} THEN 1 ELSE 0]
  BY DEF Count1, Printed
<1>4. Count1 = [u \in Emitters |-> done[u] - IF pc[u] \in {"sink", "call"} THEN 1 ELSE 0]
  BY DEF Count1, Printed
<1>5. Count1' = [Count1 EXCEPT ![t] = k]
  BY <1>2, <1>3, <1>4
<1>6. k = Count1[t] => Count1' = Count1
  BY <1>2, <1>3, <1>4
<1> QED
  BY <1>5, <1>6

(* A host prints nothing. *)
LEMMA PrintedStays ==
  ASSUME \A t \in Emitters : pc'[t] = pc[t] /\ done'[t] = done[t]
  PROVE  Count1' = Count1
  BY DEF Count1, Printed

(* What collecting, giving out and failing to give out do to a host's mail. *)
LEMMA MailSteps ==
  ASSUME IInv, NEW h \in Hosts
  PROVE  /\ TakeSwap(h) => Mail' = [Mail EXCEPT ![h] = @ \o captured]
         /\ (/\ text' = [text EXCEPT ![h] = <<>>]
             /\ taken' = [taken EXCEPT ![h] = @ \o text[h]]) => Mail' = Mail
         /\ (text' = [text EXCEPT ![h] = <<>>] /\ taken' = taken)
              => Mail' = [Mail EXCEPT ![h] = taken[h]]
<1>0. /\ text \in [Hosts -> Seq(Message)] /\ taken \in [Hosts -> Seq(Message)]
      /\ captured \in Seq(Message)
  BY DEF IInv, TypeOK
<1>1. /\ taken[h] \in Seq(Message) /\ text[h] \in Seq(Message)
      /\ taken[h] \o text[h] \in Seq(Message)
  BY <1>0, ConcatProperties
<1>2. /\ taken[h] \o <<>> = taken[h]
      /\ (taken[h] \o text[h]) \o <<>> = taken[h] \o text[h]
  BY <1>1, ConcatEmptySeq
<1>3. Mail' = [g \in Hosts |-> taken'[g] \o text'[g]]
  BY DEF Mail
<1>4. ASSUME TakeSwap(h) PROVE Mail' = [Mail EXCEPT ![h] = @ \o captured]
  <2>1. text[h] = <<>>
    BY <1>4 DEF IInv, TextInv, TakeSwap
  <2>2. taken' = taken /\ text' = [text EXCEPT ![h] = captured]
    BY <1>4 DEF TakeSwap, places
  <2>3. \A g \in Hosts : taken'[g] \o text'[g] =
                           IF g = h THEN Mail[h] \o captured ELSE Mail[g]
    BY <1>0, <1>2, <2>1, <2>2 DEF Mail
  <2> QED
    BY <1>3, <2>3 DEF Mail
<1>5. ASSUME text' = [text EXCEPT ![h] = <<>>],
             taken' = [taken EXCEPT ![h] = @ \o text[h]]
      PROVE  Mail' = Mail
  <2>1. \A g \in Hosts : taken'[g] \o text'[g] = Mail[g]
    BY <1>0, <1>2, <1>5 DEF Mail
  <2> QED
    BY <1>3, <2>1 DEF Mail
<1>6. ASSUME text' = [text EXCEPT ![h] = <<>>], taken' = taken
      PROVE  Mail' = [Mail EXCEPT ![h] = taken[h]]
  <2>1. \A g \in Hosts : taken'[g] \o text'[g] = IF g = h THEN taken[h] ELSE Mail[g]
    BY <1>0, <1>2, <1>6 DEF Mail
  <2> QED
    BY <1>3, <2>1 DEF Mail
<1> QED
  BY <1>4, <1>5, <1>6

(* Cutting what was put together gives the parts back. *)
LEMMA ConcatParts ==
  ASSUME NEW S, NEW s \in Seq(S), NEW r \in Seq(S)
  PROVE  /\ SubSeq(s \o r, 1, Len(s)) = s
         /\ SubSeq(s \o r, Len(s) + 1, Len(s \o r)) = r
         /\ Len(s) \in 0 .. Len(s \o r)
<1>1. /\ s \o r \in Seq(S) /\ Len(s \o r) = Len(s) + Len(r)
      /\ \A i \in 1 .. Len(s) + Len(r) :
           (s \o r)[i] = IF i <= Len(s) THEN s[i] ELSE r[i - Len(s)]
  BY ConcatProperties
<1>2. Len(s) \in Nat /\ Len(r) \in Nat
  BY LenProperties
<1>3. \A i \in 1 .. Len(s) + Len(r) : (s \o r)[i] \in S
  BY <1>1, ElementOfSeq
<1>4. SubSeq(s \o r, 1, Len(s)) = s
  <2>1. /\ SubSeq(s \o r, 1, Len(s)) \in Seq(S)
        /\ Len(SubSeq(s \o r, 1, Len(s))) = Len(s)
        /\ \A i \in 1 .. Len(s) : SubSeq(s \o r, 1, Len(s))[i] = (s \o r)[1 + i - 1]
    <3>1. /\ SubSeq(s \o r, 1, Len(s)) \in Seq(S)
          /\ Len(SubSeq(s \o r, 1, Len(s)))
               = IF 1 <= Len(s) THEN Len(s) - 1 + 1 ELSE 0
          /\ \A i \in 1 .. Len(s) - 1 + 1 :
               SubSeq(s \o r, 1, Len(s))[i] = (s \o r)[1 + i - 1]
      <4>1. \A i \in 1 .. Len(s) : (s \o r)[i] \in S
        BY <1>2, <1>3
      <4>2. PICK q : q = s \o r
        OBVIOUS
      <4> QED
        BY <1>2, <4>1, <4>2, SubSeqProperties
    <3> QED
      BY <1>2, <3>1
  <2>2. \A i \in 1 .. Len(s) : SubSeq(s \o r, 1, Len(s))[i] = s[i]
    BY <1>1, <1>2, <2>1
  <2> QED
    BY <2>1, <2>2, SeqEqual
<1>5. SubSeq(s \o r, Len(s) + 1, Len(s \o r)) = r
  <2>1. PICK a : a = Len(s) + 1
    OBVIOUS
  <2>2. PICK b : b = Len(s) + Len(r)
    OBVIOUS
  <2>3. a \in Int /\ b \in Int /\ b - a + 1 = Len(r) /\ \A i \in a .. b : (s \o r)[i] \in S
    BY <1>2, <1>3, <2>1, <2>2
  <2>4. /\ SubSeq(s \o r, a, b) \in Seq(S)
        /\ Len(SubSeq(s \o r, a, b)) = IF a <= b THEN b - a + 1 ELSE 0
        /\ \A i \in 1 .. b - a + 1 : SubSeq(s \o r, a, b)[i] = (s \o r)[a + i - 1]
    <3>1. PICK q : q = s \o r
      OBVIOUS
    <3>2. \A i \in a .. b : q[i] \in S
      BY <2>3, <3>1
    <3>3. /\ SubSeq(q, a, b) \in Seq(S)
          /\ Len(SubSeq(q, a, b)) = IF a <= b THEN b - a + 1 ELSE 0
          /\ \A i \in 1 .. b - a + 1 : SubSeq(q, a, b)[i] = q[a + i - 1]
      <4> HIDE <3>1
      <4> QED
        BY <2>3, <3>2, SubSeqProperties
    <3> QED
      BY <3>1, <3>3
  <2>5. Len(SubSeq(s \o r, a, b)) = Len(r)
    BY <1>2, <2>1, <2>2, <2>3, <2>4
  <2>6. \A i \in 1 .. Len(r) : (s \o r)[a + i - 1] = r[i]
    BY <1>1, <1>2, <2>1
  <2> QED
    BY <1>1, <2>1, <2>2, <2>3, <2>4, <2>5, <2>6, SeqEqual
<1> QED
  BY <1>1, <1>2, <1>4, <1>5

(* Every step of the sink is one of the log, or none. *)
LEMMA LogStep ==
  ASSUME IInv, SinkHeld, [Next]_vars
  PROVE  [Log!Next]_(Log!vars)
<1>0. TypeOK /\ MutexInv
  BY DEF IInv
<1>t. /\ done \in [Threads -> Nat] /\ MaxMessages \in Nat
      /\ \A t \in Emitters : /\ t \in Threads /\ t \notin Hosts
                            /\ done[t] \in 0 .. MaxMessages /\ done[t] \in Int
      /\ pc \in [Threads -> {"idle", "sink", "call", "captured", "install",
                            "take", "clear", "give"}]
  BY <1>0, MessagesAssumption, RolesAssumption DEF TypeOK, MutexInv, Threads
<1>c. /\ \A t \in Emitters : pc[t] \notin {"sink", "call"} => Count1[t] = done[t]
      /\ \A t \in Emitters : pc[t] \in {"sink", "call"} =>
           /\ Count1[t] = done[t] - 1 /\ Count1[t] + 1 = done[t]
           /\ Count1[t] < MaxMessages
  BY <1>0, <1>t DEF Count1, Printed, MutexInv
<1>m. text' = text /\ taken' = taken => Mail' = Mail
  BY DEF Mail
<1>n. /\ \A t \in Emitters : Log!PrintOut(t) \/ Log!PrintCaptured(t)
                              \/ Log!PrintUnheard(t) => Log!Next
      /\ \A t \in Emitters, c \in Callbacks : Log!PrintHeard(t, c) => Log!Next
      /\ \A on \in BOOLEAN : Log!Listen(on) \/ Log!Capture(on) => Log!Next
      /\ \A h \in Hosts : Log!Collect(h) \/ Log!Forget(h) => Log!Next
  BY DEF Log!Next
<1>s. ASSUME Count1' = Count1, Mail' = Mail,
             UNCHANGED <<sink, capturing, captured, stdout, called, unheard, unallocated>>
      PROVE  UNCHANGED Log!vars
  <2>1. Lost' = Lost
    BY <1>s DEF Lost
  <2> QED
    BY <1>s, <2>1 DEF Log!vars, Count1, Mail, Lost
<1>1. ASSUME NEW t \in Emitters, EmitToSink(t)
      PROVE  UNCHANGED Log!vars
  <2>1. Moves(t, "sink", done[t] + 1, cb[t], t)
    BY <1>0, <1>1, EmitterMoves
  <2>2. Count1[t] = (done[t] + 1) - 1
    BY <1>1, <1>c, <1>t DEF EmitToSink
  <2>3. Count1[t] = (done[t] + 1) - IF "sink" \in {"sink", "call"} THEN 1 ELSE 0
    BY <2>2
  <2>4. Count1' = Count1
    BY <2>1, <2>3, PrintedMoves
  <2> QED
    BY <1>1, <1>m, <1>s, <2>4 DEF EmitToSink, places
<1>2. ASSUME NEW t \in Emitters, SinkReads(t)
      PROVE  [Log!Next]_(Log!vars)
  <2>0. pc[t] = "sink" /\ sink /\ text' = text
        /\ UNCHANGED <<sink, capturing, captured, taken, stdout, called, unallocated>>
    BY <1>2 DEF SinkReads, SinkHeld
  <2>1. CASE callback # None
    <3>1. Moves(t, "call", done[t], callback, mutex)
      BY <1>0, <1>2, <2>1, EmitterMoves
    <3>2. Count1[t] = done[t] - IF "call" \in {"sink", "call"} THEN 1 ELSE 0
      BY <1>c, <2>0
    <3>3. Count1' = Count1
      BY <3>1, <3>2, PrintedMoves
    <3>4. unheard' = unheard
      BY <1>2, <2>1 DEF SinkReads
    <3> QED
      BY <1>m, <1>s, <2>0, <3>3, <3>4
  <2>2. CASE callback = None
    <3>1. Moves(t, "idle", done[t], cb[t], None)
      BY <1>0, <1>2, <2>2, EmitterMoves
    <3>2. Count1[t] + 1 = done[t] - IF "idle" \in {"sink", "call"} THEN 1 ELSE 0
      BY <1>c, <1>t, <2>0
    <3>3. Count1' = [Count1 EXCEPT ![t] = @ + 1]
      BY <3>1, <3>2, PrintedMoves
    <3>4. Current(t) = <<t, Count1[t] + 1>>
      BY <1>c, <2>0 DEF Current
    <3>5. Lost' = Lost \cup {<<t, Count1[t] + 1>>}
      BY <1>2, <2>0, <2>2, <3>4 DEF SinkReads, Lost
    <3>6. Log!PrintUnheard(t)
      BY <1>c, <1>m, <2>0, <3>3, <3>5
      DEF Log!PrintUnheard, Log!Counted, Log!Line, Count1, Mail, Lost
    <3> QED
      BY <1>n, <3>6
  <2> QED
    BY <2>1, <2>2
<1>3. ASSUME NEW t \in Emitters, SinkCalls(t)
      PROVE  Log!Next
  <2>0. /\ pc[t] = "call" /\ sink /\ text' = text /\ cb[t] \in Callbacks
        /\ UNCHANGED <<sink, capturing, captured, taken, stdout, unheard, unallocated>>
        /\ called' = Append(called, <<cb[t], Current(t)>>)
    BY <1>0, <1>3 DEF SinkCalls, SinkHeld, MutexInv
  <2>1. Moves(t, "idle", done[t], None, None)
    BY <1>0, <1>3, EmitterMoves
  <2>2. Count1[t] + 1 = done[t] - IF "idle" \in {"sink", "call"} THEN 1 ELSE 0
    BY <1>c, <1>t, <2>0
  <2>3. Count1' = [Count1 EXCEPT ![t] = @ + 1]
    BY <2>1, <2>2, PrintedMoves
  <2>4. Current(t) = <<t, Count1[t] + 1>>
    BY <1>c, <2>0 DEF Current
  <2>5. Log!PrintHeard(t, cb[t])
    BY <1>c, <1>m, <2>0, <2>3, <2>4
    DEF Log!PrintHeard, Log!Counted, Log!Line, Count1, Mail
  <2> QED
    BY <1>n, <2>0, <2>5
<1>4. ASSUME NEW t \in Emitters, EmitCaptured(t)
      PROVE  Log!Next
  <2>0. /\ pc[t] = "idle" /\ ~sink /\ capturing /\ done[t] < MaxMessages
        /\ text' = text /\ captured' = Append(captured, <<t, done[t] + 1>>)
        /\ UNCHANGED <<sink, capturing, taken, stdout, called, unheard, unallocated>>
    BY <1>4 DEF EmitCaptured, places
  <2>1. Moves(t, "captured", done[t] + 1, cb[t], t)
    BY <1>0, <1>4, EmitterMoves
  <2>2. Count1[t] = done[t]
    BY <1>c, <2>0
  <2>3. Count1[t] + 1 = (done[t] + 1)
                        - IF "captured" \in {"sink", "call"} THEN 1 ELSE 0
    BY <1>t, <2>2
  <2>4. Count1' = [Count1 EXCEPT ![t] = @ + 1]
    BY <2>1, <2>3, PrintedMoves
  <2>5. Log!PrintCaptured(t)
    BY <1>m, <2>0, <2>2, <2>4
    DEF Log!PrintCaptured, Log!Counted, Log!Line, Count1, Mail
  <2> QED
    BY <1>n, <2>5
<1>5. ASSUME NEW t \in Emitters, CapturePending(t)
      PROVE  UNCHANGED Log!vars
  <2>1. Moves(t, "idle", done[t], cb[t], None) /\ pc[t] = "captured"
    BY <1>0, <1>5, EmitterMoves DEF CapturePending
  <2>2. Count1[t] = done[t] - IF "idle" \in {"sink", "call"} THEN 1 ELSE 0
    BY <1>c, <1>t, <2>1
  <2>3. Count1' = Count1
    BY <2>1, <2>2, PrintedMoves
  <2> QED
    BY <1>5, <1>m, <1>s, <2>3 DEF CapturePending, places
<1>6. ASSUME NEW t \in Emitters, EmitToStdout(t)
      PROVE  Log!Next
  <2>0. /\ pc[t] = "idle" /\ ~sink /\ ~capturing /\ done[t] < MaxMessages
        /\ text' = text /\ stdout' = Append(stdout, <<t, done[t] + 1>>)
        /\ UNCHANGED <<sink, capturing, captured, taken, called, unheard, unallocated>>
    BY <1>6 DEF EmitToStdout
  <2>1. Moves(t, pc[t], done[t] + 1, cb[t], mutex)
    BY <1>0, <1>6, EmitterMoves
  <2>2. Count1[t] = done[t]
    BY <1>c, <2>0
  <2>3. Count1[t] + 1 = (done[t] + 1)
                        - IF pc[t] \in {"sink", "call"} THEN 1 ELSE 0
    BY <1>t, <2>0, <2>2
  <2>4. Count1' = [Count1 EXCEPT ![t] = @ + 1]
    BY <2>1, <2>3, PrintedMoves
  <2>5. Log!PrintOut(t)
    BY <1>m, <2>0, <2>2, <2>4
    DEF Log!PrintOut, Log!Counted, Log!Line, Count1, Mail
  <2> QED
    BY <1>n, <2>5
<1>7. ASSUME NEW h \in Hosts PROVE \A t \in Emitters : t # h
  BY <1>t
<1>8. ASSUME NEW h \in Hosts,
             \/ \E c \in Callbacks \cup {None} : SetPrintCallback(h, c)
             \/ TakeCheck(h) \/ TakeClear(h)
      PROVE  UNCHANGED Log!vars
  <2>1. /\ pc' = pc \/ \E l : pc' = [pc EXCEPT ![h] = l]
        /\ done' = done \/ done' = [done EXCEPT ![h] = @ + 1]
    BY <1>8 DEF SetPrintCallback, TakeCheck, TakeClear, Goto, Count
  <2>2. Count1' = Count1
    BY <1>t, <1>7, <2>1, PrintedStays
  <2>3. /\ UNCHANGED <<sink, capturing, captured, stdout, called, unheard, unallocated>>
        /\ text' = text /\ taken' = taken
    BY <1>8 DEF SetPrintCallback, TakeCheck, TakeClear, places
  <2> QED
    BY <1>m, <1>s, <2>2, <2>3
<1>9. ASSUME NEW h \in Hosts, SetMessageSink(h)
      PROVE  Log!Next
  <2>1. Count1' = Count1
    BY <1>t, <1>7, <1>9, PrintedStays DEF SetMessageSink, Goto
  <2>2. Log!Listen(sink') /\ sink' \in BOOLEAN
    BY <1>9, <1>m, <2>1 DEF SetMessageSink, places, Log!Listen, Count1, Mail
  <2> QED
    BY <1>n, <2>2
<1>10. ASSUME NEW h \in Hosts, NEW on \in BOOLEAN, SetMessageCapture(h, on)
       PROVE  Log!Next
  <2>1. Count1' = Count1
    BY <1>t, <1>7, <1>10, PrintedStays DEF SetMessageCapture, Count
  <2>2. Log!Capture(on)
    BY <1>10, <1>m, <2>1 DEF SetMessageCapture, places, Log!Capture, Count1, Mail
  <2> QED
    BY <1>n, <2>2
<1>11. ASSUME NEW h \in Hosts, TakeSwap(h)
       PROVE  Log!Next
  <2>1. Count1' = Count1
    BY <1>t, <1>7, <1>11, PrintedStays DEF TakeSwap, Goto
  <2>2. Mail' = [Mail EXCEPT ![h] = @ \o captured]
    BY <1>11, MailSteps
  <2>3. Log!Collect(h)
    BY <1>11, <2>1, <2>2 DEF TakeSwap, places, Log!Collect, Count1, Mail
  <2> QED
    BY <1>n, <2>3
<1>12. ASSUME NEW h \in Hosts, TakeMessages(h)
       PROVE  [Log!Next]_(Log!vars)
  <2>1. Count1' = Count1
    BY <1>t, <1>7, <1>12, PrintedStays DEF TakeMessages, Goto
  <2>2. /\ text' = [text EXCEPT ![h] = <<>>]
        /\ UNCHANGED <<sink, capturing, captured, stdout, called, unheard>>
    BY <1>12 DEF TakeMessages
  <2>3. CASE taken' = [taken EXCEPT ![h] = @ \o text[h]] /\ unallocated' = unallocated
    <3>1. Mail' = Mail
      BY <2>2, <2>3, MailSteps
    <3> QED
      BY <1>s, <2>1, <2>2, <2>3, <3>1
  <2>4. CASE unallocated' = unallocated \cup Range(text[h]) /\ taken' = taken
    <3>1. Mail' = [Mail EXCEPT ![h] = taken[h]]
      BY <2>2, <2>4, MailSteps
    <3>2. taken[h] \in Seq(Message) /\ text[h] \in Seq(Message)
      BY <1>0 DEF TypeOK
    <3>3. PICK n : /\ n \in 0 .. Len(Mail[h])
                   /\ SubSeq(Mail[h], 1, n) = taken[h]
                   /\ SubSeq(Mail[h], n + 1, Len(Mail[h])) = text[h]
      <4>1. Mail[h] = taken[h] \o text[h]
        BY DEF Mail
      <4>2. /\ SubSeq(Mail[h], 1, Len(taken[h])) = taken[h]
            /\ SubSeq(Mail[h], Len(taken[h]) + 1, Len(Mail[h])) = text[h]
            /\ Len(taken[h]) \in 0 .. Len(Mail[h])
        <5>1. /\ SubSeq(taken[h] \o text[h], 1, Len(taken[h])) = taken[h]
              /\ SubSeq(taken[h] \o text[h], Len(taken[h]) + 1,
                        Len(taken[h] \o text[h])) = text[h]
              /\ Len(taken[h]) \in 0 .. Len(taken[h] \o text[h])
          BY <3>2, ConcatParts
        <5> QED
          BY ONLY <4>1, <5>1, Zenon
      <4> QED
        BY ONLY <4>2, Zenon
    <3>4. Lost' = Lost \cup Log!Range(text[h])
      <4>1. Log!Range(text[h]) = Range(text[h])
        BY DEF Log!Range, Range
      <4> QED
        BY <2>2, <2>4, <4>1 DEF Lost
    <3>5. \E k \in 0 .. Len(Mail[h]) :
            /\ Mail' = [Mail EXCEPT ![h] = SubSeq(Mail[h], 1, k)]
            /\ Lost' = Lost \cup Log!Range(SubSeq(Mail[h], k + 1, Len(Mail[h])))
      BY ONLY <3>1, <3>3, <3>4, Zenon
    <3>6. Log!Forget(h)
      BY <2>1, <2>2, <3>5, Zenon DEF Log!Forget, Count1, Mail, Lost
    <3> QED
      BY <1>n, <3>6
  <2> QED
    BY <1>12, <2>3, <2>4 DEF TakeMessages
<1>13. CASE UNCHANGED vars
  <2>1. Count1' = Count1
    BY <1>13, PrintedStays DEF vars
  <2> QED
    BY <1>13, <1>m, <1>s, <2>1 DEF vars, places
<1> QED
  BY <1>1, <1>2, <1>3, <1>4, <1>5, <1>6, <1>8, <1>9, <1>10, <1>11, <1>12, <1>13
  DEF Next

(* Nothing is printed yet, and no sink is installed. *)
LEMMA LogInit == Init => Log!Init /\ SinkHeld
<1> SUFFICES ASSUME Init PROVE Log!Init /\ SinkHeld
  OBVIOUS
<1>1. \A t \in Emitters : t \in Threads /\ pc[t] = "idle" /\ done[t] = 0
  BY DEF Init, Threads
<1>2. Count1 = [t \in Emitters |-> 0]
  BY <1>1 DEF Count1, Printed
<1>3. Mail = [h \in Hosts |-> <<>>]
  <2>1. <<>> \o <<>> = <<>>
    BY EmptySeq, ConcatEmptySeq
  <2> QED
    BY <2>1 DEF Init, Mail
<1>4. Lost = {}
  BY DEF Init, Lost
<1> QED
  BY <1>1, <1>2, <1>3, <1>4 DEF Init, Log!Init, SinkHeld, Count1, Mail, Lost

(* emit_message and take_captured_messages are atomic to their callers, for  *)
(* any number of emitters, hosts, callbacks, lines and calls.               *)
THEOREM TheSinkIsALog == Spec => ImplementsLog
<1>1. IInv /\ SinkHeld /\ [Next]_vars => SinkHeld'
  BY SinkHeldStep
<1>2. Spec => []SinkHeld
  BY <1>1, LogInit, Invariance, PTL DEF Spec
<1>3. IInv /\ SinkHeld /\ [Next]_vars => [Log!Next]_(Log!vars)
  BY LogStep
<1> QED
  BY <1>2, <1>3, LogInit, Invariance, PTL DEF Spec, ImplementsLog, Log!Spec
=============================================================================
