------------------------- MODULE ExecutorPoolProofs -------------------------
(***************************************************************************)
(* Executors have one home and tapes serve one thread, for any threads,    *)
(* pools and lease variables.                                              *)
(***************************************************************************)
EXTENDS ExecutorPool, FiniteSetTheorems, TLAPS

(* What an acquire or a release in progress on thread t has in hand. *)
StepOK(t) ==
  /\ pc[t] = "idle" => arg[t] = Idle
  /\ pc[t] \in {"clone", "lease"} =>
       /\ arg[t].pool \in Pools /\ arg[t].var \in LeaseVars
       /\ lease[<<t, arg[t].var>>] = Empty
  /\ pc[t] = "lease" <=> arg[t].ex # None
  /\ pc[t] = "tape" => /\ arg[t].var \in LeaseVars
                       /\ lease[<<t, arg[t].var>>].ex = None
                       /\ lease[<<t, arg[t].var>>].pool \in Pools
StepInv == \A t \in Threads : StepOK(t)

(* A lease with an executor or a tape knows its pool; only one that is being *)
(* destroyed has a tape without an executor, and only a thread with a stack  *)
(* of its own has an executor without a tape.                               *)
LeaseOK(t, v) ==
  /\ lease[<<t, v>>].pool = None => lease[<<t, v>>] = Empty
  /\ lease[<<t, v>>].tape # None =>
       lease[<<t, v>>].ex # None \/ (pc[t] = "tape" /\ arg[t].var = v)
  /\ lease[<<t, v>>].ex # None => lease[<<t, v>>].tape # None \/ t \in Equipped
LeaseInv == \A t \in Threads, v \in LeaseVars : LeaseOK(t, v)

(* Where executor e is, and the three ways to have one home. *)
InFree(e) == {p \in Pools : e \in free[p]}
InLease(e) == {l \in Places : lease[l].ex = e}
InHand(e) == {t \in Threads : arg[t].ex = e}
Rests(e) ==
  (\E p \in Pools : InFree(e) = {p}) /\ InLease(e) = {} /\ InHand(e) = {}
Works(e) ==
  InFree(e) = {} /\ (\E l \in Places : InLease(e) = {l}) /\ InHand(e) = {}
Travels(e) ==
  InFree(e) = {} /\ InLease(e) = {} /\ (\E t \in Threads : InHand(e) = {t})
Gone(e) == InFree(e) = {} /\ InLease(e) = {} /\ InHand(e) = {}
HomeOK(e) == IF e \in made THEN Rests(e) \/ Works(e) \/ Travels(e) ELSE Gone(e)
HomeInv == \A e \in Executors : HomeOK(e)

(* Tape::current() and the stack of thread t. *)
StackOK(t) ==
  /\ current[t] = None => stack[t] = IF t \in Equipped THEN Own ELSE None
  /\ current[t] # None => stack[t] = current[t] /\ t \notin Equipped
StackInv == \A t \in Threads : StackOK(t)

(* Where tape x is: waiting, emptied, in one free list, or serving the one   *)
(* thread that holds it.                                                    *)
Lists(x) == {p \in Pools : x \in freeTapes[p]}
Serves(x) == {t \in Threads : current[t] = x}
Waits(x) == /\ \E p \in Pools : Lists(x) = {p}
            /\ Serves(x) = {} /\ Holders(x) = {} /\ x \notin dirty
Busy(x) == /\ Lists(x) = {}
           /\ \E t \in Threads : Serves(x) = {t}
           /\ Holders(x) # {} /\ \A l \in Holders(x) : l[1] \in Serves(x)
Unmade(x) == Lists(x) = {} /\ Serves(x) = {} /\ Holders(x) = {} /\ x \notin dirty
TapeOK(x) == IF x \in tapesMade THEN Waits(x) \/ Busy(x) ELSE Unmade(x)
TapeInv == \A x \in Tapes : TapeOK(x)

(* Tape::leases counts the leases that hold the tape. *)
CountInv == \A x \in Tapes : leases[x] = Cardinality(Holders(x))

(* The inductive invariant. *)
IInv == /\ TypeOK /\ StepInv /\ LeaseInv /\ HomeInv
        /\ StackInv /\ TapeInv /\ CountInv

(* Nothing exists and no lease is held. *)
LEMMA InitIInv == Init => IInv
<1> SUFFICES ASSUME Init PROVE IInv
  OBVIOUS
<1>1. TypeOK
  BY NoneAssumption, OwnAssumption DEF Init, TypeOK, Places, Empty, Idle
<1>2. StepInv
  BY DEF Init, StepInv, StepOK, Idle
<1>3. \A l \in Places : lease[l].ex = None /\ lease[l].tape = None
  BY DEF Init, Empty
<1>4. LeaseInv
  BY DEF Init, LeaseInv, LeaseOK, Places, Empty
<1>5. HomeInv
  BY <1>3, NoneAssumption
     DEF Init, Idle, HomeInv, HomeOK, Gone, InFree, InLease, InHand
<1>6. StackInv
  BY DEF Init, StackInv, StackOK
<1>7. \A x \in Tapes : Holders(x) = {}
  BY <1>3, NoneAssumption DEF Holders
<1>8. TapeInv
  BY <1>7, NoneAssumption DEF Init, TapeInv, TapeOK, Unmade, Lists, Serves
<1>9. CountInv
  BY <1>7, FS_EmptySet DEF Init, CountInv
<1> QED
  BY <1>1, <1>2, <1>4, <1>5, <1>6, <1>8, <1>9 DEF IInv

(* The leases that count on a tape are finitely many. *)
LEMMA HoldersFinite ==
  ASSUME NEW x
  PROVE  IsFiniteSet(Holders(x)) /\ Cardinality(Holders(x)) \in Nat
<1>1. IsFiniteSet(Places)
  BY ThreadsFinite, FS_Product DEF Places
<1>2. Holders(x) \in SUBSET Places
  BY DEF Holders
<1> QED
  BY <1>1, <1>2, FS_Subset, FS_CardinalityType

(* An executor whose free lists, leases and acquires are left alone keeps    *)
(* its home.                                                                *)
LEMMA HomeUntouched ==
  ASSUME NEW e, HomeOK(e), e \in made' <=> e \in made,
         InFree(e)' = InFree(e), InLease(e)' = InLease(e), InHand(e)' = InHand(e)
  PROVE  HomeOK(e)'
<1>1. /\ Rests(e)' <=> Rests(e)
      /\ Works(e)' <=> Works(e)
      /\ Travels(e)' <=> Travels(e)
      /\ Gone(e)' <=> Gone(e)
  BY DEF Rests, Works, Travels, Gone
<1> QED
  BY <1>1 DEF HomeOK

(* A tape whose free lists, thread and leases are left alone stays as it is. *)
LEMMA TapeUntouched ==
  ASSUME NEW x, TapeOK(x), x \in tapesMade' <=> x \in tapesMade,
         x \in dirty' <=> x \in dirty,
         Lists(x)' = Lists(x), Serves(x)' = Serves(x), Holders(x)' = Holders(x)
  PROVE  TapeOK(x)'
<1>1. /\ Waits(x)' <=> Waits(x)
      /\ Busy(x)' <=> Busy(x)
      /\ Unmade(x)' <=> Unmade(x)
  BY DEF Waits, Busy, Unmade
<1> QED
  BY <1>1 DEF TapeOK

(* A step that touches no executor's home. *)
LEMMA HomesUntouched ==
  ASSUME HomeInv, UNCHANGED <<free, made>>,
         \A l \in Places : lease'[l].ex = lease[l].ex,
         \A t \in Threads : arg'[t].ex = arg[t].ex
  PROVE  HomeInv'
<1> SUFFICES ASSUME NEW e \in Executors PROVE HomeOK(e)'
  BY DEF HomeInv
<1>1. InFree(e)' = InFree(e) /\ InLease(e)' = InLease(e) /\ InHand(e)' = InHand(e)
  BY DEF InFree, InLease, InHand
<1> QED
  BY <1>1, HomeUntouched DEF HomeInv

(* A step that touches no tape. *)
LEMMA TapesUntouched ==
  ASSUME StackInv, TapeInv, CountInv,
         UNCHANGED <<freeTapes, tapesMade, leases, dirty, current, stack>>,
         \A l \in Places : lease'[l].tape = lease[l].tape
  PROVE  StackInv' /\ TapeInv' /\ CountInv'
<1>1. StackInv'
  BY DEF StackInv, StackOK
<1>2. \A x : Holders(x)' = Holders(x)
  BY DEF Holders
<1>3. TapeInv'
  <2> SUFFICES ASSUME NEW x \in Tapes PROVE TapeOK(x)'
    BY DEF TapeInv
  <2>1. Lists(x)' = Lists(x) /\ Serves(x)' = Serves(x)
    BY DEF Lists, Serves
  <2> QED
    BY <1>2, <2>1, TapeUntouched DEF TapeInv
<1>4. CountInv'
  BY <1>2 DEF CountInv
<1> QED
  BY <1>1, <1>3, <1>4

(* A step of thread t that leaves the calls and leases of the others alone. *)
LEMMA OthersUntouched ==
  ASSUME StepInv, LeaseInv, NEW t \in Threads,
         StepOK(t)', \A v \in LeaseVars : LeaseOK(t, v)',
         \A u \in Threads : u # t =>
           /\ pc'[u] = pc[u] /\ arg'[u] = arg[u]
           /\ \A v \in LeaseVars : lease'[<<u, v>>] = lease[<<u, v>>]
  PROVE  StepInv' /\ LeaseInv'
<1>1. ASSUME NEW u \in Threads, u # t PROVE StepOK(u)'
  BY <1>1 DEF StepInv, StepOK
<1>2. ASSUME NEW u \in Threads, u # t, NEW v \in LeaseVars PROVE LeaseOK(u, v)'
  BY <1>2 DEF LeaseInv, LeaseOK
<1> QED
  BY <1>1, <1>2 DEF StepInv, LeaseInv

(* An acquire takes an executor off a free list, or goes on to clone one. *)
LEMMA AcquireBeginIInv ==
  ASSUME IInv, NEW t \in Threads, NEW p \in Pools, NEW v \in LeaseVars,
         AcquireBegin(t, p, v)
  PROVE  IInv'
<1>1. /\ pc[t] = "idle" /\ lease[<<t, v>>] = Empty
      /\ lease' = lease /\ made' = made
      /\ UNCHANGED <<freeTapes, tapesMade, leases, dirty, current, stack>>
  BY DEF AcquireBegin, tls
<1>2. StackInv' /\ TapeInv' /\ CountInv'
  BY <1>1, TapesUntouched DEF IInv
<1>3. arg[t].ex = None
  BY <1>1 DEF IInv, StepInv, StepOK, Idle
<1>4. ASSUME NEW w, w \in {"clone", "lease"}, NEW d \in Executors \cup {None},
             w = "lease" <=> d # None,
             arg' = [arg EXCEPT ![t] = [pool |-> p, ex |-> d, var |-> v]],
             pc' = [pc EXCEPT ![t] = w]
      PROVE  /\ arg' \in [Threads -> [pool : Pools \cup {None},
                                      ex : Executors \cup {None},
                                      var : LeaseVars \cup {None}]]
             /\ pc' \in [Threads -> {"idle", "clone", "lease", "tape"}]
             /\ StepInv' /\ LeaseInv'
             /\ \A u \in Threads : arg'[u].ex = IF u = t THEN d ELSE arg[u].ex
  <2>1. /\ arg' \in [Threads -> [pool : Pools \cup {None},
                                 ex : Executors \cup {None},
                                 var : LeaseVars \cup {None}]]
        /\ pc' \in [Threads -> {"idle", "clone", "lease", "tape"}]
    BY <1>4 DEF IInv, TypeOK
  <2>2. /\ pc'[t] = w /\ arg'[t].pool = p /\ arg'[t].ex = d /\ arg'[t].var = v
        /\ \A u \in Threads : u # t => pc'[u] = pc[u] /\ arg'[u] = arg[u]
    BY <1>4 DEF IInv, TypeOK
  <2>3. StepOK(t)'
    BY <1>1, <1>4, <2>2 DEF StepOK
  <2>4. \A x \in LeaseVars : LeaseOK(t, x)'
    BY <1>1 DEF IInv, LeaseInv, LeaseOK
  <2> QED
    BY <1>1, <2>1, <2>2, <2>3, <2>4, OthersUntouched DEF IInv
<1>5. CASE /\ free' = free
           /\ arg' = [arg EXCEPT ![t] = [pool |-> p, ex |-> None, var |-> v]]
           /\ pc' = [pc EXCEPT ![t] = "clone"]
  <2>1. /\ StepInv' /\ LeaseInv'
        /\ \A u \in Threads : arg'[u].ex = arg[u].ex
    BY <1>3, <1>4, <1>5
  <2>2. TypeOK'
    BY <1>1, <1>4, <1>5 DEF IInv, TypeOK
  <2>3. HomeInv'
    BY <1>1, <1>5, <2>1, HomesUntouched DEF IInv
  <2> QED
    BY <1>2, <2>1, <2>2, <2>3 DEF IInv
<1>6. ASSUME NEW e \in free[p],
             free' = [free EXCEPT ![p] = @ \ {e}],
             arg' = [arg EXCEPT ![t] = [pool |-> p, ex |-> e, var |-> v]],
             pc' = [pc EXCEPT ![t] = "lease"]
      PROVE  IInv'
  <2>1. e \in Executors /\ e # None
    BY NoneAssumption DEF IInv, TypeOK
  <2>2. /\ StepInv' /\ LeaseInv'
        /\ \A u \in Threads : arg'[u].ex = IF u = t THEN e ELSE arg[u].ex
    BY <1>4, <1>6, <2>1
  <2>3. TypeOK'
    BY <1>1, <1>4, <1>6, <2>1 DEF IInv, TypeOK
  <2>4. \A q \in Pools : free'[q] = IF q = p THEN free[q] \ {e} ELSE free[q]
    BY <1>6 DEF IInv, TypeOK
  <2>5. HomeInv'
    <3> SUFFICES ASSUME NEW d \in Executors PROVE HomeOK(d)'
      BY DEF HomeInv
    <3>1. CASE d = e
      <4>1. p \in InFree(e)
        BY <1>6 DEF InFree
      <4>2. e \in made /\ Rests(e)
        BY <2>1, <4>1 DEF IInv, HomeInv, HomeOK, Gone, Works, Travels
      <4>3. InFree(e)' = {}
        <5>1. \A q \in Pools : q # p => e \notin free[q]
          BY <4>1, <4>2 DEF Rests, InFree
        <5> QED
          BY <2>4, <5>1 DEF InFree
      <4>4. InLease(e)' = {}
        BY <1>1, <4>2 DEF Rests, InLease
      <4>5. InHand(e)' = {t}
        BY <2>2, <4>2 DEF Rests, InHand
      <4> QED
        BY <1>1, <3>1, <4>2, <4>3, <4>4, <4>5 DEF HomeOK, Travels
    <3>2. CASE d # e
      <4>1. InFree(d)' = InFree(d)
        BY <2>4, <3>2 DEF InFree
      <4>2. InLease(d)' = InLease(d)
        BY <1>1 DEF InLease
      <4>3. InHand(d)' = InHand(d)
        BY <1>3, <2>2, <3>2, NoneAssumption DEF InHand
      <4> QED
        BY <1>1, <4>1, <4>2, <4>3, HomeUntouched DEF IInv, HomeInv
    <3> QED
      BY <3>1, <3>2
  <2> QED
    BY <1>2, <2>2, <2>3, <2>5 DEF IInv
<1> QED
  BY <1>5, <1>6 DEF AcquireBegin

(* A clone that is made is in the hands of its acquire; one that fails is in  *)
(* nobody's.                                                                *)
LEMMA CloneProtoIInv ==
  ASSUME IInv, NEW t \in Threads, CloneProto(t)
  PROVE  IInv'
<1>1. /\ pc[t] = "clone" /\ lease' = lease /\ free' = free
      /\ UNCHANGED <<freeTapes, tapesMade, leases, dirty, current, stack>>
  BY DEF CloneProto, tls
<1>2. StackInv' /\ TapeInv' /\ CountInv'
  BY <1>1, TapesUntouched DEF IInv
<1>3. /\ arg[t].ex = None
      /\ arg[t].pool \in Pools /\ arg[t].var \in LeaseVars
      /\ lease[<<t, arg[t].var>>] = Empty
  BY <1>1 DEF IInv, StepInv, StepOK
<1>4. \A u \in Threads, v \in LeaseVars : lease'[<<u, v>>] = lease[<<u, v>>]
  BY <1>1
<1>5. \A v \in LeaseVars : LeaseOK(t, v)'
  BY <1>1 DEF IInv, LeaseInv, LeaseOK
<1>6. ASSUME NEW e \in Executors \ made,
             made' = made \cup {e},
             arg' = [arg EXCEPT ![t].ex = e],
             pc' = [pc EXCEPT ![t] = "lease"]
      PROVE  IInv'
  <2>1. e \in Executors /\ e # None /\ e \notin made
    BY NoneAssumption
  <2>2. TypeOK'
    BY <1>1, <1>6 DEF IInv, TypeOK
  <2>3. /\ pc'[t] = "lease" /\ arg'[t].ex = e
        /\ arg'[t].pool = arg[t].pool /\ arg'[t].var = arg[t].var
        /\ \A u \in Threads : u # t => pc'[u] = pc[u] /\ arg'[u] = arg[u]
    BY <1>6 DEF IInv, TypeOK
  <2>4. StepOK(t)'
    BY <1>1, <1>3, <2>1, <2>3 DEF StepOK
  <2>5. StepInv' /\ LeaseInv'
    BY <1>4, <1>5, <2>3, <2>4, OthersUntouched DEF IInv
  <2>6. HomeInv'
    <3> SUFFICES ASSUME NEW d \in Executors PROVE HomeOK(d)'
      BY DEF HomeInv
    <3>1. InFree(d)' = InFree(d) /\ InLease(d)' = InLease(d)
      BY <1>1 DEF InFree, InLease
    <3>2. CASE d = e
      <4>1. Gone(e)
        BY <2>1 DEF IInv, HomeInv, HomeOK
      <4>2. InHand(e)' = {t}
        BY <2>3, <4>1 DEF Gone, InHand
      <4> QED
        BY <1>6, <3>1, <3>2, <4>1, <4>2 DEF HomeOK, Travels, Gone
    <3>3. CASE d # e
      <4>1. InHand(d)' = InHand(d)
        BY <1>3, <2>3, <3>3, NoneAssumption DEF InHand
      <4>2. d \in made' <=> d \in made
        BY <1>6, <3>3
      <4> QED
        BY <3>1, <4>1, <4>2, HomeUntouched DEF IInv, HomeInv
    <3> QED
      BY <3>2, <3>3
  <2> QED
    BY <1>2, <2>2, <2>5, <2>6 DEF IInv
<1>7. CASE /\ arg' = [arg EXCEPT ![t] = Idle]
           /\ pc' = [pc EXCEPT ![t] = "idle"]
           /\ made' = made
  <2>1. TypeOK'
    BY <1>1, <1>7 DEF IInv, TypeOK, Idle
  <2>2. /\ pc'[t] = "idle" /\ arg'[t] = Idle
        /\ \A u \in Threads : u # t => pc'[u] = pc[u] /\ arg'[u] = arg[u]
    BY <1>7 DEF IInv, TypeOK
  <2>3. StepOK(t)'
    BY <2>2 DEF StepOK, Idle
  <2>4. StepInv' /\ LeaseInv'
    BY <1>4, <1>5, <2>2, <2>3, OthersUntouched DEF IInv
  <2>5. \A u \in Threads : arg'[u].ex = arg[u].ex
    BY <1>3, <2>2 DEF Idle
  <2>6. HomeInv'
    BY <1>1, <1>7, <2>5, HomesUntouched DEF IInv
  <2> QED
    BY <1>2, <2>1, <2>4, <2>6 DEF IInv
<1> QED
  BY <1>6, <1>7 DEF CloneProto

(* Lease::Lease, whichever tape it counts on: the executor in hand is leased. *)
LEMMA LeasedParts ==
  ASSUME IInv, NEW t \in Threads, pc[t] = "lease",
         NEW x \in Tapes \cup {None}, x # None \/ t \in Equipped, Leased(t, x),
         UNCHANGED <<free, made>>
  PROVE  /\ arg' \in [Threads -> [pool : Pools \cup {None},
                                  ex : Executors \cup {None},
                                  var : LeaseVars \cup {None}]]
         /\ pc' \in [Threads -> {"idle", "clone", "lease", "tape"}]
         /\ lease' \in [Places -> [pool : Pools \cup {None},
                                   ex : Executors \cup {None},
                                   tape : Tapes \cup {None}]]
         /\ StepInv' /\ LeaseInv' /\ HomeInv'
         /\ <<t, arg[t].var>> \in Places /\ lease[<<t, arg[t].var>>].tape = None
         /\ \A l \in Places :
              lease'[l].tape = IF l = <<t, arg[t].var>> THEN x ELSE lease[l].tape
<1> DEFINE w == arg[t].var
           e == arg[t].ex
           new == [pool |-> arg[t].pool, ex |-> e, tape |-> x]
<1>1. /\ arg[t].pool \in Pools /\ w \in LeaseVars /\ lease[<<t, w>>] = Empty
      /\ e # None
  BY DEF IInv, StepInv, StepOK
<1>2. e \in Executors /\ <<t, w>> \in Places
  BY <1>1 DEF IInv, TypeOK, Places
<1>3. /\ arg' = [arg EXCEPT ![t] = Idle]
      /\ pc' = [pc EXCEPT ![t] = "idle"]
      /\ lease' = [lease EXCEPT ![<<t, w>>] = new]
  BY DEF Leased
<1>4. /\ arg' \in [Threads -> [pool : Pools \cup {None},
                               ex : Executors \cup {None},
                               var : LeaseVars \cup {None}]]
      /\ pc' \in [Threads -> {"idle", "clone", "lease", "tape"}]
  BY <1>3 DEF IInv, TypeOK, Idle
<1>5. new \in [pool : Pools \cup {None}, ex : Executors \cup {None},
               tape : Tapes \cup {None}]
  BY <1>1, <1>2
<1>6. lease' \in [Places -> [pool : Pools \cup {None}, ex : Executors \cup {None},
                             tape : Tapes \cup {None}]]
  BY <1>3, <1>5 DEF IInv, TypeOK
<1>7. \A l \in Places : lease'[l] = IF l = <<t, w>> THEN new ELSE lease[l]
  BY <1>2, <1>3 DEF IInv, TypeOK
<1>8. new.pool = arg[t].pool /\ new.ex = e /\ new.tape = x
  OBVIOUS
<1>9. Empty.ex = None /\ Empty.tape = None
  BY DEF Empty
<1> HIDE DEF new
<1>10. /\ pc'[t] = "idle" /\ arg'[t] = Idle /\ arg'[t].ex = None
       /\ \A u \in Threads : u # t => pc'[u] = pc[u] /\ arg'[u] = arg[u]
  BY <1>3 DEF IInv, TypeOK, Idle
<1>11. StepOK(t)'
  BY <1>10 DEF StepOK
<1>12. ASSUME NEW v \in LeaseVars PROVE LeaseOK(t, v)'
  <2>1. <<t, v>> \in Places
    BY DEF Places
  <2>2. CASE v = w
    <3>1. lease'[<<t, v>>] = new
      BY <1>7, <2>1, <2>2
    <3> QED
      BY <1>1, <1>8, <3>1, NoneAssumption DEF LeaseOK
  <2>3. CASE v # w
    <3>1. lease'[<<t, v>>] = lease[<<t, v>>]
      BY <1>7, <2>1, <2>3
    <3> QED
      BY <3>1 DEF IInv, LeaseInv, LeaseOK
  <2> QED
    BY <2>2, <2>3
<1>13. \A u \in Threads : u # t =>
         \A v \in LeaseVars : lease'[<<u, v>>] = lease[<<u, v>>]
  BY <1>7 DEF Places
<1>14. StepInv' /\ LeaseInv'
  BY <1>10, <1>11, <1>12, <1>13, OthersUntouched DEF IInv
<1>15. HomeInv'
  <2> SUFFICES ASSUME NEW d \in Executors PROVE HomeOK(d)'
    BY DEF HomeInv
  <2>0. InFree(d)' = InFree(d)
    BY DEF InFree
  <2>1. CASE d = e
    <3>h. PICK h \in Places : h = <<t, w>>
      BY <1>2
    <3>1. t \in InHand(d)
      BY <2>1 DEF InHand
    <3>2. d \in made /\ Travels(d)
      BY <3>1 DEF IInv, HomeInv, HomeOK, Gone, Works, Rests
    <3>3. InHand(d) = {t}
      BY <3>1, <3>2 DEF Travels
    <3>4. InHand(d)' = {}
      <4>1. \A u \in Threads : u # t => arg[u].ex # d
        BY <3>3 DEF InHand
      <4> QED
        BY <1>1, <1>10, <2>1, <4>1 DEF InHand
    <3>5. InLease(d)' = {h}
      <4>1. \A l \in Places : lease[l].ex # d
        BY <3>2 DEF Travels, InLease
      <4> QED
        BY <1>2, <1>7, <1>8, <2>1, <3>h, <4>1 DEF InLease
    <3> QED
      BY <2>0, <3>2, <3>4, <3>5 DEF HomeOK, Works, Travels
  <2>2. CASE d # e
    <3>1. d # None
      BY NoneAssumption
    <3>2. InHand(d)' = InHand(d)
      BY <1>10, <2>2, <3>1 DEF InHand
    <3>3. \A l \in Places : lease'[l].ex = d <=> lease[l].ex = d
      BY <1>1, <1>7, <1>8, <1>9, <2>2, <3>1
    <3>4. InLease(d)' = InLease(d)
      BY <3>3 DEF InLease
    <3> QED
      BY <2>0, <3>2, <3>4, HomeUntouched DEF IInv, HomeInv
  <2> QED
    BY <2>1, <2>2
<1>16. \A l \in Places :
         lease'[l].tape = IF l = <<t, w>> THEN x ELSE lease[l].tape
  BY <1>7, <1>8
<1> QED
  BY <1>1, <1>2, <1>4, <1>6, <1>9, <1>14, <1>15, <1>16

(* The lease counts on tape x from here on. *)
LEMMA OneMoreHolder ==
  ASSUME TypeOK, CountInv, NEW x \in Tapes, NEW h \in Places, lease[h].tape = None,
         \A l \in Places : lease'[l].tape = IF l = h THEN x ELSE lease[l].tape,
         leases' = [leases EXCEPT ![x] = @ + 1]
  PROVE  /\ leases' \in [Tapes -> Nat] /\ CountInv'
         /\ Holders(x)' = Holders(x) \cup {h}
         /\ \A y \in Tapes : y # x => Holders(y)' = Holders(y)
<1>1. leases' \in [Tapes -> Nat]
  BY DEF TypeOK
<1>2. Holders(x)' = Holders(x) \cup {h}
  BY DEF Holders
<1>3. \A y \in Tapes : y # x => Holders(y)' = Holders(y)
  BY NoneAssumption DEF Holders
<1>4. h \notin Holders(x)
  BY NoneAssumption DEF Holders
<1>5. Cardinality(Holders(x)') = Cardinality(Holders(x)) + 1
  BY <1>2, <1>4, HoldersFinite, FS_AddElement
<1>6. CountInv'
  BY <1>3, <1>5 DEF TypeOK, CountInv
<1> QED
  BY <1>1, <1>2, <1>3, <1>6

(* A further lease of a thread counts on the tape the thread already has. *)
LEMMA LeaseSharesIInv ==
  ASSUME IInv, NEW t \in Threads, LeaseShares(t)
  PROVE  IInv'
<1>1. /\ pc[t] = "lease" /\ UNCHANGED <<free, made>>
      /\ UNCHANGED <<freeTapes, tapesMade, dirty, current, stack>>
      /\ Leased(t, current[t])
  BY DEF LeaseShares, tls
<1>2. PICK x \in Tapes \cup {None} : x = current[t]
  BY DEF IInv, TypeOK
<1>3. x # None \/ t \in Equipped
  BY <1>2 DEF LeaseShares, NeedsTape, IInv, StackInv, StackOK
<1>4. PICK h : h = <<t, arg[t].var>>
  OBVIOUS
<1>5. /\ arg' \in [Threads -> [pool : Pools \cup {None},
                               ex : Executors \cup {None},
                               var : LeaseVars \cup {None}]]
      /\ pc' \in [Threads -> {"idle", "clone", "lease", "tape"}]
      /\ lease' \in [Places -> [pool : Pools \cup {None},
                                ex : Executors \cup {None},
                                tape : Tapes \cup {None}]]
      /\ StepInv' /\ LeaseInv' /\ HomeInv'
      /\ h \in Places /\ lease[h].tape = None
      /\ \A l \in Places : lease'[l].tape = IF l = h THEN x ELSE lease[l].tape
  BY <1>1, <1>2, <1>3, <1>4, LeasedParts
<1>6. CASE x = None
  <2>1. leases' = leases
    BY <1>2, <1>6 DEF LeaseShares
  <2>2. StackInv' /\ TapeInv' /\ CountInv'
    BY <1>1, <1>5, <1>6, <2>1, TapesUntouched DEF IInv
  <2>3. TypeOK'
    BY <1>1, <1>5, <2>1 DEF IInv, TypeOK
  <2> QED
    BY <1>5, <2>2, <2>3 DEF IInv
<1>7. CASE x # None
  <2>1. x \in Tapes /\ leases' = [leases EXCEPT ![x] = @ + 1]
    BY <1>2, <1>7 DEF LeaseShares
  <2>2. /\ leases' \in [Tapes -> Nat] /\ CountInv'
        /\ Holders(x)' = Holders(x) \cup {h}
        /\ \A y \in Tapes : y # x => Holders(y)' = Holders(y)
    BY <1>5, <2>1, OneMoreHolder DEF IInv
  <2>3. TypeOK'
    BY <1>1, <1>5, <2>2 DEF IInv, TypeOK
  <2>4. StackInv'
    BY <1>1 DEF IInv, StackInv, StackOK
  <2>5. ASSUME NEW y \in Tapes PROVE TapeOK(y)'
    <3>1. Lists(y)' = Lists(y) /\ Serves(y)' = Serves(y)
      BY <1>1 DEF Lists, Serves
    <3>2. CASE y # x
      BY <1>1, <2>2, <3>1, <3>2, TapeUntouched DEF IInv, TapeInv
    <3>3. CASE y = x
      <4>1. t \in Serves(x)
        BY <1>2 DEF Serves
      <4>2. x \in tapesMade /\ Busy(x)
        BY <2>1, <4>1 DEF IInv, TapeInv, TapeOK, Unmade, Waits
      <4>3. h[1] = t
        BY <1>4
      <4>4. Busy(x)'
        BY <2>2, <3>1, <3>3, <4>1, <4>2, <4>3 DEF Busy
      <4> QED
        BY <1>1, <3>3, <4>2, <4>4 DEF TapeOK
    <3> QED
      BY <3>2, <3>3
  <2>6. TapeInv'
    BY <2>5 DEF TapeInv
  <2> QED
    BY <1>5, <2>2, <2>3, <2>4, <2>6 DEF IInv
<1> QED
  BY <1>6, <1>7

(* A tape that nobody has is installed on thread t and counts its lease. *)
LEMMA TapeInstalled ==
  ASSUME IInv, NEW t \in Threads, pc[t] = "lease", NeedsTape(t),
         NEW x \in Tapes, Serves(x) = {}, Holders(x) = {}, Leased(t, x),
         x \in tapesMade', Lists(x)' = {},
         \A y \in Tapes : y # x => /\ y \in tapesMade' <=> y \in tapesMade
                                   /\ Lists(y)' = Lists(y),
         freeTapes' \in [Pools -> SUBSET Tapes], tapesMade' \subseteq Tapes,
         leases' = [leases EXCEPT ![x] = @ + 1],
         current' = [current EXCEPT ![t] = x],
         stack' = [stack EXCEPT ![t] = x],
         UNCHANGED <<free, made, dirty>>
  PROVE  IInv'
<1>1. PICK h : h = <<t, arg[t].var>>
  OBVIOUS
<1>2. x # None
  BY NoneAssumption
<1>3. /\ arg' \in [Threads -> [pool : Pools \cup {None},
                               ex : Executors \cup {None},
                               var : LeaseVars \cup {None}]]
      /\ pc' \in [Threads -> {"idle", "clone", "lease", "tape"}]
      /\ lease' \in [Places -> [pool : Pools \cup {None},
                                ex : Executors \cup {None},
                                tape : Tapes \cup {None}]]
      /\ StepInv' /\ LeaseInv' /\ HomeInv'
      /\ h \in Places /\ lease[h].tape = None
      /\ \A l \in Places : lease'[l].tape = IF l = h THEN x ELSE lease[l].tape
  BY <1>1, <1>2, LeasedParts
<1>4. /\ leases' \in [Tapes -> Nat] /\ CountInv'
      /\ Holders(x)' = Holders(x) \cup {h}
      /\ \A y \in Tapes : y # x => Holders(y)' = Holders(y)
  BY <1>3, OneMoreHolder DEF IInv
<1>5. /\ current' \in [Threads -> Tapes \cup {None}]
      /\ stack' \in [Threads -> Tapes \cup {None, Own}]
      /\ \A u \in Threads : /\ current'[u] = IF u = t THEN x ELSE current[u]
                            /\ stack'[u] = IF u = t THEN x ELSE stack[u]
  BY DEF IInv, TypeOK
<1>6. TypeOK'
  BY <1>3, <1>4, <1>5 DEF IInv, TypeOK
<1>7. current[t] = None /\ stack[t] = None /\ t \notin Equipped
  BY OwnAssumption DEF NeedsTape, IInv, StackInv, StackOK
<1>8. StackInv'
  BY <1>2, <1>5, <1>7 DEF IInv, StackInv, StackOK
<1>9. ASSUME NEW y \in Tapes PROVE TapeOK(y)'
  <2>1. CASE y = x
    <3>1. Serves(x)' = {t}
      BY <1>5 DEF Serves
    <3>2. Holders(x)' = {h} /\ h[1] = t
      BY <1>1, <1>4
    <3>3. Busy(x)'
      BY <3>1, <3>2 DEF Busy
    <3> QED
      BY <2>1, <3>3 DEF TapeOK
  <2>2. CASE y # x
    <3>1. Serves(y)' = Serves(y)
      BY <1>5, <1>7, <2>2, NoneAssumption DEF Serves
    <3> QED
      BY <1>4, <2>2, <3>1, TapeUntouched DEF IInv, TapeInv
  <2> QED
    BY <2>1, <2>2
<1>10. TapeInv'
  BY <1>9 DEF TapeInv
<1> QED
  BY <1>3, <1>4, <1>6, <1>8, <1>10 DEF IInv

(* A pooled tape serves the thread that takes it. *)
LEMMA LeaseTakesTapeIInv ==
  ASSUME IInv, NEW t \in Threads, LeaseTakesTape(t)
  PROVE  IInv'
<1>1. PICK p \in Pools : p = arg[t].pool
  BY DEF LeaseTakesTape, IInv, StepInv, StepOK
<1>2. PICK x \in freeTapes[p] :
        /\ freeTapes' = [freeTapes EXCEPT ![p] = @ \ {x}]
        /\ leases' = [leases EXCEPT ![x] = @ + 1]
        /\ current' = [current EXCEPT ![t] = x]
        /\ stack' = [stack EXCEPT ![t] = x]
        /\ Leased(t, x)
  BY <1>1 DEF LeaseTakesTape
<1>3. /\ pc[t] = "lease" /\ NeedsTape(t)
      /\ tapesMade' = tapesMade /\ UNCHANGED <<free, made, dirty>>
  BY DEF LeaseTakesTape
<1>4. /\ x \in Tapes /\ freeTapes' \in [Pools -> SUBSET Tapes]
      /\ tapesMade' \subseteq Tapes
      /\ \A q \in Pools :
           freeTapes'[q] = IF q = p THEN freeTapes[q] \ {x} ELSE freeTapes[q]
  BY <1>2, <1>3 DEF IInv, TypeOK
<1>5. p \in Lists(x)
  BY <1>2 DEF Lists
<1>6. x \in tapesMade /\ Waits(x)
  BY <1>4, <1>5 DEF IInv, TapeInv, TapeOK, Unmade, Busy
<1>7. Lists(x)' = {}
  <2>1. \A q \in Pools : q # p => x \notin freeTapes[q]
    BY <1>5, <1>6 DEF Waits, Lists
  <2> QED
    BY <1>4, <2>1 DEF Lists
<1>8. \A y \in Tapes : y # x => Lists(y)' = Lists(y)
  BY <1>4 DEF Lists
<1> QED
  BY <1>2, <1>3, <1>4, <1>6, <1>7, <1>8, TapeInstalled DEF Waits

(* A new tape serves the thread that makes it; without it the executor goes. *)
LEMMA LeaseMakesTapeIInv ==
  ASSUME IInv, NEW t \in Threads, LeaseMakesTape(t)
  PROVE  IInv'
<1>1. /\ pc[t] = "lease" /\ NeedsTape(t)
      /\ free' = free /\ freeTapes' = freeTapes /\ dirty' = dirty
  BY DEF LeaseMakesTape
<1>2. ASSUME NEW x \in Tapes \ tapesMade,
             tapesMade' = tapesMade \cup {x},
             leases' = [leases EXCEPT ![x] = @ + 1],
             current' = [current EXCEPT ![t] = x],
             stack' = [stack EXCEPT ![t] = x],
             Leased(t, x),
             made' = made
      PROVE  IInv'
  <2>1. Unmade(x)
    BY DEF IInv, TapeInv, TapeOK
  <2>2. \A y \in Tapes : Lists(y)' = Lists(y)
    BY <1>1 DEF Lists
  <2>3. tapesMade' \subseteq Tapes /\ freeTapes' \in [Pools -> SUBSET Tapes]
    BY <1>1, <1>2 DEF IInv, TypeOK
  <2> QED
    BY <1>1, <1>2, <2>1, <2>2, <2>3, TapeInstalled DEF Unmade
<1>3. CASE /\ made' = made \ {arg[t].ex}
           /\ arg' = [arg EXCEPT ![t] = Idle]
           /\ pc' = [pc EXCEPT ![t] = "idle"]
           /\ UNCHANGED <<tapesMade, leases, tls, lease>>
  <2>1. PICK e : e = arg[t].ex
    OBVIOUS
  <2>2. e \in Executors /\ e # None
    BY <1>1, <2>1 DEF IInv, TypeOK, StepInv, StepOK
  <2>3. TypeOK'
    BY <1>1, <1>3 DEF IInv, TypeOK, Idle, tls
  <2>4. /\ pc'[t] = "idle" /\ arg'[t] = Idle /\ arg'[t].ex = None
        /\ \A u \in Threads : u # t => pc'[u] = pc[u] /\ arg'[u] = arg[u]
    BY <1>3 DEF IInv, TypeOK, Idle
  <2>5. StepOK(t)'
    BY <2>4 DEF StepOK
  <2>6. lease' = lease
    BY <1>3
  <2>7. \A v \in LeaseVars : LeaseOK(t, v)'
    BY <1>1, <2>6 DEF IInv, LeaseInv, LeaseOK
  <2>8. StepInv' /\ LeaseInv'
    BY <2>4, <2>5, <2>6, <2>7, OthersUntouched DEF IInv
  <2>9. StackInv' /\ TapeInv' /\ CountInv'
    BY <1>1, <1>3, <2>6, TapesUntouched DEF IInv, tls
  <2>10. ASSUME NEW d \in Executors PROVE HomeOK(d)'
    <3>1. InFree(d)' = InFree(d) /\ InLease(d)' = InLease(d)
      BY <1>1, <2>6 DEF InFree, InLease
    <3>2. CASE d = e
      <4>1. t \in InHand(e)
        BY <2>1 DEF InHand
      <4>2. Travels(e)
        BY <2>2, <4>1 DEF IInv, HomeInv, HomeOK, Gone, Works, Rests
      <4>3. \A u \in Threads : u # t => arg[u].ex # e
        BY <4>1, <4>2 DEF Travels, InHand
      <4>4. InHand(e)' = {}
        BY <2>2, <2>4, <4>3 DEF InHand
      <4> QED
        BY <1>3, <2>1, <3>1, <3>2, <4>2, <4>4 DEF HomeOK, Travels, Gone
    <3>3. CASE d # e
      <4>1. InHand(d)' = InHand(d)
        BY <2>1, <2>4, <3>3, NoneAssumption DEF InHand
      <4>2. d \in made' <=> d \in made
        BY <1>3, <2>1, <3>3
      <4> QED
        BY <3>1, <4>1, <4>2, HomeUntouched DEF IInv, HomeInv
    <3> QED
      BY <3>2, <3>3
  <2>11. HomeInv'
    BY <2>10 DEF HomeInv
  <2> QED
    BY <2>3, <2>8, <2>9, <2>11 DEF IInv
<1> QED
  BY <1>2, <1>3 DEF LeaseMakesTape

(* An evaluation records on the tape that serves its thread. *)
LEMMA EvaluateIInv ==
  ASSUME IInv, NEW t \in Threads, NEW v \in LeaseVars, Evaluate(t, v)
  PROVE  IInv'
<1>1. PICK x \in Tapes : x = stack[t]
  BY DEF Evaluate
<1>2. /\ dirty' = dirty \cup {x} /\ lease' = lease /\ pc' = pc /\ arg' = arg
      /\ UNCHANGED <<free, made>>
      /\ UNCHANGED <<freeTapes, tapesMade, leases, current, stack>>
  BY <1>1 DEF Evaluate, tls
<1>3. TypeOK'
  BY <1>2 DEF IInv, TypeOK
<1>4. StepInv' /\ LeaseInv' /\ StackInv'
  BY <1>2 DEF IInv, StepInv, StepOK, LeaseInv, LeaseOK, StackInv, StackOK
<1>5. HomeInv'
  BY <1>2, HomesUntouched DEF IInv
<1>6. \A y : Holders(y)' = Holders(y)
  BY <1>2 DEF Holders
<1>7. CountInv'
  BY <1>2, <1>6 DEF IInv, CountInv
<1>8. current[t] = x
  BY <1>1, NoneAssumption, OwnAssumption DEF IInv, StackInv, StackOK
<1>9. ASSUME NEW y \in Tapes PROVE TapeOK(y)'
  <2>1. Lists(y)' = Lists(y) /\ Serves(y)' = Serves(y)
    BY <1>2 DEF Lists, Serves
  <2>2. CASE y = x
    <3>1. t \in Serves(y)
      BY <1>8, <2>2 DEF Serves
    <3>2. y \in tapesMade /\ Busy(y)
      BY <3>1 DEF IInv, TapeInv, TapeOK, Unmade, Waits
    <3>3. Busy(y)'
      BY <1>6, <2>1, <3>2 DEF Busy
    <3> QED
      BY <1>2, <3>2, <3>3 DEF TapeOK
  <2>3. CASE y # x
    <3>1. y \in dirty' <=> y \in dirty
      BY <1>2, <2>3
    <3> QED
      BY <1>2, <1>6, <2>1, <3>1, TapeUntouched DEF IInv, TapeInv
  <2> QED
    BY <2>2, <2>3
<1>10. TapeInv'
  BY <1>9 DEF TapeInv
<1> QED
  BY <1>3, <1>4, <1>5, <1>7, <1>10 DEF IInv

(* A moved lease takes its executor and its count on the tape along. *)
LEMMA MoveIInv ==
  ASSUME IInv, NEW t \in Threads, NEW v \in LeaseVars, NEW u \in LeaseVars,
         Move(t, v, u)
  PROVE  IInv'
<1>1. /\ pc[t] = "idle" /\ lease[<<t, v>>].ex # None /\ lease[<<t, u>>] = Empty
      /\ pc' = pc /\ arg' = arg /\ UNCHANGED <<free, made>>
      /\ UNCHANGED <<freeTapes, tapesMade, leases, dirty, current, stack>>
  BY DEF Move, tls
<1>2. PICK h \in Places : h = <<t, v>>
  BY DEF Places
<1>3. PICK m \in Places : m = <<t, u>>
  BY DEF Places
<1>4. PICK new \in [pool : Pools \cup {None}, ex : Executors \cup {None},
                    tape : Tapes \cup {None}] : new = lease[h]
  BY DEF IInv, TypeOK
<1>5. PICK p \in Pools \cup {None} : p = new.pool
  OBVIOUS
<1>6. p # None
  BY <1>1, <1>2, <1>4, <1>5 DEF IInv, LeaseInv, LeaseOK, Empty
<1>7. h # m
  BY <1>1, <1>2, <1>3 DEF Empty
<1>8. Husk(p) \in [pool : Pools \cup {None}, ex : Executors \cup {None},
                   tape : Tapes \cup {None}]
  BY DEF Husk
<1>9. /\ Husk(p).pool = p /\ Husk(p).ex = None /\ Husk(p).tape = None
      /\ Empty.ex = None /\ Empty.tape = None
  BY DEF Husk, Empty
<1>10. lease' = [lease EXCEPT ![m] = new, ![h] = Husk(p)]
  BY <1>2, <1>3, <1>4, <1>5 DEF Move
<1>11. TypeOK'
  BY <1>1, <1>8, <1>10 DEF IInv, TypeOK
<1>12. \A l \in Places :
         lease'[l] = IF l = h THEN Husk(p) ELSE IF l = m THEN new ELSE lease[l]
  BY <1>10 DEF IInv, TypeOK
<1>13. StepOK(t)'
  BY <1>1 DEF IInv, StepInv, StepOK
<1>14. ASSUME NEW w \in LeaseVars PROVE LeaseOK(t, w)'
  <2>1. <<t, w>> \in Places
    BY DEF Places
  <2>2. CASE w = v
    <3>1. lease'[<<t, w>>] = Husk(p)
      BY <1>2, <1>12, <2>2
    <3> QED
      BY <1>6, <1>9, <3>1 DEF LeaseOK
  <2>3. CASE w # v /\ w = u
    <3>1. lease'[<<t, w>>] = lease[<<t, v>>]
      BY <1>2, <1>3, <1>4, <1>12, <2>3
    <3> QED
      BY <1>1, <3>1 DEF IInv, LeaseInv, LeaseOK
  <2>4. CASE w # v /\ w # u
    <3>1. lease'[<<t, w>>] = lease[<<t, w>>]
      BY <1>2, <1>3, <1>12, <2>1, <2>4
    <3> QED
      BY <1>1, <3>1 DEF IInv, LeaseInv, LeaseOK
  <2> QED
    BY <2>2, <2>3, <2>4
<1>15. \A s \in Threads : s # t =>
         \A w \in LeaseVars : lease'[<<s, w>>] = lease[<<s, w>>]
  BY <1>2, <1>3, <1>12 DEF Places
<1>16. StepInv' /\ LeaseInv'
  BY <1>1, <1>13, <1>14, <1>15, OthersUntouched DEF IInv
<1>17. ASSUME NEW d \in Executors PROVE HomeOK(d)'
  <2>1. InFree(d)' = InFree(d) /\ InHand(d)' = InHand(d) /\ d # None
    BY <1>1, NoneAssumption DEF InFree, InHand
  <2>2. CASE d = new.ex
    <3>1. h \in InLease(d)
      BY <1>4, <2>2 DEF InLease
    <3>2. d \in made /\ Works(d)
      BY <3>1 DEF IInv, HomeInv, HomeOK, Gone, Rests, Travels
    <3>3. \A l \in Places : l # h => lease[l].ex # d
      BY <3>1, <3>2 DEF Works, InLease
    <3>4. InLease(d)' = {m}
      BY <1>7, <1>9, <1>12, <2>1, <2>2, <3>3 DEF InLease
    <3> QED
      BY <1>1, <2>1, <3>2, <3>4 DEF HomeOK, Works
  <2>3. CASE d # new.ex
    <3>1. \A l \in Places : lease'[l].ex = d <=> lease[l].ex = d
      BY <1>1, <1>3, <1>4, <1>9, <1>12, <2>1, <2>3
    <3>2. InLease(d)' = InLease(d)
      BY <3>1 DEF InLease
    <3> QED
      BY <1>1, <2>1, <3>2, HomeUntouched DEF IInv, HomeInv
  <2> QED
    BY <2>2, <2>3
<1>18. HomeInv'
  BY <1>17 DEF HomeInv
<1>19. StackInv'
  BY <1>1 DEF IInv, StackInv, StackOK
<1>20. ASSUME NEW x \in Tapes PROVE TapeOK(x)' /\ leases'[x] = Cardinality(Holders(x)')
  <2>1. Lists(x)' = Lists(x) /\ Serves(x)' = Serves(x) /\ x # None
    BY <1>1, NoneAssumption DEF Lists, Serves
  <2>2. CASE x = new.tape
    <3>1. h \in Holders(x) /\ m \notin Holders(x)
      BY <1>1, <1>3, <1>4, <1>9, <2>1, <2>2 DEF Holders
    <3>2. Holders(x)' = (Holders(x) \ {h}) \cup {m}
      BY <1>7, <1>9, <1>12, <2>1, <2>2 DEF Holders
    <3>3. Cardinality(Holders(x)') = Cardinality(Holders(x))
      <4>1. /\ IsFiniteSet(Holders(x) \ {h})
            /\ Cardinality(Holders(x) \ {h}) = Cardinality(Holders(x)) - 1
        BY <3>1, HoldersFinite, FS_RemoveElement
      <4>2. Cardinality((Holders(x) \ {h}) \cup {m})
              = Cardinality(Holders(x) \ {h}) + 1
        BY <3>1, <4>1, FS_AddElement
      <4> QED
        BY <3>2, <4>1, <4>2, HoldersFinite
    <3>4. x \in tapesMade /\ Busy(x)
      BY <3>1 DEF IInv, TapeInv, TapeOK, Unmade, Waits
    <3>5. h[1] = t /\ m[1] = t
      BY <1>2, <1>3
    <3>6. Busy(x)'
      BY <2>1, <3>1, <3>2, <3>4, <3>5 DEF Busy
    <3> QED
      BY <1>1, <3>3, <3>4, <3>6 DEF TapeOK, IInv, CountInv
  <2>3. CASE x # new.tape
    <3>1. \A l \in Places : lease'[l].tape = x <=> lease[l].tape = x
      BY <1>1, <1>3, <1>4, <1>9, <1>12, <2>1, <2>3
    <3>2. Holders(x)' = Holders(x)
      BY <3>1 DEF Holders
    <3>3. TapeOK(x)'
      BY <1>1, <2>1, <3>2, TapeUntouched DEF IInv, TapeInv
    <3> QED
      BY <1>1, <3>2, <3>3 DEF IInv, CountInv
  <2> QED
    BY <2>2, <2>3
<1>21. TapeInv' /\ CountInv'
  BY <1>20 DEF TapeInv, CountInv
<1> QED
  BY <1>11, <1>16, <1>18, <1>19, <1>21 DEF IInv

(* The executor of a destroyed lease goes back to its pool. *)
LEMMA ReleaseExecutorIInv ==
  ASSUME IInv, NEW t \in Threads, NEW v \in LeaseVars, ReleaseExecutor(t, v)
  PROVE  IInv'
<1>1. /\ pc[t] = "idle" /\ lease[<<t, v>>] # Empty
      /\ lease' = [lease EXCEPT ![<<t, v>>].ex = None]
      /\ arg' = [arg EXCEPT ![t].var = v]
      /\ pc' = [pc EXCEPT ![t] = "tape"] /\ made' = made
      /\ UNCHANGED <<freeTapes, tapesMade, leases, dirty, current, stack>>
  BY DEF ReleaseExecutor, tls
<1>2. PICK h \in Places : h = <<t, v>>
  BY DEF Places
<1>3. PICK p \in Pools \cup {None} : p = lease[h].pool
  BY DEF IInv, TypeOK
<1>4. p \in Pools
  BY <1>1, <1>2, <1>3 DEF IInv, LeaseInv, LeaseOK
<1>5. PICK e \in Executors \cup {None} : e = lease[h].ex
  BY DEF IInv, TypeOK
<1>6. free' = IF e = None THEN free ELSE [free EXCEPT ![p] = @ \cup {e}]
  BY <1>2, <1>3, <1>5 DEF ReleaseExecutor
<1>7. free' \in [Pools -> SUBSET Executors]
  <2>1. CASE e = None
    BY <1>6, <2>1 DEF IInv, TypeOK
  <2>2. CASE e # None
    BY <1>4, <1>6, <2>2 DEF IInv, TypeOK
  <2> QED
    BY <2>1, <2>2
<1>8. TypeOK'
  BY <1>1, <1>2, <1>7 DEF IInv, TypeOK
<1>9. /\ lease'[h].ex = None /\ lease'[h].pool = p
      /\ \A l \in Places : lease'[l].tape = lease[l].tape
      /\ \A l \in Places : l # h => lease'[l] = lease[l]
  BY <1>1, <1>2, <1>3 DEF IInv, TypeOK
<1>10. arg[t].ex = None
  BY <1>1 DEF IInv, StepInv, StepOK, Idle
<1>11. /\ pc'[t] = "tape" /\ arg'[t].var = v /\ arg'[t].ex = None
       /\ \A u \in Threads : u # t => pc'[u] = pc[u] /\ arg'[u] = arg[u]
  BY <1>1, <1>10 DEF IInv, TypeOK
<1>12. StepOK(t)'
  BY <1>2, <1>4, <1>9, <1>11 DEF StepOK
<1>13. ASSUME NEW w \in LeaseVars PROVE LeaseOK(t, w)'
  <2>1. <<t, w>> \in Places
    BY DEF Places
  <2>2. CASE w = v
    BY <1>2, <1>4, <1>9, <1>11, <2>2, NoneAssumption DEF LeaseOK
  <2>3. CASE w # v
    <3>1. lease'[<<t, w>>] = lease[<<t, w>>]
      BY <1>2, <1>9, <2>1, <2>3
    <3>2. LeaseOK(t, w) /\ pc[t] = "idle"
      BY <1>1 DEF IInv, LeaseInv
    <3> QED
      BY <3>1, <3>2 DEF LeaseOK
  <2> QED
    BY <2>2, <2>3
<1>14. \A s \in Threads : s # t =>
         \A w \in LeaseVars : lease'[<<s, w>>] = lease[<<s, w>>]
  BY <1>2, <1>9 DEF Places
<1>15. StepInv' /\ LeaseInv'
  BY <1>11, <1>12, <1>13, <1>14, OthersUntouched DEF IInv
<1>16. StackInv' /\ TapeInv' /\ CountInv'
  BY <1>1, <1>9, TapesUntouched DEF IInv
<1>17. \A u \in Threads : arg'[u].ex = arg[u].ex
  BY <1>10, <1>11
<1>18. ASSUME NEW d \in Executors PROVE HomeOK(d)'
  <2>1. InHand(d)' = InHand(d) /\ d # None
    BY <1>17, NoneAssumption DEF InHand
  <2>2. CASE d = e
    <3>1. h \in InLease(d)
      BY <1>5, <2>2 DEF InLease
    <3>2. d \in made /\ Works(d)
      BY <3>1 DEF IInv, HomeInv, HomeOK, Gone, Rests, Travels
    <3>3. \A l \in Places : l # h => lease[l].ex # d
      BY <3>1, <3>2 DEF Works, InLease
    <3>4. InLease(d)' = {}
      BY <1>9, <2>1, <3>3 DEF InLease
    <3>5. \A q \in Pools : d \notin free[q]
      BY <3>2 DEF Works, InFree
    <3>6. \A q \in Pools : free'[q] = IF q = p THEN free[q] \cup {e} ELSE free[q]
      BY <1>4, <1>6, <2>1, <2>2 DEF IInv, TypeOK
    <3>7. InFree(d)' = {p}
      BY <1>4, <2>2, <3>5, <3>6 DEF InFree
    <3> QED
      BY <1>1, <1>4, <2>1, <3>2, <3>4, <3>7 DEF HomeOK, Rests, Works
  <2>3. CASE d # e
    <3>1. \A l \in Places : lease'[l].ex = d <=> lease[l].ex = d
      BY <1>5, <1>9, <2>1, <2>3
    <3>2. InLease(d)' = InLease(d)
      BY <3>1 DEF InLease
    <3>3. \A q \in Pools : d \in free'[q] <=> d \in free[q]
      BY <1>6, <2>3 DEF IInv, TypeOK
    <3>4. InFree(d)' = InFree(d)
      BY <3>3 DEF InFree
    <3> QED
      BY <1>1, <2>1, <3>2, <3>4, HomeUntouched DEF IInv, HomeInv
  <2> QED
    BY <2>2, <2>3
<1>19. HomeInv'
  BY <1>18 DEF HomeInv
<1> QED
  BY <1>8, <1>15, <1>16, <1>19 DEF IInv

(* The last lease on a tape takes it off the thread and pools it. *)
LEMMA ReleaseTapeIInv ==
  ASSUME IInv, NEW t \in Threads, ReleaseTape(t)
  PROVE  IInv'
<1>1. PICK v \in LeaseVars : v = arg[t].var
  BY DEF ReleaseTape, IInv, StepInv, StepOK
<1>2. PICK h \in Places : h = <<t, v>>
  BY DEF Places
<1>3. PICK x \in Tapes \cup {None} : x = lease[h].tape
  BY DEF IInv, TypeOK
<1>4. PICK p : p = lease[h].pool
  OBVIOUS
<1>5. /\ pc[t] = "tape" /\ UNCHANGED <<free, made>> /\ tapesMade' = tapesMade
      /\ lease' = [lease EXCEPT ![h] = Empty]
      /\ arg' = [arg EXCEPT ![t] = Idle]
      /\ pc' = [pc EXCEPT ![t] = "idle"]
  BY <1>1, <1>2 DEF ReleaseTape, Released
<1>6. p \in Pools /\ lease[h].ex = None /\ arg[t].ex = None
  BY <1>1, <1>2, <1>4, <1>5 DEF IInv, StepInv, StepOK
<1>7. /\ arg' \in [Threads -> [pool : Pools \cup {None},
                               ex : Executors \cup {None},
                               var : LeaseVars \cup {None}]]
      /\ pc' \in [Threads -> {"idle", "clone", "lease", "tape"}]
      /\ lease' \in [Places -> [pool : Pools \cup {None},
                                ex : Executors \cup {None},
                                tape : Tapes \cup {None}]]
  BY <1>5 DEF IInv, TypeOK, Idle, Empty
<1>8. \A l \in Places : lease'[l] = IF l = h THEN Empty ELSE lease[l]
  BY <1>5 DEF IInv, TypeOK
<1>9. Empty.ex = None /\ Empty.tape = None /\ Idle.ex = None
  BY DEF Empty, Idle
<1>10. /\ pc'[t] = "idle" /\ arg'[t] = Idle
       /\ \A u \in Threads : u # t => pc'[u] = pc[u] /\ arg'[u] = arg[u]
  BY <1>5 DEF IInv, TypeOK
<1>11. StepOK(t)'
  BY <1>9, <1>10 DEF StepOK
<1>12. ASSUME NEW w \in LeaseVars PROVE LeaseOK(t, w)'
  <2>1. <<t, w>> \in Places
    BY DEF Places
  <2>2. CASE w = v
    <3>1. lease'[<<t, w>>] = Empty
      BY <1>2, <1>8, <2>2
    <3> QED
      BY <1>9, <3>1 DEF LeaseOK
  <2>3. CASE w # v
    <3>1. lease'[<<t, w>>] = lease[<<t, w>>]
      BY <1>2, <1>8, <2>1, <2>3
    <3> QED
      BY <1>1, <2>3, <3>1 DEF IInv, LeaseInv, LeaseOK
  <2> QED
    BY <2>2, <2>3
<1>13. \A s \in Threads : s # t =>
         \A w \in LeaseVars : lease'[<<s, w>>] = lease[<<s, w>>]
  BY <1>2, <1>8 DEF Places
<1>14. StepInv' /\ LeaseInv'
  BY <1>10, <1>11, <1>12, <1>13, OthersUntouched DEF IInv
<1>15. HomeInv'
  <2>1. \A l \in Places : lease'[l].ex = lease[l].ex
    BY <1>6, <1>8, <1>9
  <2>2. \A u \in Threads : arg'[u].ex = arg[u].ex
    BY <1>6, <1>9, <1>10
  <2> QED
    BY <1>5, <2>1, <2>2, HomesUntouched DEF IInv
<1>16. CASE x = None
  <2>1. UNCHANGED <<freeTapes, tapesMade, leases, dirty, current, stack>>
    BY <1>1, <1>2, <1>3, <1>5, <1>16 DEF ReleaseTape, tls
  <2>2. TypeOK'
    BY <1>5, <1>7, <2>1 DEF IInv, TypeOK
  <2>3. \A l \in Places : lease'[l].tape = lease[l].tape
    BY <1>3, <1>8, <1>9, <1>16
  <2>4. StackInv' /\ TapeInv' /\ CountInv'
    BY <2>1, <2>3, TapesUntouched DEF IInv
  <2> QED
    BY <1>14, <1>15, <2>2, <2>4 DEF IInv
<1>17. CASE x # None
  <2>1. x \in Tapes /\ leases' = [leases EXCEPT ![x] = @ - 1]
    BY <1>1, <1>2, <1>3, <1>17 DEF ReleaseTape
  <2>2. h \in Holders(x)
    BY <1>3 DEF Holders
  <2>3. Holders(x)' = Holders(x) \ {h}
    BY <1>8, <1>9, <1>17 DEF Holders
  <2>4. \A y \in Tapes : y # x => Holders(y)' = Holders(y)
    BY <1>3, <1>8, <1>9, NoneAssumption DEF Holders
  <2>5. /\ leases[x] = Cardinality(Holders(x)) /\ leases[x] \in Nat
        /\ Cardinality(Holders(x)') = leases[x] - 1
        /\ leases[x] # 0
    <3>1. Cardinality(Holders(x)') = Cardinality(Holders(x)) - 1
      BY <2>2, <2>3, HoldersFinite, FS_RemoveElement
    <3>2. Cardinality(Holders(x)) # 0
      BY <2>2, HoldersFinite, FS_EmptySet
    <3> QED
      BY <2>1, <3>1, <3>2, HoldersFinite DEF IInv, CountInv
  <2>6. leases' \in [Tapes -> Nat] /\ CountInv'
    <3>0. leases[x] - 1 \in Nat
      BY <2>5
    <3>1. leases' \in [Tapes -> Nat]
      BY <2>1, <3>0 DEF IInv, TypeOK
    <3>2. \A y \in Tapes : leases'[y] = IF y = x THEN leases[x] - 1 ELSE leases[y]
      BY <2>1 DEF IInv, TypeOK
    <3>3. CountInv'
      BY <2>4, <2>5, <3>2 DEF IInv, CountInv
    <3> QED
      BY <3>1, <3>3
  <2>7. x \in tapesMade /\ Busy(x)
    BY <2>1, <2>2 DEF IInv, TapeInv, TapeOK, Unmade, Waits
  <2>8. Serves(x) = {t} /\ current[t] = x
    <3>1. h[1] = t
      BY <1>2
    <3>2. t \in Serves(x)
      BY <2>2, <2>7, <3>1 DEF Busy
    <3> QED
      BY <2>7, <3>2 DEF Busy, Serves
  <2>9. IsFiniteSet(Holders(x)')
    BY <2>3, HoldersFinite, FS_RemoveElement
  <2>10. CASE leases[x] # 1
    <3>1. UNCHANGED <<freeTapes, dirty, current, stack>>
      BY <1>1, <1>2, <1>3, <1>17, <2>10 DEF ReleaseTape, tls
    <3>2. TypeOK'
      BY <1>5, <1>7, <2>6, <3>1 DEF IInv, TypeOK
    <3>3. StackInv'
      BY <3>1 DEF IInv, StackInv, StackOK
    <3>4. Holders(x)' # {}
      <4>1. Cardinality(Holders(x)') # 0
        BY <2>5, <2>10
      <4> QED
        BY <4>1, FS_EmptySet
    <3>5. ASSUME NEW y \in Tapes PROVE TapeOK(y)'
      <4>1. Lists(y)' = Lists(y) /\ Serves(y)' = Serves(y)
        BY <3>1 DEF Lists, Serves
      <4>2. CASE y = x
        <5>1. Busy(x)'
          BY <2>3, <2>7, <3>4, <4>1, <4>2 DEF Busy
        <5> QED
          BY <1>5, <2>7, <4>2, <5>1 DEF TapeOK
      <4>3. CASE y # x
        BY <1>5, <2>4, <3>1, <4>1, <4>3, TapeUntouched DEF IInv, TapeInv
      <4> QED
        BY <4>2, <4>3
    <3>6. TapeInv'
      BY <3>5 DEF TapeInv
    <3> QED
      BY <1>14, <1>15, <2>6, <3>2, <3>3, <3>6 DEF IInv
  <2>11. CASE leases[x] = 1
    <3>1. /\ current' = [current EXCEPT ![t] = None]
          /\ stack' = [stack EXCEPT ![t] = None]
          /\ dirty' = dirty \ {x}
          /\ freeTapes' = [freeTapes EXCEPT ![p] = @ \cup {x}]
      BY <1>1, <1>2, <1>3, <1>4, <1>17, <2>11 DEF ReleaseTape
    <3>2. /\ current' \in [Threads -> Tapes \cup {None}]
          /\ stack' \in [Threads -> Tapes \cup {None, Own}]
          /\ \A u \in Threads : /\ current'[u] = IF u = t THEN None ELSE current[u]
                                /\ stack'[u] = IF u = t THEN None ELSE stack[u]
      BY <3>1 DEF IInv, TypeOK
    <3>3. /\ freeTapes' \in [Pools -> SUBSET Tapes] /\ dirty' \subseteq Tapes
          /\ \A q \in Pools :
               freeTapes'[q] = IF q = p THEN freeTapes[q] \cup {x} ELSE freeTapes[q]
      BY <1>6, <2>1, <3>1 DEF IInv, TypeOK
    <3>4. TypeOK'
      BY <1>5, <1>7, <2>6, <3>2, <3>3 DEF IInv, TypeOK
    <3>5. t \notin Equipped
      BY <1>17, <2>8 DEF IInv, StackInv, StackOK
    <3>6. StackInv'
      BY <3>2, <3>5 DEF IInv, StackInv, StackOK
    <3>7. Holders(x)' = {}
      BY <2>5, <2>9, <2>11, FS_EmptySet
    <3>8. ASSUME NEW y \in Tapes PROVE TapeOK(y)'
      <4>1. CASE y = x
        <5>1. Serves(x)' = {}
          <6>1. \A u \in Threads : u # t => current[u] # x
            BY <2>8 DEF Serves
          <6> QED
            BY <1>17, <3>2, <6>1 DEF Serves
        <5>2. Lists(x)' = {p}
          <6>1. \A q \in Pools : x \notin freeTapes[q]
            BY <2>7 DEF Busy, Lists
          <6> QED
            BY <1>6, <3>3, <6>1 DEF Lists
        <5>3. Waits(x)'
          BY <1>6, <3>1, <3>7, <5>1, <5>2 DEF Waits
        <5> QED
          BY <1>5, <2>7, <4>1, <5>3 DEF TapeOK
      <4>2. CASE y # x
        <5>1. Serves(y)' = Serves(y)
          BY <2>8, <3>2, <4>2, NoneAssumption DEF Serves
        <5>2. Lists(y)' = Lists(y)
          BY <3>3, <4>2 DEF Lists
        <5>3. y \in dirty' <=> y \in dirty
          BY <3>1, <4>2
        <5> QED
          BY <1>5, <2>4, <4>2, <5>1, <5>2, <5>3, TapeUntouched DEF IInv, TapeInv
      <4> QED
        BY <4>1, <4>2
    <3>9. TapeInv'
      BY <3>8 DEF TapeInv
    <3> QED
      BY <1>14, <1>15, <2>6, <3>4, <3>6, <3>9 DEF IInv
  <2> QED
    BY <2>10, <2>11
<1> QED
  BY <1>16, <1>17

(* Every step keeps the invariant. *)
LEMMA NextIInv == IInv /\ [Next]_vars => IInv'
<1> SUFFICES ASSUME IInv, [Next]_vars PROVE IInv'
  OBVIOUS
<1>1. CASE Next
  BY <1>1, AcquireBeginIInv, CloneProtoIInv, LeaseSharesIInv, LeaseTakesTapeIInv,
     LeaseMakesTapeIInv, EvaluateIInv, MoveIInv, ReleaseExecutorIInv,
     ReleaseTapeIInv DEF Next
<1>2. CASE UNCHANGED vars
  <2>1. /\ UNCHANGED <<free, made>> /\ pc' = pc /\ arg' = arg /\ lease' = lease
        /\ UNCHANGED <<freeTapes, tapesMade, leases, dirty, current, stack>>
    BY <1>2 DEF vars, tls
  <2>2. TypeOK' /\ StepInv' /\ LeaseInv'
    BY <2>1 DEF IInv, TypeOK, StepInv, StepOK, LeaseInv, LeaseOK
  <2> QED
    BY <2>1, <2>2, HomesUntouched, TapesUntouched DEF IInv
<1> QED
  BY <1>1, <1>2

(* Spec keeps the inductive invariant. *)
THEOREM Invariance == Spec => []IInv
  BY InitIInv, NextIInv, PTL DEF Spec

(* A clone is in a free list, in one lease or in one acquire, whatever the   *)
(* threads acquire, move and release, and however a clone or a tape fails.  *)
THEOREM ExecutorsHaveOneHome == Spec => []OneHome
<1>1. IInv => OneHome
  <2> SUFFICES ASSUME IInv, NEW e \in made PROVE Cardinality(Homes(e)) = 1
    BY DEF OneHome, IInv
  <2>1. Rests(e) \/ Works(e) \/ Travels(e)
    BY DEF IInv, TypeOK, HomeInv, HomeOK
  <2>2. Homes(e) = {<<"free", p>> : p \in InFree(e)}
                   \cup {<<"lease", l>> : l \in InLease(e)}
                   \cup {<<"acquire", t>> : t \in InHand(e)}
    BY DEF Homes, InFree, InLease, InHand
  <2>3. ASSUME NEW x PROVE Cardinality({x}) = 1
    BY FS_Singleton
  <2>4. CASE Rests(e)
    <3>1. PICK p : InFree(e) = {p} /\ InLease(e) = {} /\ InHand(e) = {}
      BY <2>4 DEF Rests
    <3>2. Homes(e) = {<<"free", p>>}
      BY <2>2, <3>1
    <3> QED
      BY <2>3, <3>2
  <2>5. CASE Works(e)
    <3>1. PICK l : InFree(e) = {} /\ InLease(e) = {l} /\ InHand(e) = {}
      BY <2>5 DEF Works
    <3>2. Homes(e) = {<<"lease", l>>}
      BY <2>2, <3>1
    <3> QED
      BY <2>3, <3>2
  <2>6. CASE Travels(e)
    <3>1. PICK t : InFree(e) = {} /\ InLease(e) = {} /\ InHand(e) = {t}
      BY <2>6 DEF Travels
    <3>2. Homes(e) = {<<"acquire", t>>}
      BY <2>2, <3>1
    <3> QED
      BY <2>3, <3>2
  <2> QED
    BY <2>1, <2>4, <2>5, <2>6
<1> QED
  BY <1>1, Invariance, PTL

(* A tape is recorded on by the one thread whose leases count on it, is      *)
(* pooled exactly when no lease does, and empty then; a thread leaves its    *)
(* last lease with the stack it came with.                                  *)
THEOREM TapesArePrivate == Spec => []TapePrivate
<1>1. IInv => TapePrivate
  <2> SUFFICES ASSUME IInv PROVE TapePrivate
    OBVIOUS
  <2>1. ASSUME NEW x \in tapesMade
        PROVE  /\ leases[x] = Cardinality(Holders(x))
               /\ \A l \in Holders(x) : current[l[1]] = x /\ stack[l[1]] = x
               /\ (\E p \in Pools : x \in freeTapes[p]) <=> Holders(x) = {}
               /\ x \in dirty => Holders(x) # {}
    <3>1. x \in Tapes /\ x # None
      BY NoneAssumption DEF IInv, TypeOK
    <3>2. leases[x] = Cardinality(Holders(x)) /\ (Waits(x) \/ Busy(x))
      BY <3>1 DEF IInv, CountInv, TapeInv, TapeOK
    <3>3. \A l \in Holders(x) : l[1] \in Threads /\ current[l[1]] = x
      BY <3>2 DEF Waits, Busy, Serves
    <3>4. \A l \in Holders(x) : stack[l[1]] = x
      BY <3>1, <3>3 DEF IInv, StackInv, StackOK
    <3>5. (\E p \in Pools : x \in freeTapes[p]) <=> Lists(x) # {}
      BY DEF Lists
    <3>6. Lists(x) # {} <=> Holders(x) = {}
      BY <3>2 DEF Waits, Busy
    <3>7. x \in dirty => Holders(x) # {}
      BY <3>2 DEF Waits, Busy
    <3> QED
      BY <3>2, <3>3, <3>4, <3>5, <3>6, <3>7
  <2>2. \A y \in Tapes, t \in Threads, v \in LeaseVars :
          lease[<<t, v>>].tape = y => current[t] = y
    <3> SUFFICES ASSUME NEW y \in Tapes, NEW t \in Threads, NEW v \in LeaseVars,
                        lease[<<t, v>>].tape = y
                 PROVE  current[t] = y
      OBVIOUS
    <3>1. PICK l \in Places : l = <<t, v>>
      BY DEF Places
    <3>2. l \in Holders(y)
      BY <3>1 DEF Holders
    <3>3. y \in tapesMade
      BY <3>2 DEF IInv, TapeInv, TapeOK, Unmade
    <3> QED
      BY <2>1, <3>1, <3>2, <3>3
  <2>3. ASSUME NEW t \in Threads, NEW v \in LeaseVars, lease[<<t, v>>].ex # None
        PROVE  stack[t] # None
    <3>1. lease[<<t, v>>].tape \in Tapes \cup {None}
      BY DEF IInv, TypeOK, Places
    <3>2. CASE lease[<<t, v>>].tape # None
      <4>1. current[t] # None
        BY <2>2, <3>1, <3>2
      <4> QED
        BY <4>1 DEF IInv, StackInv, StackOK
    <3>3. CASE t \in Equipped
      BY <3>3, OwnAssumption DEF IInv, StackInv, StackOK
    <3> QED
      BY <2>3, <3>2, <3>3 DEF IInv, LeaseInv, LeaseOK
  <2>4. ASSUME NEW t \in Threads, \A v \in LeaseVars : lease[<<t, v>>] = Empty
        PROVE  stack[t] = IF t \in Equipped THEN Own ELSE None
    <3>1. current[t] = None
      <4> SUFFICES ASSUME current[t] # None PROVE FALSE
        OBVIOUS
      <4>1. PICK x \in Tapes : x = current[t]
        BY DEF IInv, TypeOK
      <4>2. t \in Serves(x)
        BY <4>1 DEF Serves
      <4>3. Busy(x)
        BY <4>2 DEF IInv, TapeInv, TapeOK, Waits, Unmade
      <4>4. PICK l \in Places : lease[l].tape = x /\ l[1] \in Serves(x)
        BY <4>3 DEF Busy, Holders
      <4>5. l[1] = t
        BY <4>2, <4>3, <4>4 DEF Busy
      <4>6. PICK v \in LeaseVars : l = <<t, v>>
        BY <4>5 DEF Places
      <4> QED
        BY <2>4, <4>4, <4>6, NoneAssumption DEF Empty
    <3> QED
      BY <3>1 DEF IInv, StackInv, StackOK
  <2> QED
    BY <2>1, <2>3, <2>4 DEF TapePrivate
<1> QED
  BY <1>1, Invariance, PTL
-----------------------------------------------------------------------------
(* What Lent says of the places and acquires. *)
LEMMA LentIff ==
  ASSUME NEW z
  PROVE  z \in Lent <=>
           \/ \E l \in Places : lease[l].ex # None
                              /\ z = <<l[1], lease[l].pool, lease[l].ex>>
           \/ \E t \in Threads : arg[t].ex # None
                               /\ z = <<t, arg[t].pool, arg[t].ex>>
  BY DEF Lent, InLeases, InAcquires

(* The same of the next state. *)
LEMMA LentIffNext ==
  ASSUME NEW z
  PROVE  z \in Lent' <=>
           \/ \E l \in Places : lease'[l].ex # None
                              /\ z = <<l[1], lease'[l].pool, lease'[l].ex>>
           \/ \E t \in Threads : arg'[t].ex # None
                               /\ z = <<t, arg'[t].pool, arg'[t].ex>>
  BY DEF Lent, InLeases, InAcquires

(* A step that leaves executors and pools where they are lends nothing. *)
LEMMA LentSame ==
  ASSUME \A l \in Places : /\ lease'[l].ex = lease[l].ex
                           /\ lease[l].ex # None => lease'[l].pool = lease[l].pool,
         \A t \in Threads : /\ arg'[t].ex = arg[t].ex
                            /\ arg[t].ex # None => arg'[t].pool = arg[t].pool
  PROVE  Lent' = Lent
<1>1. ASSUME NEW z PROVE z \in Lent' <=> z \in Lent
  BY LentIff, LentIffNext
<1> QED
  BY <1>1

(* An acquire that gets hold of an executor has it lent. *)
LEMMA LentGains ==
  ASSUME NEW t \in Threads, NEW p, NEW e, e # None,
         lease' = lease, arg[t].ex = None, arg'[t].ex = e, arg'[t].pool = p,
         \A u \in Threads : u # t => arg'[u] = arg[u]
  PROVE  Lent' = Lent \cup {<<t, p, e>>}
<1>1. ASSUME NEW z PROVE z \in Lent' <=> z \in Lent \/ z = <<t, p, e>>
  BY LentIff, LentIffNext
<1> QED
  BY <1>1

(* Building the lease passes the executor from the acquire to the lease. *)
LEMMA LentLeased ==
  ASSUME IInv, NEW t \in Threads, NEW x, pc[t] = "lease", Leased(t, x)
  PROVE  Lent' = Lent
<1> DEFINE w == <<t, arg[t].var>>
<1>1. /\ w \in Places /\ w[1] = t /\ lease[w].ex = None
      /\ lease \in [Places -> [pool : Pools \cup {None}, ex : Executors \cup {None},
                               tape : Tapes \cup {None}]]
      /\ arg \in [Threads -> [pool : Pools \cup {None}, ex : Executors \cup {None},
                              var : LeaseVars \cup {None}]]
  BY DEF IInv, TypeOK, StepInv, StepOK, Places, Empty
<1>2. /\ lease'[w].ex = arg[t].ex /\ lease'[w].pool = arg[t].pool
      /\ arg'[t].ex = None
      /\ \A l \in Places : l # w => lease'[l] = lease[l]
      /\ \A u \in Threads : u # t => arg'[u] = arg[u]
  BY <1>1 DEF Leased, Idle
<1> HIDE DEF w
<1>3. ASSUME NEW z \in Lent' PROVE z \in Lent
  <2>1. CASE \E l \in Places : lease'[l].ex # None
                            /\ z = <<l[1], lease'[l].pool, lease'[l].ex>>
    <3>1. PICK l \in Places : lease'[l].ex # None
                            /\ z = <<l[1], lease'[l].pool, lease'[l].ex>>
      BY <2>1
    <3>2. CASE l = w
      BY <1>1, <1>2, <3>1, <3>2, LentIff
    <3>3. CASE l # w
      BY <1>2, <3>1, <3>3, LentIff
    <3> QED
      BY <3>2, <3>3
  <2>2. CASE \E u \in Threads : arg'[u].ex # None
                             /\ z = <<u, arg'[u].pool, arg'[u].ex>>
    BY <1>2, <2>2, LentIff
  <2> QED
    BY <2>1, <2>2, LentIffNext
<1>4. ASSUME NEW z \in Lent PROVE z \in Lent'
  <2>1. CASE \E l \in Places : lease[l].ex # None
                            /\ z = <<l[1], lease[l].pool, lease[l].ex>>
    BY <1>1, <1>2, <2>1, LentIffNext
  <2>2. CASE \E u \in Threads : arg[u].ex # None
                             /\ z = <<u, arg[u].pool, arg[u].ex>>
    <3>1. PICK u \in Threads : arg[u].ex # None
                             /\ z = <<u, arg[u].pool, arg[u].ex>>
      BY <2>2
    <3>2. CASE u = t
      BY <1>1, <1>2, <3>1, <3>2, LentIffNext
    <3>3. CASE u # t
      BY <1>2, <3>1, <3>3, LentIffNext
    <3> QED
      BY <3>2, <3>3
  <2> QED
    BY <2>1, <2>2, LentIff
<1> QED
  BY <1>3, <1>4

(* An executor that is nowhere else is not lent once thread t has lost it. *)
LEMMA LentLoses ==
  ASSUME NEW t \in Threads, NEW p, NEW e, e # None, <<t, p, e>> \in Lent,
         \A l \in Places : /\ lease[l].ex = e => lease'[l].ex = None
                           /\ lease[l].ex # e => lease'[l].ex = lease[l].ex
                           /\ lease[l].ex # e => lease'[l].pool = lease[l].pool,
         \A u \in Threads : /\ arg[u].ex = e => arg'[u].ex = None
                            /\ arg[u].ex # e => arg'[u].ex = arg[u].ex
                            /\ arg[u].ex # e /\ arg[u].ex # None
                                  => arg'[u].pool = arg[u].pool,
         \A z \in Lent : z[3] = e => z = <<t, p, e>>
  PROVE  Lent' = Lent \ {<<t, p, e>>}
<1>1. ASSUME NEW z PROVE z \in Lent' <=> z \in Lent /\ z[3] # e
  BY LentIff, LentIffNext
<1>2. <<t, p, e>>[3] = e
  OBVIOUS
<1> QED
  BY <1>1, <1>2

(* Only an executor's one lease or acquire has it lent. *)
LEMMA LentOnce ==
  ASSUME IInv, NEW e \in Executors
  PROVE  /\ \A y, z \in Lent : y[3] = e /\ z[3] = e => y = z
         /\ (\E z \in Lent : z[3] = e) => e \in made /\ InFree(e) = {}
<1>1. \A z \in Lent : z[3] = e =>
        \/ \E l \in InLease(e) : z = <<l[1], lease[l].pool, e>>
        \/ \E t \in InHand(e) : z = <<t, arg[t].pool, e>>
  BY LentIff DEF InLease, InHand
<1>2. HomeOK(e)
  BY DEF IInv, HomeInv
<1> QED
  BY <1>1, <1>2 DEF HomeOK, Rests, Works, Travels, Gone

(* A thread whose last lease goes has no executor left. *)
LEMMA LastLeaseWorksNot ==
  ASSUME IInv, NEW t \in Threads, pc[t] = "tape",
         NEW x \in Tapes, lease[<<t, arg[t].var>>].tape = x, leases[x] = 1
  PROVE  \A z \in Lent : z[1] # t
<1> DEFINE w == <<t, arg[t].var>>
<1>1. /\ w \in Places /\ w[1] = t /\ lease[w].ex = None /\ w \in Holders(x)
      /\ arg[t].ex = None /\ x # None
  BY NoneAssumption DEF IInv, StepInv, StepOK, Places, Holders
<1>2. PICK k : Holders(x) = {k}
  BY HoldersFinite, FS_Singleton DEF IInv, CountInv
<1>3. Holders(x) = {w}
  BY <1>1, <1>2
<1> HIDE DEF w
<1>4. /\ \A y \in Tapes : \A l \in Holders(y) : current[l[1]] = y
      /\ \A l \in Places : lease[l].tape \in Tapes \cup {None}
  BY DEF IInv, TypeOK, TapeInv, TapeOK, Waits, Busy, Unmade, Serves
<1>5. current[t] = x /\ t \notin Equipped
  BY <1>1, <1>4 DEF IInv, StackInv, StackOK
<1>6. ASSUME NEW l \in Places, l[1] = t, lease[l].ex # None PROVE FALSE
  <2>1. lease[l].tape # None
    <3>1. PICK v \in LeaseVars : l = <<t, v>>
      BY <1>6 DEF Places
    <3> QED
      BY <1>5, <1>6, <3>1 DEF IInv, LeaseInv, LeaseOK
  <2>2. lease[l].tape = x
    BY <1>4, <1>5, <1>6, <2>1 DEF Holders
  <2> QED
    BY <1>1, <1>3, <1>6, <2>2 DEF Holders
<1> QED
  BY <1>1, <1>6, LentIff

(* What each step of the pools is to the loans. *)
LEMMA LoanStep ==
  ASSUME IInv, [Next]_vars
  PROVE  [Loans!Next]_(Loans!vars)
<1>t. /\ lease \in [Places -> [pool : Pools \cup {None}, ex : Executors \cup {None},
                              tape : Tapes \cup {None}]]
      /\ arg \in [Threads -> [pool : Pools \cup {None}, ex : Executors \cup {None},
                              var : LeaseVars \cup {None}]]
      /\ free \in [Pools -> SUBSET Executors]
      /\ current \in [Threads -> Tapes \cup {None}]
      /\ None \notin Executors /\ None \notin Tapes
  BY NoneAssumption DEF IInv, TypeOK
<1>s. ASSUME Lent' = Lent, free' = free, current' = current, dirty' = dirty
      PROVE  UNCHANGED Loans!vars
  BY <1>s DEF Loans!vars
<1>n. /\ \A t \in Threads, p \in Pools, e \in Executors :
            Loans!Make(t, p, e) \/ Loans!Lend(t, p, e) \/ Loans!Return(t, p, e)
              \/ Loans!Scrap(t, p, e) => Loans!Next
      /\ \A t \in Threads, x \in Tapes : Loans!TakeTape(t, x) => Loans!Next
      /\ \A t \in Threads : Loans!Record(t) \/ Loans!DropTape(t) => Loans!Next
  BY DEF Loans!Next
<1>1. ASSUME NEW t \in Threads, NEW p \in Pools, NEW v \in LeaseVars,
             AcquireBegin(t, p, v)
      PROVE  [Loans!Next]_(Loans!vars)
  <2>1. arg[t].ex = None
    BY <1>1 DEF AcquireBegin, IInv, StepInv, StepOK, Idle
  <2>2. CASE free[p] = {} /\ free' = free
             /\ arg' = [arg EXCEPT ![t] = [pool |-> p, ex |-> None, var |-> v]]
    <3>1. Lent' = Lent
      BY <1>t, <1>1, <2>1, <2>2, LentSame DEF AcquireBegin
    <3> QED
      BY <1>s, <1>1, <2>2, <3>1 DEF AcquireBegin, tls
  <2>3. ASSUME NEW e \in free[p], free' = [free EXCEPT ![p] = @ \ {e}],
               arg' = [arg EXCEPT ![t] = [pool |-> p, ex |-> e, var |-> v]]
        PROVE  Loans!Next
    <3>1. e \in Executors /\ e # None
      BY <1>t, <2>3
    <3>2. lease' = lease /\ current' = current /\ dirty' = dirty
      BY <1>1 DEF AcquireBegin, tls
    <3>3. /\ arg'[t].ex = e /\ arg'[t].pool = p
          /\ \A u \in Threads : u # t => arg'[u] = arg[u]
      BY <1>t, <2>3
    <3>4. Lent' = Lent \cup {<<t, p, e>>}
      BY <2>1, <3>1, <3>2, <3>3, LentGains
    <3>5. Loans!Lend(t, p, e)
      BY <2>3, <3>2, <3>4 DEF Loans!Lend
    <3> QED
      BY <1>n, <3>1, <3>5
  <2> QED
    BY <1>1, <2>2, <2>3 DEF AcquireBegin
<1>2. ASSUME NEW t \in Threads, CloneProto(t)
      PROVE  [Loans!Next]_(Loans!vars)
  <2>1. /\ arg[t].ex = None /\ arg[t].pool \in Pools
        /\ lease' = lease /\ free' = free /\ current' = current /\ dirty' = dirty
    BY <1>2 DEF CloneProto, IInv, StepInv, StepOK, tls
  <2>2. CASE arg' = [arg EXCEPT ![t] = Idle]
    <3>1. Lent' = Lent
      BY <1>t, <2>1, <2>2, LentSame DEF Idle
    <3> QED
      BY <1>s, <2>1, <3>1
  <2>3. ASSUME NEW e \in Executors \ made, arg' = [arg EXCEPT ![t].ex = e]
        PROVE  Loans!Next
    <3> DEFINE p == arg[t].pool
    <3>1. Lent' = Lent \cup {<<t, p, e>>}
      <4>1. e # None
        BY <1>t
      <4>2. /\ arg'[t].ex = e /\ arg'[t].pool = p
            /\ \A u \in Threads : u # t => arg'[u] = arg[u]
        BY <1>t, <2>3
      <4> HIDE DEF p
      <4> QED
        BY <2>1, <4>1, <4>2, LentGains
    <3>2. Gone(e)
      BY DEF IInv, HomeInv, HomeOK
    <3>3. ~Loans!Known(e)
      BY <3>2, LentOnce DEF Loans!Known, Gone, InFree
    <3>4. Loans!Make(t, p, e)
      BY <2>1, <3>1, <3>3 DEF Loans!Make
    <3> QED
      BY <1>n, <2>1, <3>4
  <2> QED
    BY <1>2, <2>2, <2>3 DEF CloneProto
<1>3. ASSUME NEW t \in Threads, LeaseShares(t)
      PROVE  UNCHANGED Loans!vars
  BY <1>3, <1>s, LentLeased DEF LeaseShares, tls
<1>4. ASSUME NEW t \in Threads, NEW x \in Tapes, pc[t] = "lease", NeedsTape(t),
             Unmade(x) \/ Waits(x), Leased(t, x), free' = free, dirty' = dirty,
             current' = [current EXCEPT ![t] = x]
      PROVE  Loans!Next
  <2>1. Lent' = Lent
    BY <1>4, LentLeased
  <2>2. /\ arg[t].ex # None /\ t \notin Equipped
        /\ current[t] = None
    BY <1>4, OwnAssumption DEF IInv, StepInv, StepOK, StackInv, StackOK, NeedsTape
  <2>3. Loans!Works(t)
    <3>1. <<t, arg[t].pool, arg[t].ex>> \in Lent
      BY <2>2, LentIff
    <3> QED
      BY <3>1 DEF Loans!Works
  <2>4. x \notin dirty /\ \A u \in Threads : current[u] # x
    BY <1>4 DEF Unmade, Waits, Serves
  <2>5. Loans!TakeTape(t, x)
    BY <1>4, <2>1, <2>2, <2>3, <2>4 DEF Loans!TakeTape
  <2> QED
    BY <1>n, <2>5
<1>5. ASSUME NEW t \in Threads, LeaseTakesTape(t)
      PROVE  Loans!Next
  <2>1. PICK x \in freeTapes[arg[t].pool] :
          Leased(t, x) /\ current' = [current EXCEPT ![t] = x]
    BY <1>5 DEF LeaseTakesTape
  <2>2. /\ pc[t] = "lease" /\ NeedsTape(t) /\ free' = free /\ dirty' = dirty
        /\ arg[t].pool \in Pools
    BY <1>5 DEF LeaseTakesTape, IInv, StepInv, StepOK
  <2>3. x \in Tapes /\ arg[t].pool \in Lists(x)
    BY <2>1, <2>2 DEF IInv, TypeOK, Lists
  <2>4. Waits(x)
    BY <2>3 DEF IInv, TapeInv, TapeOK, Busy, Unmade
  <2> QED
    BY <1>4, <2>1, <2>2, <2>3, <2>4
<1>6. ASSUME NEW t \in Threads, LeaseMakesTape(t)
      PROVE  Loans!Next
  <2>1. /\ pc[t] = "lease" /\ NeedsTape(t) /\ free' = free /\ dirty' = dirty
        /\ arg[t].pool \in Pools /\ arg[t].ex # None
    BY <1>6 DEF LeaseMakesTape, IInv, StepInv, StepOK
  <2>2. ASSUME NEW x \in Tapes \ tapesMade, Leased(t, x),
               current' = [current EXCEPT ![t] = x]
        PROVE  Loans!Next
    <3>1. Unmade(x)
      BY DEF IInv, TapeInv, TapeOK
    <3> QED
      BY <1>4, <2>1, <2>2, <3>1
  <2>3. CASE arg' = [arg EXCEPT ![t] = Idle] /\ UNCHANGED <<tls, lease>>
    <3> DEFINE p == arg[t].pool
               e == arg[t].ex
    <3>1. e \in Executors /\ e # None /\ p \in Pools
      BY <1>t, <2>1
    <3>2. <<t, p, e>> \in Lent
      BY <2>1, LentIff
    <3>3. \A z \in Lent : z[3] = e => z = <<t, p, e>>
      BY <3>1, <3>2, LentOnce
    <3>4. InHand(e) = {t} /\ InLease(e) = {}
      BY <3>1 DEF IInv, HomeInv, HomeOK, Rests, Works, Travels, Gone, InHand
    <3>5. Lent' = Lent \ {<<t, p, e>>}
      <4>1. /\ \A l \in Places : lease[l].ex # e /\ lease'[l] = lease[l]
            /\ arg'[t].ex = None
            /\ \A u \in Threads : u # t => arg[u].ex # e /\ arg'[u] = arg[u]
        BY <1>t, <2>3, <3>4 DEF InLease, InHand, Idle
      <4>2. arg[t].ex = e
        OBVIOUS
      <4> HIDE DEF p, e
      <4> QED
        BY <3>1, <3>2, <3>3, <4>1, <4>2, LentLoses
    <3>6. Loans!Scrap(t, p, e)
      BY <2>1, <2>3, <3>2, <3>5 DEF Loans!Scrap, tls
    <3> QED
      BY <1>n, <3>1, <3>6
  <2> QED
    BY <1>6, <2>2, <2>3 DEF LeaseMakesTape
<1>7. ASSUME NEW t \in Threads, NEW v \in LeaseVars, Evaluate(t, v)
      PROVE  Loans!Next
  <2>1. /\ stack[t] \in Tapes /\ lease[<<t, v>>].ex # None
        /\ dirty' = dirty \cup {stack[t]} /\ <<t, v>> \in Places
        /\ free' = free /\ lease' = lease /\ arg' = arg /\ current' = current
    BY <1>7 DEF Evaluate, tls, Places
  <2>2. current[t] # None /\ stack[t] = current[t]
    BY <1>t, <2>1, OwnAssumption DEF IInv, StackInv, StackOK
  <2>3. Lent' = Lent
    BY <2>1, LentSame
  <2>4. Loans!Works(t)
    <3>1. <<t, lease[<<t, v>>].pool, lease[<<t, v>>].ex>> \in Lent
      BY <2>1, LentIff
    <3> QED
      BY <3>1 DEF Loans!Works
  <2>5. Loans!Record(t)
    BY <2>1, <2>2, <2>3, <2>4 DEF Loans!Record
  <2> QED
    BY <1>n, <2>5
<1>8. ASSUME NEW t \in Threads, NEW v \in LeaseVars, NEW u \in LeaseVars,
             Move(t, v, u)
      PROVE  UNCHANGED Loans!vars
  <2> DEFINE old == <<t, v>>
             new == <<t, u>>
  <2>1. /\ old \in Places /\ new \in Places /\ old[1] = t /\ new[1] = t
        /\ lease[old].ex # None /\ lease[new] = Empty
        /\ lease' = [lease EXCEPT ![new] = lease[old],
                                 ![old] = Husk(lease[old].pool)]
        /\ arg' = arg
    BY <1>8 DEF Move, Places
  <2>2. old # new /\ lease[new].ex = None
    BY <2>1 DEF Empty
  <2> HIDE DEF old, new
  <2>3. /\ lease'[new] = lease[old] /\ lease'[old].ex = None
        /\ \A l \in Places : l # old /\ l # new => lease'[l] = lease[l]
    BY <1>t, <2>1, <2>2 DEF Husk
  <2>4. ASSUME NEW z PROVE z \in Lent' <=> z \in Lent
    <3>1. ASSUME NEW l \in Places, lease'[l].ex # None
          PROVE  \E m \in Places : lease[m].ex # None /\ m[1] = l[1]
                                 /\ lease[m] = lease'[l]
      BY <2>1, <2>2, <2>3, <3>1
    <3>2. ASSUME NEW l \in Places, lease[l].ex # None
          PROVE  \E m \in Places : lease'[m].ex # None /\ m[1] = l[1]
                                 /\ lease'[m] = lease[l]
      BY <2>1, <2>2, <2>3, <3>2
    <3>3. (\E l \in Places : lease'[l].ex # None
                          /\ z = <<l[1], lease'[l].pool, lease'[l].ex>>)
            => \E l \in Places : lease[l].ex # None
                             /\ z = <<l[1], lease[l].pool, lease[l].ex>>
      BY <3>1
    <3>4. (\E l \in Places : lease[l].ex # None
                          /\ z = <<l[1], lease[l].pool, lease[l].ex>>)
            => \E l \in Places : lease'[l].ex # None
                             /\ z = <<l[1], lease'[l].pool, lease'[l].ex>>
      BY <3>2
    <3>5. arg' = arg
      BY <2>1
    <3> QED
      BY <3>3, <3>4, <3>5, LentIff, LentIffNext
  <2>5. Lent' = Lent
    BY <2>4
  <2> QED
    BY <1>8, <1>s, <2>5 DEF Move, tls
<1>9. ASSUME NEW t \in Threads, NEW v \in LeaseVars, ReleaseExecutor(t, v)
      PROVE  [Loans!Next]_(Loans!vars)
  <2> DEFINE w == <<t, v>>
             p == lease[w].pool
             e == lease[w].ex
  <2>1. /\ w \in Places /\ w[1] = t /\ arg[t].ex = None
        /\ lease' = [lease EXCEPT ![w].ex = None]
        /\ arg' = [arg EXCEPT ![t].var = v]
        /\ current' = current /\ dirty' = dirty
        /\ free' = IF e = None THEN free ELSE [free EXCEPT ![p] = @ \cup {e}]
    BY <1>9 DEF ReleaseExecutor, IInv, StepInv, StepOK, Idle, Places, tls
  <2>2. /\ lease'[w].ex = None /\ arg'[t].ex = None
        /\ \A l \in Places : l # w => lease'[l] = lease[l]
        /\ \A u \in Threads : u # t => arg'[u] = arg[u]
    BY <1>t, <2>1
  <2>3. CASE e = None
    <3>1. /\ \A l \in Places : lease'[l].ex = lease[l].ex
                              /\ (lease[l].ex # None => lease'[l].pool = lease[l].pool)
          /\ \A u \in Threads : arg'[u].ex = arg[u].ex
                               /\ (arg[u].ex # None => arg'[u].pool = arg[u].pool)
      BY <2>1, <2>2, <2>3
    <3>2. Lent' = Lent
      BY <3>1, LentSame
    <3> QED
      BY <1>s, <2>1, <2>3, <3>2
  <2>4. CASE e # None
    <3>1. e \in Executors /\ p \in Pools
      <4>1. LeaseOK(t, v)
        BY DEF IInv, LeaseInv
      <4> QED
        BY <1>t, <2>1, <2>4, <4>1 DEF LeaseOK, Empty
    <3>2. <<t, p, e>> \in Lent
      BY <2>1, <2>4, LentIff
    <3>3. \A z \in Lent : z[3] = e => z = <<t, p, e>>
      BY <3>1, <3>2, LentOnce
    <3>4. InLease(e) = {w} /\ InHand(e) = {}
      BY <2>1, <3>1 DEF IInv, HomeInv, HomeOK, Rests, Works, Travels, Gone, InLease
    <3>5. Lent' = Lent \ {<<t, p, e>>}
      <4>1. /\ \A l \in Places : l # w => lease[l].ex # e
            /\ \A u \in Threads : arg[u].ex # e
        BY <3>4 DEF InLease, InHand
      <4>2. lease[w].ex = e
        OBVIOUS
      <4> HIDE DEF w, p, e
      <4> QED
        BY <2>1, <2>2, <2>4, <3>2, <3>3, <4>1, <4>2, LentLoses
    <3>6. Loans!Return(t, p, e)
      BY <2>1, <2>4, <3>2, <3>5 DEF Loans!Return
    <3> QED
      BY <1>n, <3>1, <3>6
  <2> QED
    BY <2>3, <2>4
<1>10. ASSUME NEW t \in Threads, ReleaseTape(t)
       PROVE  [Loans!Next]_(Loans!vars)
  <2> DEFINE v == arg[t].var
             w == <<t, v>>
             x == lease[w].tape
  <2>1. /\ pc[t] = "tape" /\ w \in Places /\ free' = free
        /\ lease[w].ex = None /\ arg[t].ex = None
        /\ lease' = [lease EXCEPT ![w] = Empty]
        /\ arg' = [arg EXCEPT ![t] = Idle]
    BY <1>10 DEF ReleaseTape, Released, IInv, StepInv, StepOK, Places
  <2>2. Lent' = Lent
    BY <1>t, <2>1, LentSame DEF Empty, Idle
  <2>3. CASE x = None
    BY <1>10, <1>s, <2>1, <2>2, <2>3 DEF ReleaseTape, tls
  <2>4. CASE x # None /\ leases[x] # 1
    BY <1>10, <1>s, <2>1, <2>2, <2>4 DEF ReleaseTape, tls
  <2>5. CASE x # None /\ leases[x] = 1
    <3>1. current' = [current EXCEPT ![t] = None] /\ dirty' = dirty \ {x}
      BY <1>10, <2>5 DEF ReleaseTape
    <3>2. x \in Tapes
      BY <1>t, <2>1, <2>5
    <3>3. ~Loans!Works(t)
      BY <2>1, <2>5, <3>2, LastLeaseWorksNot DEF Loans!Works
    <3>4. current[t] = x
      <4>1. w \in Holders(x) /\ w[1] = t
        BY <2>1 DEF Holders
      <4> QED
        BY <3>2, <4>1 DEF IInv, TapeInv, TapeOK, Waits, Busy, Unmade, Serves
    <3>5. Loans!DropTape(t)
      BY <2>1, <2>2, <2>5, <3>1, <3>3, <3>4 DEF Loans!DropTape
    <3> QED
      BY <1>n, <3>5
  <2> QED
    BY <2>3, <2>4, <2>5
<1>11. CASE UNCHANGED vars
  <2>1. lease' = lease /\ arg' = arg
    BY <1>11 DEF vars
  <2> QED
    BY <1>11, <1>s, <2>1, LentSame DEF vars, tls
<1> QED
  BY <1>1, <1>2, <1>3, <1>5, <1>6, <1>7, <1>8, <1>9, <1>10, <1>11 DEF Next

(* Nothing exists, so nothing is lent. *)
LEMMA LoanInit == Init => Loans!Init
<1> SUFFICES ASSUME Init PROVE Loans!Init
  OBVIOUS
<1>1. Lent = {}
  BY DEF Init, Lent, InLeases, InAcquires, Empty, Idle
<1> QED
  BY <1>1 DEF Init, Loans!Init

(* The pools, with their locks, leases and tapes, are plain loans, for any   *)
(* number of threads, pools, executors and lease variables.                 *)
THEOREM ThePoolsLend == Spec => ImplementsLoans
<1>1. IInv /\ [Next]_vars => [Loans!Next]_(Loans!vars)
  BY LoanStep
<1> QED
  BY <1>1, LoanInit, Invariance, PTL DEF Spec, ImplementsLoans, Loans!Spec
=============================================================================
