--------------------------- MODULE ProdConsProofs ---------------------------
(***************************************************************************)
(* Proofs about ProdCons for any number of producers, consumers, slots and *)
(* items.                                                                  *)
(***************************************************************************)
EXTENDS ProdCons, FiniteSetTheorems, TLAPS

(* The n-th item is stored in slot n % NBUFF of round n \div NBUFF.          *)
Round(n) == n \div NBUFF

LEMMA Division ==
  ASSUME NEW n \in Nat
  PROVE  Round(n) \in Int /\ Slot(n) \in Int /\ n = NBUFF * Round(n) + Slot(n)
BY ProdConsAssumption DEF Round, Slot

(* Two items less than NBUFF apart never share a slot.                      *)
LEMMA SlotsDiffer ==
  ASSUME NEW a \in Nat, NEW b \in Nat, a < b, b - a < NBUFF
  PROVE  Slot(a) # Slot(b)
<1> SUFFICES ASSUME Slot(a) = Slot(b) PROVE FALSE
  OBVIOUS
<1>1. /\ Round(a) \in Int /\ Slot(a) \in Int /\ a = NBUFF * Round(a) + Slot(a)
      /\ Round(b) \in Int /\ Slot(b) \in Int /\ b = NBUFF * Round(b) + Slot(b)
  BY Division
<1>2. b - a = NBUFF * (Round(b) - Round(a))
  BY <1>1, ProdConsAssumption
<1>3. Round(b) - Round(a) >= 1
  BY <1>1, <1>2, ProdConsAssumption
<1>4. NBUFF * (Round(b) - Round(a)) >= NBUFF
  BY <1>1, <1>3, ProdConsAssumption
<1>5. QED
  BY <1>2, <1>4, ProdConsAssumption

LEMMA SlotInRange == ASSUME NEW a \in Nat PROVE Slot(a) \in Slots
BY ProdConsAssumption DEF Slot, Slots

-----------------------------------------------------------------------------
(* Threads of a kind that are at a label.                                   *)
In(S, label) == {t \in S : pc[t] = label}
Count(S, label) == Cardinality(In(S, label))

Kinds == {Producers, Consumers}
Labels == {"wait", "lock", "post", "done"}

LEMMA FiniteCounts ==
  ASSUME NEW S \in Kinds, NEW label
  PROVE  /\ IsFiniteSet(In(S, label)) /\ Count(S, label) \in Nat
         /\ In(S, label) # {} => Count(S, label) >= 1
         /\ In(S, label) = {} => Count(S, label) = 0
<1>1. IsFiniteSet(S) /\ In(S, label) \subseteq S
  BY ProdConsAssumption DEF Kinds, In
<1>2. IsFiniteSet(In(S, label))
  BY <1>1, FS_Subset
<1>3. QED
  BY <1>2, FS_CardinalityType, FS_EmptySet DEF Count

(* A thread that goes from one label to another is counted at the second    *)
(* and no longer at the first.                                              *)
LEMMA Move ==
  ASSUME TypeOK, NEW S \in Kinds, NEW t \in S, NEW from \in Labels, NEW to \in Labels,
         from # to, pc[t] = from, Goto(t, to)
  PROVE  /\ Count(S, to)' = Count(S, to) + 1
         /\ Count(S, from)' = Count(S, from) - 1
         /\ Count(S, from) >= 1
         /\ \A label \in Labels \ {from, to} : Count(S, label)' = Count(S, label)
<1>1. pc' = [pc EXCEPT ![t] = to] /\ S \subseteq DOMAIN pc
  BY DEF Goto, TypeOK, Threads, Kinds
<1>2. In(S, to)' = In(S, to) \union {t} /\ t \notin In(S, to)
  BY <1>1 DEF In
<1>3. In(S, from)' = In(S, from) \ {t} /\ t \in In(S, from)
  BY <1>1 DEF In
<1>4. \A label \in Labels \ {from, to} : In(S, label)' = In(S, label)
  BY <1>1 DEF In
<1>5. IsFiniteSet(In(S, to)) /\ IsFiniteSet(In(S, from)) /\ Count(S, from) >= 1
  BY <1>3, FiniteCounts
<1>6. Count(S, to)' = Count(S, to) + 1
  BY <1>2, <1>5, FS_AddElement DEF Count
<1>7. Count(S, from)' = Count(S, from) - 1
  BY <1>3, <1>5, FS_RemoveElement DEF Count
<1>8. QED
  BY <1>4, <1>5, <1>6, <1>7 DEF Count

(* The other kind of threads is not affected.                               *)
LEMMA NoMove ==
  ASSUME TypeOK, NEW S \in Kinds, NEW t \in Threads \ S, NEW to, Goto(t, to)
  PROVE  \A label \in Labels : Count(S, label)' = Count(S, label)
<1>1. \A label \in Labels : In(S, label)' = In(S, label)
  BY DEF Goto, TypeOK, Threads, Kinds, In
<1>2. QED
  BY <1>1 DEF Count

-----------------------------------------------------------------------------
(* Every slot is empty and free to claim, claimed by a producer about to    *)
(* store, full, or fetched and not yet given back.                          *)
SlotTokens ==
  nempty + Count(Producers, "lock") + (nput - nget) + Count(Consumers, "post") = NBUFF

(* Every stored item is announced or about to be, and every producer that   *)
(* stops announces one item more.                                           *)
ItemTokens ==
  nstored + Count(Consumers, "lock") + Count(Producers, "post")
    = (nput - nget) + Count(Producers, "done")

StoppedAtEnd == \A p \in Producers : pc[p] = "done" => nput = nitems

IInv ==
  /\ TypeOK /\ SlotTokens /\ ItemTokens /\ StoppedAtEnd
  /\ nget <= nput /\ NothingOverwritten

LEMMA InitIInv == Init => IInv
<1> SUFFICES ASSUME Init PROVE IInv
  OBVIOUS
<1> USE ProdConsAssumption DEF Init
<1>1. TypeOK
  BY DEF TypeOK
<1>2. \A S \in Kinds, label \in {"lock", "post", "done"} : In(S, label) = {}
  BY DEF In, Kinds, Threads
<1>3. \A S \in Kinds, label \in {"lock", "post", "done"} : Count(S, label) = 0
  BY <1>2, FS_EmptySet DEF Count
<1>4. SlotTokens /\ ItemTokens
  BY <1>3 DEF SlotTokens, ItemTokens, Kinds
<1>5. StoppedAtEnd /\ nget <= nput /\ NothingOverwritten
  BY DEF StoppedAtEnd, NothingOverwritten, Threads
<1>6. QED
  BY <1>1, <1>4, <1>5 DEF IInv

(* What IInv says to a producer that holds a slot and to a consumer that    *)
(* holds an item.                                                           *)
LEMMA HeldTokens ==
  ASSUME IInv
  PROVE  /\ \A p \in Producers : pc[p] = "lock" => nput - nget < NBUFF
         /\ \A c \in Consumers : pc[c] = "lock" /\ nget < nitems => nget < nput
<1> USE ProdConsAssumption DEF IInv
<1>1. /\ Count(Producers, "lock") \in Nat /\ Count(Producers, "post") \in Nat
      /\ Count(Consumers, "lock") \in Nat /\ Count(Consumers, "post") \in Nat
      /\ Count(Producers, "done") \in Nat
  BY FiniteCounts DEF Kinds
<1>2. nput \in Nat /\ nget \in Nat /\ nempty \in Nat /\ nstored \in Nat
  BY DEF TypeOK
<1>3. ASSUME NEW p \in Producers, pc[p] = "lock" PROVE nput - nget < NBUFF
  <2>1. Count(Producers, "lock") >= 1
    BY <1>3, FiniteCounts DEF Kinds, In
  <2>2. QED
    BY <1>1, <1>2, <2>1 DEF SlotTokens
<1>4. ASSUME NEW c \in Consumers, pc[c] = "lock", nget < nitems PROVE nget < nput
  <2>1. Count(Consumers, "lock") >= 1
    BY <1>4, FiniteCounts DEF Kinds, In
  <2>2. CASE \E p \in Producers : pc[p] = "done"
    BY <1>4, <2>2 DEF StoppedAtEnd
  <2>3. CASE \A p \in Producers : pc[p] # "done"
    <3>1. Count(Producers, "done") = 0
      BY <2>3, FiniteCounts DEF Kinds, In
    <3>2. QED
      BY <1>1, <1>2, <2>1, <3>1 DEF ItemTokens
  <2>4. QED
    BY <2>2, <2>3
<1>5. QED
  BY <1>3, <1>4

-----------------------------------------------------------------------------
(* The conjuncts of IInv other than the tokens, when only semaphores and    *)
(* program counters change.                                                 *)
LEMMA RingUnchanged ==
  ASSUME IInv, UNCHANGED <<buff, nput, nget>>
  PROVE  (nget <= nput)' /\ NothingOverwritten'
BY DEF IInv, NothingOverwritten, Slot

LEMMA ProduceKeepsIInv ==
  ASSUME IInv, NEW p \in Producers, produce(p)
  PROVE  IInv'
<1> USE ProdConsAssumption
<1>0. /\ TypeOK /\ SlotTokens /\ ItemTokens /\ StoppedAtEnd
      /\ nget <= nput /\ NothingOverwritten
      /\ nput \in Nat /\ nget \in Nat /\ nempty \in Nat /\ nstored \in Nat
  BY DEF IInv, TypeOK
<1>1. p \in Threads \ Consumers /\ Producers \in Kinds /\ Consumers \in Kinds
  BY DEF Threads, Kinds
<1>2. \A S \in Kinds, label \in Labels : Count(S, label) \in Nat
  BY FiniteCounts
<1>3. CASE ClaimEmpty(p)
  <2>1. /\ Goto(p, "lock") /\ pc[p] = "wait" /\ nempty' = nempty - 1 /\ nempty > 0
        /\ UNCHANGED <<buff, nput, nget, nstored>>
    BY <1>3 DEF ClaimEmpty
  <2>2. /\ Count(Producers, "lock")' = Count(Producers, "lock") + 1
        /\ Count(Producers, "post")' = Count(Producers, "post")
        /\ Count(Producers, "done")' = Count(Producers, "done")
        /\ \A label \in Labels : Count(Consumers, label)' = Count(Consumers, label)
    BY <1>0, <1>1, <2>1, Move, NoMove DEF Labels
  <2>3. TypeOK'
    BY <1>0, <1>1, <2>1 DEF TypeOK, Goto
  <2>4. SlotTokens' /\ ItemTokens'
    BY <1>0, <1>1, <1>2, <2>1, <2>2 DEF SlotTokens, ItemTokens, Labels
  <2>5. StoppedAtEnd'
    BY <1>0, <1>1, <2>1 DEF StoppedAtEnd, Goto, TypeOK
  <2>6. QED
    BY <2>1, <2>3, <2>4, <2>5, RingUnchanged DEF IInv
<1>4. CASE Put(p)
  <2>1. /\ Goto(p, "post") /\ pc[p] = "lock" /\ nput < nitems /\ nput' = nput + 1
        /\ buff' = [buff EXCEPT ![Slot(nput)] = nput]
        /\ UNCHANGED <<nget, nempty, nstored>>
    BY <1>4 DEF Put
  <2>2. /\ Count(Producers, "lock")' = Count(Producers, "lock") - 1
        /\ Count(Producers, "post")' = Count(Producers, "post") + 1
        /\ Count(Producers, "done")' = Count(Producers, "done")
        /\ \A label \in Labels : Count(Consumers, label)' = Count(Consumers, label)
    BY <1>0, <1>1, <2>1, Move, NoMove DEF Labels
  <2>3. TypeOK'
    <3>1. buff \in [Slots -> Int] /\ nput \in Int
      BY <1>0 DEF TypeOK
    <3>2. buff' \in [Slots -> Int]
      BY <2>1, <3>1
    <3>3. nput' \in 0..nitems
      BY <1>0, <2>1
    <3>4. QED
      BY <1>0, <1>1, <2>1, <3>2, <3>3 DEF TypeOK, Goto
  <2>4. SlotTokens' /\ ItemTokens'
    BY <1>0, <1>1, <1>2, <2>1, <2>2 DEF SlotTokens, ItemTokens, Labels
  <2>5. StoppedAtEnd'
    BY <1>0, <1>1, <2>1 DEF StoppedAtEnd, Goto, TypeOK
  <2>6. nput - nget < NBUFF
    BY <2>1, HeldTokens
  <2>7. buff'[Slot(nput)] = nput
    BY <1>0, <2>1, SlotInRange DEF TypeOK
  <2>8. ASSUME NEW n \in nget..(nput - 1) PROVE buff'[Slot(n)] = n
    <3>1. n \in Nat /\ n < nput /\ nput - n < NBUFF
      BY <1>0, <2>6
    <3>2. Slot(n) # Slot(nput) /\ Slot(n) \in Slots
      BY <1>0, <3>1, SlotsDiffer, SlotInRange
    <3>3. buff[Slot(n)] = n
      BY <1>0 DEF NothingOverwritten
    <3>4. QED
      BY <1>0, <2>1, <3>2, <3>3 DEF TypeOK
  <2>9. NothingOverwritten'
    <3>1. nput' - nget' <= NBUFF
      BY <1>0, <2>1, <2>6
    <3>2. ASSUME NEW n \in nget..nput PROVE buff'[Slot(n)] = n
      <4>1. n = nput \/ n \in nget..(nput - 1)
        BY <1>0
      <4>2. QED
        BY <2>7, <2>8, <4>1
    <3>3. nget'..(nput' - 1) = nget..nput
      BY <1>0, <2>1
    <3>4. QED
      BY <3>1, <3>2, <3>3 DEF NothingOverwritten, Slot
  <2>10. (nget <= nput)'
    BY <1>0, <2>1
  <2>11. QED
    BY <2>3, <2>4, <2>5, <2>9, <2>10 DEF IInv
<1>5. CASE PostStored(p)
  <2>1. /\ Goto(p, "wait") /\ pc[p] = "post" /\ nstored' = nstored + 1
        /\ UNCHANGED <<buff, nput, nget, nempty>>
    BY <1>5 DEF PostStored
  <2>2. /\ Count(Producers, "post")' = Count(Producers, "post") - 1
        /\ Count(Producers, "lock")' = Count(Producers, "lock")
        /\ Count(Producers, "done")' = Count(Producers, "done")
        /\ \A label \in Labels : Count(Consumers, label)' = Count(Consumers, label)
    BY <1>0, <1>1, <2>1, Move, NoMove DEF Labels
  <2>3. TypeOK'
    BY <1>0, <1>1, <2>1 DEF TypeOK, Goto
  <2>4. SlotTokens' /\ ItemTokens'
    BY <1>0, <1>1, <1>2, <2>1, <2>2 DEF SlotTokens, ItemTokens, Labels
  <2>5. StoppedAtEnd'
    BY <1>0, <1>1, <2>1 DEF StoppedAtEnd, Goto, TypeOK
  <2>6. QED
    BY <2>1, <2>3, <2>4, <2>5, RingUnchanged DEF IInv
<1>6. CASE ProducerDone(p)
  <2>1. /\ Goto(p, "done") /\ pc[p] = "lock" /\ nput >= nitems
        /\ nstored' = nstored + 1 /\ nempty' = nempty + 1
        /\ UNCHANGED <<buff, nput, nget>>
    BY <1>6 DEF ProducerDone
  <2>2. /\ Count(Producers, "lock")' = Count(Producers, "lock") - 1
        /\ Count(Producers, "post")' = Count(Producers, "post")
        /\ Count(Producers, "done")' = Count(Producers, "done") + 1
        /\ \A label \in Labels : Count(Consumers, label)' = Count(Consumers, label)
    BY <1>0, <1>1, <2>1, Move, NoMove DEF Labels
  <2>3. TypeOK'
    BY <1>0, <1>1, <2>1 DEF TypeOK, Goto
  <2>4. SlotTokens' /\ ItemTokens'
    BY <1>0, <1>1, <1>2, <2>1, <2>2 DEF SlotTokens, ItemTokens, Labels
  <2>5. nput = nitems
    BY <1>0, <2>1 DEF TypeOK
  <2>6. StoppedAtEnd'
    BY <2>1, <2>5 DEF StoppedAtEnd
  <2>7. QED
    BY <2>1, <2>3, <2>4, <2>6, RingUnchanged DEF IInv
<1>7. QED
  BY <1>3, <1>4, <1>5, <1>6 DEF produce

LEMMA ConsumeKeepsIInv ==
  ASSUME IInv, NEW c \in Consumers, consume(c)
  PROVE  IInv'
<1> USE ProdConsAssumption
<1>0. /\ TypeOK /\ SlotTokens /\ ItemTokens /\ StoppedAtEnd
      /\ nget <= nput /\ NothingOverwritten
      /\ nput \in Nat /\ nget \in Nat /\ nempty \in Nat /\ nstored \in Nat
  BY DEF IInv, TypeOK
<1>1. c \in Threads \ Producers /\ Producers \in Kinds /\ Consumers \in Kinds
  BY DEF Threads, Kinds
<1>2. \A S \in Kinds, label \in Labels : Count(S, label) \in Nat
  BY FiniteCounts
<1>3. ASSUME NEW to \in {"wait", "lock", "post", "done"}, Goto(c, to), UNCHANGED nput
      PROVE  StoppedAtEnd'
  BY <1>0, <1>1, <1>3 DEF StoppedAtEnd, Goto, TypeOK, Threads
<1>4. CASE ClaimStored(c)
  <2>1. /\ Goto(c, "lock") /\ pc[c] = "wait" /\ nstored' = nstored - 1 /\ nstored > 0
        /\ UNCHANGED <<buff, nput, nget, nempty>>
    BY <1>4 DEF ClaimStored
  <2>2. /\ Count(Consumers, "lock")' = Count(Consumers, "lock") + 1
        /\ Count(Consumers, "post")' = Count(Consumers, "post")
        /\ \A label \in Labels : Count(Producers, label)' = Count(Producers, label)
    BY <1>0, <1>1, <2>1, Move, NoMove DEF Labels
  <2>3. TypeOK'
    BY <1>0, <1>1, <2>1 DEF TypeOK, Goto
  <2>4. SlotTokens' /\ ItemTokens'
    BY <1>0, <1>1, <1>2, <2>1, <2>2 DEF SlotTokens, ItemTokens, Labels
  <2>5. QED
    BY <1>3, <2>1, <2>3, <2>4, RingUnchanged DEF IInv
<1>5. CASE Get(c)
  <2>1. /\ Goto(c, "post") /\ pc[c] = "lock" /\ nget < nitems /\ nget' = nget + 1
        /\ UNCHANGED <<buff, nput, nempty, nstored>>
    BY <1>5 DEF Get
  <2>2. /\ Count(Consumers, "lock")' = Count(Consumers, "lock") - 1
        /\ Count(Consumers, "post")' = Count(Consumers, "post") + 1
        /\ \A label \in Labels : Count(Producers, label)' = Count(Producers, label)
    BY <1>0, <1>1, <2>1, Move, NoMove DEF Labels
  <2>3. TypeOK'
    <3>1. nget' \in 0..nitems
      BY <1>0, <2>1
    <3>2. QED
      BY <1>0, <1>1, <2>1, <3>1 DEF TypeOK, Goto
  <2>4. SlotTokens' /\ ItemTokens'
    BY <1>0, <1>1, <1>2, <2>1, <2>2 DEF SlotTokens, ItemTokens, Labels
  <2>5. nget < nput
    BY <2>1, HeldTokens
  <2>6. (nget <= nput)'
    BY <1>0, <2>1, <2>5
  <2>7. NothingOverwritten'
    <3>1. nput' - nget' <= NBUFF
      BY <1>0, <2>1 DEF NothingOverwritten
    <3>2. nget'..(nput' - 1) \subseteq nget..(nput - 1)
      BY <1>0, <2>1
    <3>3. QED
      BY <1>0, <2>1, <3>1, <3>2 DEF NothingOverwritten, Slot
  <2>8. QED
    BY <1>3, <2>1, <2>3, <2>4, <2>6, <2>7 DEF IInv
<1>6. CASE PostEmpty(c)
  <2>1. /\ Goto(c, "wait") /\ pc[c] = "post" /\ nempty' = nempty + 1
        /\ UNCHANGED <<buff, nput, nget, nstored>>
    BY <1>6 DEF PostEmpty
  <2>2. /\ Count(Consumers, "post")' = Count(Consumers, "post") - 1
        /\ Count(Consumers, "lock")' = Count(Consumers, "lock")
        /\ \A label \in Labels : Count(Producers, label)' = Count(Producers, label)
    BY <1>0, <1>1, <2>1, Move, NoMove DEF Labels
  <2>3. TypeOK'
    BY <1>0, <1>1, <2>1 DEF TypeOK, Goto
  <2>4. SlotTokens' /\ ItemTokens'
    BY <1>0, <1>1, <1>2, <2>1, <2>2 DEF SlotTokens, ItemTokens, Labels
  <2>5. QED
    BY <1>3, <2>1, <2>3, <2>4, RingUnchanged DEF IInv
<1>7. CASE ConsumerDone(c)
  <2>1. /\ Goto(c, "done") /\ pc[c] = "lock" /\ nstored' = nstored + 1
        /\ UNCHANGED <<buff, nput, nget, nempty>>
    BY <1>7 DEF ConsumerDone
  <2>2. /\ Count(Consumers, "lock")' = Count(Consumers, "lock") - 1
        /\ Count(Consumers, "post")' = Count(Consumers, "post")
        /\ \A label \in Labels : Count(Producers, label)' = Count(Producers, label)
    BY <1>0, <1>1, <2>1, Move, NoMove DEF Labels
  <2>3. TypeOK'
    BY <1>0, <1>1, <2>1 DEF TypeOK, Goto
  <2>4. SlotTokens' /\ ItemTokens'
    BY <1>0, <1>1, <1>2, <2>1, <2>2 DEF SlotTokens, ItemTokens, Labels
  <2>5. QED
    BY <1>3, <2>1, <2>3, <2>4, RingUnchanged DEF IInv
<1>8. QED
  BY <1>4, <1>5, <1>6, <1>7 DEF consume

LEMMA StutterKeepsIInv == ASSUME IInv, UNCHANGED vars PROVE IInv'
<1>1. \A S \in Kinds, label \in Labels : In(S, label)' = In(S, label)
  BY DEF vars, In
<1>2. \A S \in Kinds, label \in Labels : Count(S, label)' = Count(S, label)
  BY <1>1 DEF Count
<1>3. SlotTokens' /\ ItemTokens'
  BY <1>2 DEF IInv, SlotTokens, ItemTokens, vars, Kinds, Labels
<1>4. TypeOK' /\ StoppedAtEnd'
  BY DEF IInv, TypeOK, StoppedAtEnd, vars
<1>5. QED
  BY <1>3, <1>4, RingUnchanged DEF IInv, vars

(* The inductive invariant holds in every reachable state.                  *)
THEOREM Invariance == Spec => []IInv
<1>1. IInv /\ [Next]_vars => IInv'
  BY ProduceKeepsIInv, ConsumeKeepsIInv, StutterKeepsIInv DEF Next, Joined
<1>2. QED
  BY InitIInv, <1>1, PTL DEF Spec

(* produce never stores into a slot whose item has not been fetched.        *)
THEOREM RingKeepsItems == Spec => []NothingOverwritten
BY Invariance, PTL DEF IInv

(* consume never fetches before the item it expects has been stored, not    *)
(* even with a token posted by a producer that stopped: the comparison of   *)
(* buff with ngetval never finds a difference.                              *)
THEOREM ConsumersFetchInOrder == Spec => []FetchesExpectedItem
<1>1. IInv => FetchesExpectedItem
  <2> SUFFICES ASSUME IInv, NEW c \in Consumers, pc[c] = "lock", nget < nitems
               PROVE  nget < nput /\ buff[Slot(nget)] = nget
    BY DEF FetchesExpectedItem
  <2>1. nget < nput
    BY HeldTokens
  <2>2. nget \in nget..(nput - 1)
    BY <2>1, ProdConsAssumption DEF IInv, TypeOK
  <2>3. QED
    BY <2>1, <2>2 DEF IInv, NothingOverwritten
<1>2. QED
  BY Invariance, <1>1, PTL
=============================================================================
