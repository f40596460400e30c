--------------------------- MODULE SelectionProofs ---------------------------
(***************************************************************************)
(* Proofs about Selection, for any volumes, nodes, sizes and groups: the   *)
(* lock around target_selecting makes its checks still true when the       *)
(* target is written, so the caps hold and what was free at the choice is  *)
(* not given away; a group keeps its destination, so a volume that sees    *)
(* all its siblings joins them.                                            *)
(*                                                                         *)
(* That a reservation is a natural number, which is what the ledger owes   *)
(* the choice, takes well-founded induction on the subsets of a finite     *)
(* set: among the sets whose sum is none there would be a least one.       *)
(***************************************************************************)
EXTENDS Selection, FiniteSetTheorems, WellFoundedInduction, TLAPS

-----------------------------------------------------------------------------
(* Sums over a finite set *)

(* The element that the sum over a set takes first.                        *)
First(s) == CHOOSE x \in s : TRUE
Unrolled(f, S, g) ==
  g = [s \in SUBSET S |-> IF s = {} THEN 0 ELSE f[First(s)] + g[s \ {First(s)}]]

(* Induction over the subsets of a finite set: there is a least one among  *)
(* those that are not as they should be.                                   *)
LEMMA LeastSubset ==
  ASSUME NEW S, IsFiniteSet(S), NEW B, B \subseteq SUBSET S, B # {}
  PROVE  \E T \in B : \A U \in B : U \subseteq T => U = T
<1>1. B \subseteq FiniteSubsetsOf(S)
  BY FS_Subset DEF FiniteSubsetsOf
<1>2. PICK T \in B : \A U \in B : ~(<<U, T>> \in StrictSubsetOrdering(S))
  BY <1>1, FS_StrictSubsetOrderingWellFounded, WFMin
<1>3. ASSUME NEW U \in B, U \subseteq T PROVE U = T
  BY <1>2, <1>3 DEF StrictSubsetOrdering
<1> QED BY <1>3

LEMMA SumChosen == ASSUME NEW f, NEW S PROVE SumFunctionOnSet(f, S) = (CHOOSE g : Unrolled(f, S, g))[S]
  BY DEF SumFunctionOnSet, FoldFunctionOnSet, MapThenFoldSet, Unrolled, First

LEMMA FirstIn == ASSUME NEW s, s # {} PROVE First(s) \in s
  BY DEF First

LEMMA SumUnrolls ==
  ASSUME NEW f, NEW S, IsFiniteSet(S)
  PROVE  SumFunctionOnSet(f, S) = IF S = {} THEN 0 ELSE f[First(S)] + SumFunctionOnSet(f, S \ {First(S)})
<1> DEFINE h(V) == [s \in SUBSET V |-> SumFunctionOnSet(f, s)]
           B == {V \in SUBSET S : ~(\A g : Unrolled(f, V, g) <=> g = h(V))}
<1>1. ASSUME B # {} PROVE FALSE
  <2>0. B \subseteq SUBSET S
    OBVIOUS
  <2>1. PICK V \in B : \A U \in B : U \subseteq V => U = V
    <3> HIDE DEF B
    <3> QED BY <1>1, <2>0, LeastSubset
  <2>2. ASSUME NEW W \in SUBSET V, W # V
        PROVE \A g : Unrolled(f, W, g) <=> g = h(W)
    BY <2>1, <2>2
  <2> DEFINE rec(s) == IF s = {} THEN 0 ELSE f[First(s)] + SumFunctionOnSet(f, s \ {First(s)})
             k == [s \in SUBSET V |-> rec(s)]
  <2>3. ASSUME NEW W \in SUBSET V, W # V
        PROVE SumFunctionOnSet(f, W) = rec(W)
    <3>1. Unrolled(f, W, h(W))
      BY <2>2, <2>3
    <3>2. h(W)[W] = IF W = {} THEN 0 ELSE f[First(W)] + h(W)[W \ {First(W)}]
      BY <3>1, Zenon DEF Unrolled
    <3> QED BY <3>2
  <2>4. ASSUME NEW g, Unrolled(f, V, g) PROVE g = k
    <3>1. ASSUME NEW W \in SUBSET V, W # V PROVE g[W] = SumFunctionOnSet(f, W)
      <4> DEFINE r == [s \in SUBSET W |-> g[s]]
      <4>1. ASSUME NEW s \in SUBSET W PROVE r[s] = IF s = {} THEN 0 ELSE f[First(s)] + r[s \ {First(s)}]
        <5>1. g[s] = IF s = {} THEN 0 ELSE f[First(s)] + g[s \ {First(s)}]
          BY <2>4 DEF Unrolled
        <5> QED BY <5>1
      <4>2. Unrolled(f, W, r)
        BY <4>1 DEF Unrolled
      <4>3. r = h(W)
        BY <4>2, <3>1, <2>2
      <4>4. r[W] = h(W)[W]
        BY <4>3
      <4> QED BY <4>4
    <3>2. ASSUME NEW s \in SUBSET V PROVE g[s] = rec(s)
      <4>1. g[s] = IF s = {} THEN 0 ELSE f[First(s)] + g[s \ {First(s)}]
        BY <2>4 DEF Unrolled
      <4>2. s # {} => s \ {First(s)} \in SUBSET V /\ s \ {First(s)} # V
        BY FirstIn
      <4> QED BY <4>1, <4>2, <3>1
    <3>3. g = [s \in SUBSET V |-> g[s]]
      BY <2>4 DEF Unrolled
    <3> QED BY <3>2, <3>3
  <2>5. Unrolled(f, V, k)
    <3>1. ASSUME NEW s \in SUBSET V PROVE k[s] = IF s = {} THEN 0 ELSE f[First(s)] + k[s \ {First(s)}]
      <4>1. s # {} => s \ {First(s)} \in SUBSET V /\ s \ {First(s)} # V
        BY FirstIn
      <4>2. s # {} => k[s \ {First(s)}] = SumFunctionOnSet(f, s \ {First(s)})
        BY <4>1, <2>3
      <4> QED BY <4>2
    <3> QED BY <3>1 DEF Unrolled
  <2>6. (CHOOSE g : Unrolled(f, V, g)) = k
    <3>1. Unrolled(f, V, CHOOSE g : Unrolled(f, V, g))
      BY <2>5, Zenon
    <3> QED BY <3>1, <2>4
  <2>7. SumFunctionOnSet(f, V) = rec(V)
    BY <2>6, SumChosen
  <2>8. k = h(V)
    BY <2>3, <2>7
  <2>9. \A g : Unrolled(f, V, g) <=> g = h(V)
    BY <2>4, <2>5, <2>8
  <2> QED BY <2>9
<1>2. Unrolled(f, S, h(S))
  BY <1>1
<1>3. h(S)[S] = IF S = {} THEN 0 ELSE f[First(S)] + h(S)[S \ {First(S)}]
  BY <1>2, Zenon DEF Unrolled
<1> QED BY <1>3

(* A sum of naturals is one.                                               *)
LEMMA SumNat ==
  ASSUME NEW S, IsFiniteSet(S), NEW f \in [S -> Nat]
  PROVE  \A T \in SUBSET S : SumFunctionOnSet(f, T) \in Nat
<1> DEFINE B == {T \in SUBSET S : SumFunctionOnSet(f, T) \notin Nat}
<1>1. ASSUME B # {} PROVE FALSE
  <2>1. B \subseteq SUBSET S
    OBVIOUS
  <2>2. PICK T \in B : \A U \in B : U \subseteq T => U = T
    <3> HIDE DEF B
    <3> QED BY <1>1, <2>1, LeastSubset
  <2>3. SumFunctionOnSet(f, T) = IF T = {} THEN 0 ELSE f[First(T)] + SumFunctionOnSet(f, T \ {First(T)})
    BY <2>2, SumUnrolls, FS_Subset
  <2>4. T # {} /\ First(T) \in T
    BY <2>2, <2>3, FirstIn
  <2>5. SumFunctionOnSet(f, T \ {First(T)}) \in Nat
    BY <2>2, <2>4
  <2> QED BY <2>2, <2>3, <2>4, <2>5
<1> QED BY <1>1

-----------------------------------------------------------------------------
(* The caps *)

(* The records target_selecting keeps.                                     *)
LEMMA IdleType == Idle \in SelType /\ Idle.pc = "idle"
  BY SelectionAssumption DEF Idle, SelType, Place

(* A step that moves the evacuation of v on, or gives it up, outside of    *)
(* target_selecting: it makes no node busier, so everything stays true.    *)
LEMMA Retreat ==
  ASSUME Capped, TypeOK', UNCHANGED sel, NEW v \in Vol, sel[v].pc = "idle",
         \A u \in Vol \ {v} : phase'[u] = phase[u] /\ target'[u] = target[u] /\ owner'[u] = owner[u],
         Receiving(v)' => Receiving(v) /\ target'[v] = target[v],
         Sending(v)' => Sending(v) /\ owner'[v] = owner[v],
         phase'[v] \in {"none", "selecting"} => target'[v] = NoNode,
         phase'[v] \notin {"none", "selecting", "aborting", "failed"} => target'[v] \in Node
  PROVE  Capped'
<1>1. ASSUME NEW u \in Vol, Receiving(u)' PROVE Receiving(u) /\ target'[u] = target[u]
  BY <1>1 DEF Receiving
<1>2. ASSUME NEW u \in Vol, Sending(u)' PROVE Sending(u) /\ owner'[u] = owner[u]
  BY <1>2 DEF Sending
<1>3. Exclusive'
  BY DEF Capped, Exclusive
<1>4. Checked'
  <2>. SUFFICES ASSUME NEW u \in Vol, sel[u].pc # "idle"
                PROVE  /\ phase'[u] = "selecting" /\ ~BusySource(u)'
                       /\ sel[u].pc = "placed" => sel[u].choice \in Node /\ ~BusyTarget(u, sel[u].choice)'
    BY DEF Checked
  <2>1. /\ phase[u] = "selecting" /\ ~BusySource(u)
        /\ sel[u].pc = "placed" => sel[u].choice \in Node /\ ~BusyTarget(u, sel[u].choice)
    BY DEF Capped, Checked
  <2>2. phase'[u] = phase[u] /\ owner'[u] = owner[u]
    OBVIOUS
  <2>3. ~BusySource(u)'
    BY <1>2, <2>1, <2>2 DEF BusySource, Sending
  <2>4. ASSUME NEW n, ~BusyTarget(u, n) PROVE ~BusyTarget(u, n)'
    BY <1>1, <2>4 DEF BusyTarget
  <2>. QED
    BY <2>1, <2>2, <2>3, <2>4
<1>5. Targeted'
  BY DEF Capped, Targeted
<1>6. OneInbound'
  BY <1>1 DEF Capped, OneInbound
<1>7. OneOutbound'
  BY <1>2 DEF Capped, OneOutbound
<1>. QED
  BY <1>3, <1>4, <1>5, <1>6, <1>7 DEF Capped

(* A step inside target_selecting that only reads.                         *)
LEMMA ReadStep ==
  ASSUME Capped, NEW v \in Vol, NEW q \in SelType, sel' = [sel EXCEPT ![v] = q],
         UNCHANGED <<phase, target, hold, owner, free, report, blind>>, misled' \subseteq Vol,
         \/ q.pc = "idle"
         \/ /\ \A u \in Vol \ {v} : sel[u].pc = "idle"
            /\ phase[v] = "selecting" /\ ~BusySource(v)
            /\ q.pc = "placed" => q.choice \in Node /\ ~BusyTarget(v, q.choice)
  PROVE  Capped'
<1>1. TypeOK'
  BY DEF Capped, TypeOK
<1>2. sel'[v] = q /\ \A u \in Vol \ {v} : sel'[u] = sel[u]
  BY DEF Capped, TypeOK
<1>3. Exclusive'
  BY <1>2 DEF Capped, Exclusive
<1>4. ASSUME NEW u \in Vol, NEW n PROVE (BusySource(u)' <=> BusySource(u)) /\ (BusyTarget(u, n)' <=> BusyTarget(u, n))
  BY DEF BusySource, BusyTarget, Receiving
<1>5. Checked'
  <2>. SUFFICES ASSUME NEW u \in Vol, sel'[u].pc # "idle"
                PROVE  /\ phase[u] = "selecting" /\ ~BusySource(u)
                       /\ sel'[u].pc = "placed" => sel'[u].choice \in Node /\ ~BusyTarget(u, sel'[u].choice)
    BY <1>4 DEF Checked
  <2>1. CASE u = v
    BY <1>2, <2>1
  <2>2. CASE u # v
    BY <1>2, <2>2 DEF Capped, Checked
  <2>. QED
    BY <2>1, <2>2
<1>6. Targeted' /\ OneInbound' /\ OneOutbound'
  BY DEF Capped, Targeted, OneInbound, OneOutbound, Receiving, Sending
<1>. QED
  BY <1>1, <1>3, <1>5, <1>6 DEF Capped

LEMMA PickType == ASSUME TypeOK, NEW v \in Vol PROVE PickAnchor(v) \subseteq Place
<1>1. \A m \in Vol : AnchorOf(v, m) \in Place
  BY SelectionAssumption DEF TypeOK, AnchorOf, Place
<1>2. Anchored(v) \subseteq Vol
  BY SelectionAssumption DEF Anchored, Found
<1>. QED
  BY <1>1, <1>2 DEF PickAnchor, Place

LEMMA InitCapped == Init => Capped
<1>. SUFFICES ASSUME Init PROVE Capped
  OBVIOUS
<1>1. TypeOK
  BY IdleType, SelectionAssumption DEF Init, TypeOK, Phase, Place
<1>2. Exclusive /\ Checked /\ Targeted
  BY IdleType DEF Init, Exclusive, Checked, Targeted
<1>3. OneInbound /\ OneOutbound
  BY DEF Init, OneInbound, OneOutbound, Receiving, Sending
<1>. QED
  BY <1>1, <1>2, <1>3 DEF Capped

(* What Resolve writes down.                                               *)
Resolved(v, n) ==
  [Idle EXCEPT !.pc = "resolved", !.members = Members(v), !.anchor = n, !.missed = (Found(v) # Group[v])]

LEMMA ResolvedType ==
  ASSUME TypeOK, NEW v \in Vol, NEW n \in PickAnchor(v)
  PROVE  /\ Resolved(v, n) \in SelType
         /\ Resolved(v, n).pc = "resolved" /\ Resolved(v, n).anchor = n
         /\ Resolved(v, n).missed <=> Found(v) # Group[v]
<1>1. NoNode \in Place /\ n \in Place /\ Members(v) \in SUBSET Vol
  BY PickType, SelectionAssumption DEF Members, Found, Place
<1>2. ASSUME NEW M \in SUBSET Vol, NEW lacks \in BOOLEAN,
             NEW r, r = [Idle EXCEPT !.pc = "resolved", !.members = M, !.anchor = n, !.missed = lacks]
      PROVE  r \in SelType /\ r.pc = "resolved" /\ r.anchor = n /\ (r.missed <=> lacks)
  <2>1. r = [pc |-> "resolved", members |-> M, anchor |-> n, missed |-> lacks, choice |-> NoNode]
    BY <1>2 DEF Idle
  <2>. QED
    BY <1>1, <2>1 DEF SelType
<1>. QED
  BY <1>1, <1>2 DEF Resolved

(* What Select reads and chooses.                                          *)
LEMMA SelectReads ==
  ASSUME NEW v \in Vol, Select(v)
  PROVE  /\ sel[v].pc = "resolved" /\ UNCHANGED <<phase, target, hold, owner, free, report, blind>>
         /\ misled' \in {misled, misled \ {v}, misled \cup {v}}
         /\ \E ready \in SUBSET Node :
              \/ sel' = [sel EXCEPT ![v] = Idle]
              \/ \E n \in Candidates(v, sel[v], ready) :
                   /\ sel' = [sel EXCEPT ![v].pc = "placed", ![v].choice = n]
                   /\ v \notin misled' => report[n] <= free[n]
<1>. DEFINE Chosen(n, C) == /\ \A k \in C : Left(v, n) >= Left(v, k)
                            /\ sel' = [sel EXCEPT ![v].pc = "placed", ![v].choice = n]
                            /\ misled' = IF report[n] <= free[n] THEN misled \ {v} ELSE misled \cup {v}
<1>1. /\ sel[v].pc = "resolved" /\ UNCHANGED <<phase, target, hold, owner, free, report, blind>>
      /\ \E ready \in IF Flapping THEN SUBSET Node ELSE {Node} :
           \/ Candidates(v, sel[v], ready) = {} /\ sel' = [sel EXCEPT ![v] = Idle] /\ UNCHANGED misled
           \/ \E n \in Candidates(v, sel[v], ready) : Chosen(n, Candidates(v, sel[v], ready))
  BY DEF Select
<1>2. PICK ready \in SUBSET Node :
        \/ Candidates(v, sel[v], ready) = {} /\ sel' = [sel EXCEPT ![v] = Idle] /\ UNCHANGED misled
        \/ \E n \in Candidates(v, sel[v], ready) : Chosen(n, Candidates(v, sel[v], ready))
  BY <1>1
<1>3. ASSUME NEW n, NEW C, Chosen(n, C)
      PROVE  /\ misled' \in {misled, misled \ {v}, misled \cup {v}}
             /\ sel' = [sel EXCEPT ![v].pc = "placed", ![v].choice = n]
             /\ v \notin misled' => report[n] <= free[n]
  BY <1>3
<1>. HIDE DEF Chosen
<1>. QED
  BY <1>1, <1>2, <1>3

(* The steps of target_selecting.                                          *)
LEMMA SelectingCapped == ASSUME Capped, NEW v \in Vol, Selecting(v) \/ GiveUp(v) PROVE Capped'
<1>. USE DEF Capped
<1>1. sel \in [Vol -> SelType] /\ sel[v] \in SelType
  BY DEF TypeOK
<1>2. CASE Caps(v)
  <2>. DEFINE q == [sel[v] EXCEPT !.pc = "capped"]
  <2>1. q \in SelType /\ q.pc = "capped"
    BY <1>1 DEF SelType
  <2>2. sel' = [sel EXCEPT ![v] = q]
    BY <1>1, <1>2 DEF Caps
  <2>3. \A u \in Vol : sel[u].pc = "idle"
    BY <1>2 DEF Caps, Locked
  <2>4. UNCHANGED <<phase, target, hold, owner, free, report, blind, misled>> /\ phase[v] = "selecting" /\ ~BusySource(v)
    BY <1>2 DEF Caps, history
  <2>. HIDE DEF q
  <2>. QED
    BY <2>1, <2>2, <2>3, <2>4, ReadStep DEF TypeOK
<1>3. ASSUME sel[v].pc # "idle"
      PROVE  /\ \A u \in Vol \ {v} : sel[u].pc = "idle"
             /\ phase[v] = "selecting" /\ ~BusySource(v)
  BY <1>3 DEF Exclusive, Checked
<1>4. CASE Resolve(v)
  <2>1. PICK n \in PickAnchor(v) : sel' = [sel EXCEPT ![v] = Resolved(v, n)]
    BY <1>4 DEF Resolve, Resolved
  <2>2. Resolved(v, n) \in SelType /\ Resolved(v, n).pc = "resolved"
    BY ResolvedType
  <2>3. UNCHANGED <<phase, target, hold, owner, free, report, blind, misled>> /\ sel[v].pc = "capped"
    BY <1>4 DEF Resolve, history
  <2>. QED
    BY <1>3, <2>1, <2>2, <2>3, ReadStep DEF TypeOK
<1>5. CASE Select(v)
  <2>1. /\ UNCHANGED <<phase, target, hold, owner, free, report, blind>> /\ sel[v].pc = "resolved"
        /\ misled' \in {misled, misled \ {v}, misled \cup {v}}
    BY <1>5, SelectReads
  <2>0. misled' \subseteq Vol
    BY <2>1 DEF TypeOK
  <2>2. CASE sel' = [sel EXCEPT ![v] = Idle]
    BY <2>0, <2>1, <2>2, IdleType, ReadStep
  <2>3. ASSUME NEW n \in Node, ~BusyTarget(v, n),
               sel' = [sel EXCEPT ![v].pc = "placed", ![v].choice = n]
        PROVE  Capped'
    <3>. DEFINE q == [sel[v] EXCEPT !.pc = "placed", !.choice = n]
    <3>1. q \in SelType /\ q.pc = "placed" /\ q.choice = n
      BY <1>1 DEF SelType, Place
    <3>2. sel' = [sel EXCEPT ![v] = q]
      BY <1>1, <2>3
    <3>. HIDE DEF q
    <3>. QED
      BY <1>3, <2>0, <2>1, <2>3, <3>1, <3>2, ReadStep
  <2>4. \A ready \in SUBSET Node : \A n \in Candidates(v, sel[v], ready) : n \in Node /\ ~BusyTarget(v, n)
    BY SelectionAssumption DEF Candidates
  <2>5. PICK ready \in SUBSET Node :
          \/ sel' = [sel EXCEPT ![v] = Idle]
          \/ \E n \in Candidates(v, sel[v], ready) : sel' = [sel EXCEPT ![v].pc = "placed", ![v].choice = n]
    BY <1>5, SelectReads
  <2>. QED
    BY <2>2, <2>3, <2>4, <2>5
<1>6. CASE GiveUp(v)
  BY <1>6, IdleType, ReadStep DEF GiveUp, history, TypeOK
<1>7. CASE Write(v)
  <2>1. /\ sel[v].pc = "placed" /\ phase[v] = "selecting" /\ ~BusySource(v)
        /\ sel[v].choice \in Node /\ ~BusyTarget(v, sel[v].choice)
        /\ \A u \in Vol \ {v} : sel[u].pc = "idle"
    BY <1>3, <1>7 DEF Write, Checked
  <2>2. /\ phase'[v] = "transferring" /\ target'[v] = sel[v].choice /\ sel'[v] = Idle
        /\ owner' = owner
        /\ \A u \in Vol \ {v} : phase'[u] = phase[u] /\ target'[u] = target[u] /\ sel'[u] = sel[u]
    BY <1>7 DEF Write, TypeOK
  <2>3. TypeOK'
    <3>1. blind' \in {blind, blind \cup {v}} /\ misled' = misled
      BY <1>7 DEF Write
    <3>2. blind' \subseteq Vol /\ misled' \subseteq Vol
      BY <3>1 DEF TypeOK
    <3>. QED
      BY <1>1, <1>7, <2>1, <3>2, IdleType DEF Write, TypeOK, Phase, Place, SelType
  <2>4. Exclusive' /\ Checked'
    BY <2>1, <2>2, IdleType DEF Exclusive, Checked
  <2>5. Targeted'
    BY <2>1, <2>2 DEF Targeted
  <2>6. OneInbound'
    BY <2>1, <2>2 DEF OneInbound, BusyTarget, Receiving
  <2>7. OneOutbound'
    BY <2>1, <2>2 DEF OneOutbound, BusySource, Sending
  <2>. QED
    BY <2>3, <2>4, <2>5, <2>6, <2>7
<1>. QED
  BY <1>2, <1>4, <1>5, <1>6, <1>7 DEF Selecting

(* The other steps of an evacuation.                                       *)
LEMMA OtherCapped ==
  ASSUME Capped, NEW v \in Vol, Start(v) \/ Running(v) \/ TransferFails(v) \/ Cancel(v) \/ Forget(v)
  PROVE  Capped'
<1>1. /\ phase \in [Vol -> Phase] /\ target \in [Vol -> Place] /\ owner \in [Vol -> Node]
      /\ free \in [Node -> Int] /\ Size[v] \in Int /\ Home[v] \in Node
      /\ phase[v] \in {"none", "selecting"} => target[v] = NoNode
      /\ phase[v] \notin {"none", "selecting", "aborting", "failed"} => target[v] \in Node
  BY SelectionAssumption DEF Capped, TypeOK, Targeted
<1>2. ASSUME NEW from, NEW to \in Phase, Step(v, from, to)
      PROVE  /\ sel' = sel /\ blind' = blind /\ misled' = misled
             /\ sel[v].pc = "idle" /\ phase[v] = from /\ phase'[v] = to
             /\ phase' \in [Vol -> Phase] /\ \A u \in Vol \ {v} : phase'[u] = phase[u]
  BY <1>1, <1>2 DEF Step, history
<1>3. CASE Start(v)
  <2>1. Step(v, "none", "selecting") /\ UNCHANGED <<target, hold, owner, free, report>>
    BY <1>3 DEF Start
  <2>2. TypeOK'
    BY <1>2, <2>1 DEF Capped, TypeOK, Phase
  <2>. QED
    BY <1>1, <1>2, <2>1, <2>2, Retreat DEF Receiving, Sending, Phase
<1>4. CASE Land(v)
  <2>1. /\ Step(v, "transferring", "adopting") /\ UNCHANGED <<target, hold, owner, report>>
        /\ free' = [free EXCEPT ![target[v]] = @ - Size[v]]
    BY <1>4 DEF Land
  <2>2. free' \in [Node -> Int]
    <3>1. target[v] \in Node
      BY <1>1, <1>2, <2>1 DEF Phase
    <3>. QED
      BY <1>1, <2>1, <3>1
  <2>3. TypeOK'
    BY <1>2, <2>1, <2>2 DEF Capped, TypeOK, Phase
  <2>. QED
    BY <1>1, <1>2, <2>1, <2>3, Retreat DEF Receiving, Sending, Phase
<1>5. CASE Adopt(v)
  <2>1. Step(v, "adopting", "committing") /\ UNCHANGED <<target, hold, owner, free, report>>
    BY <1>5 DEF Adopt
  <2>2. TypeOK'
    BY <1>2, <2>1 DEF Capped, TypeOK, Phase
  <2>. QED
    BY <1>1, <1>2, <2>1, <2>2, Retreat DEF Receiving, Sending, Phase
<1>6. CASE DeleteOldPV(v)
  <2>1. Step(v, "committing", "gap") /\ UNCHANGED <<target, hold, owner, free, report>>
    BY <1>6 DEF DeleteOldPV
  <2>2. TypeOK'
    BY <1>2, <2>1 DEF Capped, TypeOK, Phase
  <2>. QED
    BY <1>1, <1>2, <2>1, <2>2, Retreat DEF Receiving, Sending, Phase
<1>7. CASE CreateNewPV(v)
  <2>1. /\ Step(v, "gap", "swapped") /\ UNCHANGED <<target, hold, free, report>>
        /\ owner' = [owner EXCEPT ![v] = target[v]]
    BY <1>7 DEF CreateNewPV
  <2>2. target[v] \in Node
    BY <1>1, <1>2, <2>1 DEF Phase
  <2>3. TypeOK'
    BY <1>1, <1>2, <2>1, <2>2 DEF Capped, TypeOK, Phase
  <2>. QED
    BY <1>1, <1>2, <2>1, <2>3, Retreat DEF Receiving, Sending, Phase
<1>8. CASE Complete(v)
  <2>1. /\ Step(v, "swapped", "completed") /\ UNCHANGED <<target, hold, owner, report>>
        /\ free' = [free EXCEPT ![Home[v]] = @ + Size[v]]
    BY <1>8 DEF Complete
  <2>2. free' \in [Node -> Int]
    BY <1>1, <2>1
  <2>3. TypeOK'
    BY <1>2, <2>1, <2>2 DEF Capped, TypeOK, Phase
  <2>. QED
    BY <1>1, <1>2, <2>1, <2>3, Retreat DEF Receiving, Sending, Phase
<1>9. CASE AbortDone(v)
  <2>1. PICK from \in {"aborting", "unwinding"} : Step(v, from, "failed")
    BY <1>9 DEF AbortDone
  <2>2. UNCHANGED <<target, hold, owner, report>>
    BY <1>9 DEF AbortDone
  <2>3. free' \in [Node -> Int]
    BY <1>1, <1>9 DEF AbortDone
  <2>4. TypeOK'
    BY <1>2, <2>1, <2>2, <2>3 DEF Capped, TypeOK, Phase
  <2>. QED
    BY <1>1, <1>2, <2>1, <2>2, <2>4, Retreat DEF Receiving, Sending, Phase
<1>10. CASE TransferFails(v)
  <2>1. Step(v, "transferring", "failed") /\ UNCHANGED <<target, hold, owner, free, report>>
    BY <1>10 DEF TransferFails
  <2>2. TypeOK'
    BY <1>2, <2>1 DEF Capped, TypeOK, Phase
  <2>. QED
    BY <1>1, <1>2, <2>1, <2>2, Retreat DEF Receiving, Sending, Phase
<1>11. CASE Cancel(v)
  <2>1. PICK from \in {"selecting", "transferring", "adopting", "committing"} :
          \/ Step(v, from, "aborting")
          \/ Step(v, from, "unwinding") /\ from \in {"adopting", "committing"}
    BY <1>11 DEF Cancel
  <2>2. UNCHANGED <<target, hold, owner, free, report>>
    BY <1>11 DEF Cancel
  <2>3. TypeOK'
    BY <1>2, <2>1, <2>2 DEF Capped, TypeOK, Phase
  <2>. QED
    BY <1>1, <1>2, <2>1, <2>2, <2>3, Retreat, SelectionAssumption DEF Receiving, Sending, Phase
<1>12. CASE Forget(v)
  <2>1. /\ Step(v, "failed", "none") /\ UNCHANGED <<owner, free, report>>
        /\ target' = [target EXCEPT ![v] = NoNode] /\ hold' = [hold EXCEPT ![v] = {}]
    BY <1>12 DEF Forget
  <2>2. TypeOK'
    BY <1>2, <2>1 DEF Capped, TypeOK, Phase, Place
  <2>3. target'[v] = NoNode /\ \A u \in Vol \ {v} : target'[u] = target[u]
    BY <1>1, <2>1
  <2>. QED
    BY <1>2, <2>1, <2>2, <2>3, Retreat DEF Receiving, Sending, Phase
<1>. QED
  BY <1>3, <1>4, <1>5, <1>6, <1>7, <1>8, <1>9, <1>10, <1>11, <1>12 DEF Running

LEMMA NextCapped == Capped /\ [Next]_vars => Capped'
<1>. SUFFICES ASSUME Capped, [Next]_vars PROVE Capped'
  OBVIOUS
<1>1. CASE UNCHANGED vars
  BY <1>1 DEF vars, Capped, TypeOK, Exclusive, Checked, Targeted, OneInbound, OneOutbound,
              BusySource, BusyTarget, Receiving, Sending
<1>2. ASSUME NEW n \in Node, Report(n) PROVE Capped'
  <2>1. TypeOK'
    BY <1>2 DEF Report, Capped, TypeOK, history
  <2>. QED
    BY <1>2, <2>1 DEF Report, Capped, Exclusive, Checked, Targeted, OneInbound, OneOutbound,
                      BusySource, BusyTarget, Receiving, Sending
<1>. QED
  BY <1>1, <1>2, SelectingCapped, OtherCapped DEF Next

-----------------------------------------------------------------------------
(* What the ledger and the demand of a group come to *)

LEMMA SizesNat == \A T \in SUBSET Vol : SizeOf(T) \in Nat
<1>1. IsFiniteSet(Vol) /\ Size \in [Vol -> Nat]
  BY SelectionAssumption
<1>. QED
  BY <1>1, SumNat DEF SizeOf

LEMMA ReservedNat == ASSUME TypeOK, NEW v \in Vol, NEW n \in Node PROVE Reserved(v, n) \in Nat
<1>. DEFINE f == [e \in Vol |-> (IF phase[e] = "completed" THEN 0 ELSE Size[e]) + GroupShare(e, v)]
            T == {e \in Vol \ {v} : phase[e] \notin {"none", "failed"} /\ target[e] = n}
<1>1. ASSUME NEW e \in Vol PROVE GroupShare(e, v) \in Nat
  <2>1. {m \in hold[e] \ {e, v} : ~Placed(m)} \in SUBSET Vol
    BY DEF TypeOK
  <2>. QED
    BY <2>1, SizesNat DEF GroupShare
<1>2. ASSUME NEW e \in Vol PROVE (IF phase[e] = "completed" THEN 0 ELSE Size[e]) + GroupShare(e, v) \in Nat
  BY <1>1, SelectionAssumption
<1>3. f \in [Vol -> Nat] /\ T \in SUBSET Vol /\ IsFiniteSet(Vol)
  BY <1>2, SelectionAssumption
<1>4. SumFunctionOnSet(f, T) \in Nat
  <2>. HIDE DEF f, T
  <2>. QED
    BY <1>3, SumNat
<1>. QED
  BY <1>4 DEF Reserved

LEMMA ProductNat == ASSUME NEW b \in Nat, NEW h \in Nat PROVE b * h \in Nat
  OBVIOUS

(* Headroom only adds to what a group needs.                               *)
LEMMA NeedCovers ==
  ASSUME NEW v \in Vol, NEW M \in SUBSET Vol
  PROVE  Need(v, M) \in Int /\ Need(v, M) >= Size[v] + SizeOf(M \ {v})
<1>. DEFINE bytes == Size[v] + SizeOf(M \ {v})
            more == bytes * Headroom
<1>1. Size[v] \in Nat /\ SizeOf(M \ {v}) \in Nat /\ Headroom \in Nat
  BY SizesNat, SelectionAssumption
<1>2. bytes \in Nat /\ bytes >= Size[v] + SizeOf(M \ {v})
  BY <1>1
<1>3. more \in Nat
  <2>. HIDE DEF bytes
  <2>. QED
    BY <1>1, <1>2, ProductNat
<1>4. Need(v, M) = bytes + more \div 100
  BY DEF Need
<1>. HIDE DEF bytes, more
<1>5. more \div 100 \in Nat
  BY <1>3
<1>. QED
  BY <1>1, <1>2, <1>4, <1>5

(* A candidate is no tainted node, receives nothing, is the wanted one if  *)
(* there is one, and has room by its ZFSNode, beside all that is reserved. *)
LEMMA CandidateFits ==
  ASSUME TypeOK, NEW v \in Vol, NEW ready, NEW n \in Candidates(v, sel[v], ready)
  PROVE  /\ n \in Node \ Tainted /\ ~BusyTarget(v, n) /\ Wanted(v, sel[v].anchor) \in {NoNode, n}
         /\ report[n] >= Size[v]
<1>1. /\ n \in Admits[v] /\ n \notin Tainted /\ ~BusyTarget(v, n) /\ Wanted(v, sel[v].anchor) \in {NoNode, n}
      /\ report[n] - Reserved(v, n) >= Need(v, sel[v].members)
  BY DEF Candidates, Left
<1>2. n \in Node /\ sel[v].members \in SUBSET Vol
  BY <1>1, SelectionAssumption DEF TypeOK, SelType
<1>3. /\ Reserved(v, n) \in Nat /\ Need(v, sel[v].members) \in Int
      /\ Need(v, sel[v].members) >= Size[v] + SizeOf(sel[v].members \ {v})
  BY <1>2, ReservedNat, NeedCovers
<1>4. report[n] \in Int /\ Size[v] \in Nat /\ SizeOf(sel[v].members \ {v}) \in Nat
  BY <1>2, SizesNat, SelectionAssumption DEF TypeOK
<1>5. report[n] >= Size[v]
  BY <1>1, <1>3, <1>4
<1>. QED
  BY <1>1, <1>2, <1>5

-----------------------------------------------------------------------------
(* The steps, as the invariant sees them *)

(* Outside of target_selecting: what becomes of the evacuation of v.       *)
LEMMA OtherSteps ==
  ASSUME Capped, NEW v \in Vol, Start(v) \/ Running(v) \/ TransferFails(v) \/ Cancel(v) \/ Forget(v)
  PROVE  /\ sel' = sel /\ sel[v].pc = "idle" /\ UNCHANGED <<report, blind, misled>>
         /\ \A u \in Vol \ {v} : phase'[u] = phase[u] /\ target'[u] = target[u] /\ owner'[u] = owner[u]
         /\ \/ /\ phase[v] = "transferring" /\ phase'[v] = "adopting" /\ UNCHANGED <<target, owner>>
               /\ free' = [free EXCEPT ![target[v]] = @ - Size[v]]
            \/ /\ \/ phase[v] = "none" /\ phase'[v] = "selecting" /\ owner[v] = Home[v]
                  \/ phase[v] = "adopting" /\ phase'[v] = "committing"
                  \/ phase[v] = "committing" /\ phase'[v] = "gap"
                  \/ phase[v] \in {"transferring", "aborting"} /\ phase'[v] = "failed"
                  \/ phase[v] \in {"selecting", "transferring"} /\ phase'[v] = "aborting"
                  \/ phase[v] \in {"adopting", "committing"} /\ phase'[v] = "unwinding"
               /\ UNCHANGED <<target, owner, free>>
            \/ /\ phase[v] = "gap" /\ phase'[v] = "swapped" /\ UNCHANGED <<target, free>>
               /\ owner'[v] = target[v]
            \/ /\ phase[v] = "swapped" /\ phase'[v] = "completed" /\ UNCHANGED <<target, owner>>
               /\ free' = [free EXCEPT ![Home[v]] = @ + Size[v]]
            \/ /\ phase[v] = "unwinding" /\ phase'[v] = "failed" /\ UNCHANGED <<target, owner>>
               /\ free' = [free EXCEPT ![target[v]] = @ + Size[v]]
            \/ /\ phase[v] = "failed" /\ phase'[v] = "none" /\ UNCHANGED <<owner, free>>
               /\ target'[v] = NoNode
<1>1. phase \in [Vol -> Phase] /\ target \in [Vol -> Place] /\ owner \in [Vol -> Node]
  BY DEF Capped, TypeOK
<1>2. ASSUME NEW from, NEW to, Step(v, from, to)
      PROVE  /\ sel' = sel /\ blind' = blind /\ misled' = misled
             /\ sel[v].pc = "idle" /\ phase[v] = from /\ phase'[v] = to
             /\ \A u \in Vol \ {v} : phase'[u] = phase[u]
  BY <1>1, <1>2 DEF Step, history
<1>3. CASE Start(v)
  BY <1>2, <1>3 DEF Start
<1>4. CASE Land(v)
  BY <1>2, <1>4 DEF Land
<1>5. CASE Adopt(v)
  BY <1>2, <1>5 DEF Adopt
<1>6. CASE DeleteOldPV(v)
  BY <1>2, <1>6 DEF DeleteOldPV
<1>7. CASE CreateNewPV(v)
  <2>1. Step(v, "gap", "swapped") /\ UNCHANGED <<target, free, report>> /\ owner' = [owner EXCEPT ![v] = target[v]]
    BY <1>7 DEF CreateNewPV
  <2>2. owner'[v] = target[v] /\ \A u \in Vol \ {v} : owner'[u] = owner[u]
    BY <1>1, <2>1
  <2>. QED
    BY <1>2, <2>1, <2>2
<1>8. CASE Complete(v)
  BY <1>2, <1>8 DEF Complete
<1>9. CASE AbortDone(v)
  <2>1. CASE Step(v, "aborting", "failed") /\ UNCHANGED <<target, owner, free, report>>
    BY <1>2, <2>1
  <2>2. CASE /\ Step(v, "unwinding", "failed") /\ UNCHANGED <<target, owner, report>>
             /\ free' = [free EXCEPT ![target[v]] = @ + Size[v]]
    BY <1>2, <2>2
  <2>. QED
    BY <1>9, <2>1, <2>2 DEF AbortDone
<1>10. CASE TransferFails(v)
  BY <1>2, <1>10 DEF TransferFails
<1>11. CASE Cancel(v)
  <2>1. \/ Step(v, "selecting", "aborting") \/ Step(v, "transferring", "aborting")
        \/ Step(v, "adopting", "unwinding") \/ Step(v, "committing", "unwinding")
    BY <1>11 DEF Cancel
  <2>2. UNCHANGED <<target, owner, free, report>>
    BY <1>11 DEF Cancel
  <2>. QED
    BY <1>2, <2>1, <2>2
<1>12. CASE Forget(v)
  <2>1. Step(v, "failed", "none") /\ UNCHANGED <<owner, free, report>> /\ target' = [target EXCEPT ![v] = NoNode]
    BY <1>12 DEF Forget
  <2>2. target'[v] = NoNode /\ \A u \in Vol \ {v} : target'[u] = target[u]
    BY <1>1, <2>1
  <2>. QED
    BY <1>2, <2>1, <2>2
<1>. QED
  BY <1>3, <1>4, <1>5, <1>6, <1>7, <1>8, <1>9, <1>10, <1>11, <1>12 DEF Running

(* Inside: target_selecting of v goes on to q, having read that what it    *)
(* resolved or chose is as it should be.                                   *)
LEMMA SelectingSteps ==
  ASSUME Capped, NEW v \in Vol, Caps(v) \/ Resolve(v) \/ Select(v) \/ GiveUp(v)
  PROVE  /\ UNCHANGED <<phase, target, owner, free, report, blind>>
         /\ misled' \in {misled, misled \ {v}, misled \cup {v}}
         /\ \A u \in Vol \ {v} : sel'[u] = sel[u]
         /\ \/ sel'[v].pc \in {"idle", "capped"}
            \/ /\ sel[v].pc = "capped" /\ sel'[v].pc = "resolved"
               /\ ~sel'[v].missed => Found(v) = Group[v]
               /\ sel'[v].anchor \in PickAnchor(v)
            \/ /\ sel[v].pc = "resolved" /\ sel'[v].pc = "placed" /\ sel'[v].missed = sel[v].missed
               /\ \E ready \in SUBSET Node : sel'[v].choice \in Candidates(v, sel[v], ready)
               /\ v \notin misled' => report[sel'[v].choice] <= free[sel'[v].choice]
<1>1. sel \in [Vol -> SelType] /\ sel[v] \in SelType
  BY DEF Capped, TypeOK
<1>2. CASE Caps(v)
  BY <1>1, <1>2 DEF Caps, SelType, history
<1>3. CASE Resolve(v)
  <2>1. PICK n \in PickAnchor(v) : sel' = [sel EXCEPT ![v] = Resolved(v, n)]
    BY <1>3 DEF Resolve, Resolved
  <2>2. sel'[v] = Resolved(v, n) /\ \A u \in Vol \ {v} : sel'[u] = sel[u]
    BY <1>1, <2>1
  <2>3. /\ sel'[v].pc = "resolved" /\ sel'[v].anchor = n
        /\ ~sel'[v].missed => Found(v) = Group[v]
    BY <2>2, ResolvedType DEF Capped
  <2>4. sel[v].pc = "capped" /\ UNCHANGED <<phase, target, owner, free, report, blind, misled>>
    BY <1>3 DEF Resolve, history
  <2>. QED
    BY <2>2, <2>3, <2>4
<1>4. CASE Select(v)
  <2>1. PICK ready \in SUBSET Node :
          \/ sel' = [sel EXCEPT ![v] = Idle]
          \/ \E n \in Candidates(v, sel[v], ready) :
               /\ sel' = [sel EXCEPT ![v].pc = "placed", ![v].choice = n]
               /\ v \notin misled' => report[n] <= free[n]
    BY <1>4, SelectReads
  <2>2. /\ sel[v].pc = "resolved" /\ UNCHANGED <<phase, target, owner, free, report, blind>>
        /\ misled' \in {misled, misled \ {v}, misled \cup {v}}
    BY <1>4, SelectReads
  <2>3. CASE sel' = [sel EXCEPT ![v] = Idle]
    BY <1>1, <2>2, <2>3 DEF Idle
  <2>4. ASSUME NEW n \in Candidates(v, sel[v], ready), sel' = [sel EXCEPT ![v].pc = "placed", ![v].choice = n]
        PROVE  /\ sel'[v].pc = "placed" /\ sel'[v].choice = n /\ sel'[v].missed = sel[v].missed
               /\ \A u \in Vol \ {v} : sel'[u] = sel[u]
    BY <1>1, <2>4 DEF SelType
  <2>. QED
    BY <2>1, <2>2, <2>3, <2>4
<1>5. CASE GiveUp(v)
  BY <1>1, <1>5 DEF GiveUp, Idle, history
<1>. QED
  BY <1>2, <1>3, <1>4, <1>5

(* The write that ends it.                                                 *)
LEMMA WriteStep ==
  ASSUME Capped, NEW v \in Vol, Write(v)
  PROVE  /\ UNCHANGED <<owner, free, report, misled>> /\ blind' = IF sel[v].missed THEN blind \cup {v} ELSE blind
         /\ phase[v] = "selecting" /\ phase'[v] = "transferring"
         /\ sel[v].pc = "placed" /\ target'[v] = sel[v].choice /\ ~BusyTarget(v, sel[v].choice)
         /\ \A u \in Vol \ {v} : phase'[u] = phase[u] /\ target'[u] = target[u]
         /\ \A u \in Vol : sel'[u].pc = "idle"
<1>1. phase \in [Vol -> Phase] /\ target \in [Vol -> Place] /\ sel \in [Vol -> SelType]
  BY DEF Capped, TypeOK
<1>2. phase[v] = "selecting" /\ ~BusyTarget(v, sel[v].choice) /\ \A u \in Vol \ {v} : sel[u].pc = "idle"
  BY DEF Write, Capped, Checked, Exclusive
<1>. QED
  BY <1>1, <1>2, IdleType DEF Write

-----------------------------------------------------------------------------
(* Where the data is and goes *)

LEMMA InitMoved == Init => Undrained /\ Moved
<1>1. Tainted \subseteq Node /\ NoNode \notin Node
  BY SelectionAssumption
<1>. QED
  BY <1>1, IdleType DEF Init, Undrained, Moved

LEMMA MovedStep ==
  ASSUME Capped, Undrained, Moved, [Next]_vars PROVE Undrained' /\ Moved'
<1>1. Tainted \subseteq Node /\ NoNode \notin Node
  BY SelectionAssumption
<1>2. ASSUME NEW v \in Vol, Start(v) \/ Running(v) \/ TransferFails(v) \/ Cancel(v) \/ Forget(v)
      PROVE  Undrained' /\ Moved'
  <2>1. target[v] \notin Tainted
    BY DEF Undrained
  <2>2. /\ sel' = sel
        /\ \A u \in Vol \ {v} : phase'[u] = phase[u] /\ target'[u] = target[u] /\ owner'[u] = owner[u]
        /\ target'[v] \in {target[v], NoNode}
        /\ owner'[v] # Home[v] => phase'[v] \in {"swapped", "completed"}
        /\ phase'[v] \in {"swapped", "completed"} => owner'[v] = target'[v]
    BY <1>2, <2>1, <1>1, OtherSteps DEF Moved
  <2>3. Undrained'
    BY <1>1, <2>1, <2>2 DEF Undrained
  <2>4. Moved'
    BY <2>2 DEF Moved
  <2>. QED
    BY <2>3, <2>4
<1>3. ASSUME NEW v \in Vol, Caps(v) \/ Resolve(v) \/ Select(v) \/ GiveUp(v)
      PROVE  Undrained' /\ Moved'
  <2>1. /\ UNCHANGED <<phase, target, owner>> /\ \A u \in Vol \ {v} : sel'[u] = sel[u]
        /\ sel'[v].pc = "placed" => \E ready \in SUBSET Node : sel'[v].choice \in Candidates(v, sel[v], ready)
    BY <1>3, SelectingSteps
  <2>2. sel'[v].pc = "placed" => sel'[v].choice \notin Tainted
    BY <2>1, CandidateFits DEF Capped
  <2>. QED
    BY <1>1, <2>1, <2>2 DEF Undrained, Moved
<1>4. ASSUME NEW v \in Vol, Write(v) PROVE Undrained' /\ Moved'
  BY <1>1, <1>4, WriteStep DEF Undrained, Moved
<1>5. CASE UNCHANGED <<phase, target, owner, sel>>
  BY <1>1, <1>5 DEF Undrained, Moved
<1>. QED
  BY <1>2, <1>3, <1>4, <1>5 DEF Next, Selecting, Report, vars

-----------------------------------------------------------------------------
(* Room to land *)

LEMMA InitRoomy == Init => Roomy
  BY IdleType DEF Init, Roomy, RoomToLand

(* What is free only grows, but for a volume that lands, and where it      *)
(* lands nobody else is bound.                                             *)
LEMMA RoomOther ==
  ASSUME Capped, Roomy, NEW v \in Vol,
         Start(v) \/ Running(v) \/ TransferFails(v) \/ Cancel(v) \/ Forget(v)
  PROVE  Roomy'
<1>1. /\ Size \in [Vol -> Nat] /\ Home[v] \in Node /\ free \in [Node -> Int]
      /\ phase[v] \notin {"none", "selecting", "aborting", "failed"} => target[v] \in Node
  BY SelectionAssumption DEF Capped, TypeOK, Targeted
<1>2. /\ sel' = sel /\ misled' = misled /\ sel[v].pc = "idle" /\ phase'[v] # "transferring"
      /\ \A u \in Vol \ {v} : phase'[u] = phase[u] /\ target'[u] = target[u]
  BY OtherSteps
<1>3. ASSUME NEW u \in Vol, u \notin misled
      PROVE  /\ sel[u].pc = "placed" => sel[u].choice \in Node /\ free[sel[u].choice] >= Size[u]
             /\ phase'[u] = "transferring" =>
                  u # v /\ phase[u] = "transferring" /\ target'[u] = target[u] /\ target[u] \in Node /\ free[target[u]] >= Size[u]
  BY <1>2, <1>3 DEF Roomy, RoomToLand, Capped, Checked, Targeted
<1>4. CASE phase[v] = "transferring" /\ free' = [free EXCEPT ![target[v]] = @ - Size[v]]
  <2>1. target[v] \in Node /\ \A n \in Node \ {target[v]} : free'[n] = free[n]
    BY <1>1, <1>4
  <2>2. ASSUME NEW u \in Vol, sel[u].pc = "placed" PROVE sel[u].choice # target[v]
    BY <1>2, <1>4, <2>1, <2>2, SelectionAssumption DEF Capped, Checked, BusyTarget, Receiving
  <2>3. ASSUME NEW u \in Vol, u # v, phase[u] = "transferring" PROVE target[u] # target[v]
    BY <1>4, <2>1, <2>3, SelectionAssumption DEF Capped, OneInbound, Receiving
  <2>. QED
    BY <1>2, <1>3, <2>1, <2>2, <2>3 DEF Roomy, RoomToLand
<1>5. ASSUME \A n \in Node : free'[n] \in Int /\ free'[n] >= free[n] PROVE Roomy'
  <2>1. ASSUME NEW n \in Node, NEW u \in Vol, free[n] >= Size[u] PROVE free'[n] >= Size[u]
    <3>1. free[n] \in Int /\ free'[n] \in Int /\ Size[u] \in Int /\ free'[n] >= free[n]
      BY <1>1, <1>5
    <3>. QED
      BY <2>1, <3>1
  <2>. QED
    BY <1>2, <1>3, <2>1 DEF Roomy, RoomToLand
<1>6. CASE phase[v] = "unwinding" /\ free' = [free EXCEPT ![target[v]] = @ + Size[v]]
  BY <1>1, <1>5, <1>6
<1>7. CASE free' = [free EXCEPT ![Home[v]] = @ + Size[v]]
  BY <1>1, <1>5, <1>7
<1>8. CASE free' = free
  BY <1>1, <1>5, <1>8
<1>. QED
  BY <1>4, <1>6, <1>7, <1>8, OtherSteps

(* A volume that is not misled was given what is free.                     *)
LEMMA RoomSelecting ==
  ASSUME Capped, Roomy, NEW v \in Vol, Selecting(v) \/ GiveUp(v) PROVE Roomy'
<1>1. CASE Write(v)
  <2>1. /\ UNCHANGED <<free, misled>> /\ sel[v].pc = "placed" /\ target'[v] = sel[v].choice
        /\ \A u \in Vol \ {v} : phase'[u] = phase[u] /\ target'[u] = target[u]
        /\ \A u \in Vol : sel'[u].pc = "idle"
    BY <1>1, WriteStep
  <2>. QED
    BY <2>1 DEF Roomy, RoomToLand
<1>2. CASE Caps(v) \/ Resolve(v) \/ Select(v) \/ GiveUp(v)
  <2>1. /\ UNCHANGED <<phase, target, free, report>> /\ \A u \in Vol \ {v} : sel'[u] = sel[u]
        /\ \A u \in Vol \ {v} : u \in misled' <=> u \in misled
        /\ sel'[v].pc = "placed" =>
             /\ sel[v].pc = "resolved"
             /\ \E ready \in SUBSET Node : sel'[v].choice \in Candidates(v, sel[v], ready)
             /\ v \notin misled' => report[sel'[v].choice] <= free[sel'[v].choice]
    BY <1>2, SelectingSteps
  <2>2. ASSUME sel'[v].pc = "placed", v \notin misled' PROVE free[sel'[v].choice] >= Size[v]
    <3>1. PICK n \in Node : n = sel'[v].choice /\ report[n] >= Size[v] /\ report[n] <= free[n]
      BY <2>1, <2>2, CandidateFits DEF Capped
    <3>2. report[n] \in Int /\ free[n] \in Int /\ Size[v] \in Int
      BY SelectionAssumption DEF Capped, TypeOK
    <3>. QED
      BY <3>1, <3>2
  <2>3. ASSUME phase[v] = "transferring" PROVE v \in misled' <=> v \in misled
    <3>1. sel[v].pc = "idle"
      BY <2>3 DEF Capped, Checked
    <3>. QED
      BY <1>2, <3>1 DEF Caps, Resolve, Select, GiveUp, history
  <2>4. ASSUME NEW u \in Vol, phase[u] = "transferring", u \notin misled' PROVE free[target[u]] >= Size[u]
    BY <2>1, <2>3, <2>4 DEF Roomy, RoomToLand
  <2>5. ASSUME NEW u \in Vol, sel'[u].pc = "placed", u \notin misled' PROVE free[sel'[u].choice] >= Size[u]
    BY <2>1, <2>2, <2>5 DEF Roomy
  <2>. QED
    BY <2>1, <2>4, <2>5 DEF Roomy, RoomToLand
<1>. QED
  BY <1>1, <1>2 DEF Selecting

LEMMA RoomStep == ASSUME Capped, Roomy, [Next]_vars PROVE Roomy'
<1>1. CASE UNCHANGED <<phase, target, free, sel, misled>>
  BY <1>1 DEF Roomy, RoomToLand
<1>. QED
  BY <1>1, RoomOther, RoomSelecting DEF Next, Report, vars, history

-----------------------------------------------------------------------------
(* Volumes of one pod stay together *)

LEMMA InitJoined == Init => Joined
<1>1. ASSUME Init, NEW v \in Vol PROVE Destination(v) = NoNode
  BY <1>1 DEF Init, Destination, Heading
<1>2. Group \in [Vol -> SUBSET Vol]
  BY SelectionAssumption
<1>. QED
  BY <1>1, <1>2 DEF Joined, NeverSplit, Following

(* A sibling that is bound for a node anchors v to it, any other to none.  *)
LEMMA AnchorIsDestination ==
  ASSUME Capped, Moved, NEW v \in Vol, owner[v] = Home[v], NEW m \in Vol,
         Explicit[m] = NoNode, Home[m] = Home[v]
  PROVE  AnchorOf(v, m) = Destination(m)
<1>1. NoNode \notin Node /\ owner[m] \in Node /\ Home[v] \in Node
  BY SelectionAssumption DEF Capped, TypeOK
<1>2. CASE owner[m] # Home[m]
  <2>1. phase[m] \in {"swapped", "completed"} /\ owner[m] = target[m]
    BY <1>2 DEF Moved
  <2>2. Destination(m) = owner[m] /\ owner[m] # owner[v] /\ target[m] # NoNode
    BY <1>1, <1>2, <2>1 DEF Destination
  <2>. QED
    BY <2>1, <2>2 DEF AnchorOf
<1>3. CASE owner[m] = Home[m]
  BY <1>3 DEF Destination, AnchorOf
<1>. QED
  BY <1>2, <1>3

(* Nobody is bound for another node than before, except by the write.      *)
LEMMA DestinationKept ==
  ASSUME Capped, Moved, NEW v \in Vol,
         Start(v) \/ Running(v) \/ TransferFails(v) \/ Cancel(v) \/ Forget(v)
  PROVE  /\ sel' = sel /\ blind' = blind
         /\ \A m \in Vol : Destination(m)' \in {Destination(m), NoNode}
<1>1. ASSUME NEW m \in Vol \ {v} PROVE Destination(m)' = Destination(m)
  <2>1. phase'[m] = phase[m] /\ target'[m] = target[m] /\ owner'[m] = owner[m]
    BY OtherSteps
  <2>. QED
    BY <2>1 DEF Destination, Heading
<1>2. /\ phase[v] \in {"none", "selecting"} => target[v] = NoNode
      /\ owner[v] # Home[v] => phase[v] \in {"swapped", "completed"} /\ owner[v] = target[v]
  BY DEF Capped, Targeted, Moved
<1>3. Destination(v)' \in {Destination(v), NoNode}
  <2>1. CASE owner'[v] = owner[v] /\ target'[v] = target[v]
    <3>1. CASE owner[v] # Home[v]
      BY <2>1, <3>1 DEF Destination
    <3>2. CASE owner[v] = Home[v] /\ ~Heading(v)'
      BY <2>1, <3>2 DEF Destination
    <3>3. CASE owner[v] = Home[v] /\ Heading(v)'
      <4>1. Heading(v) \/ target[v] = NoNode
        BY <1>2, <3>3, OtherSteps DEF Heading
      <4>. QED
        BY <2>1, <3>3, <4>1 DEF Destination
    <3>. QED
      BY <3>1, <3>2, <3>3
  <2>2. CASE phase[v] = "gap" /\ phase'[v] = "swapped" /\ target'[v] = target[v] /\ owner'[v] = target[v]
    <3>1. Destination(v) = target[v]
      BY <1>2, <2>2 DEF Destination, Heading
    <3>2. Destination(v)' = target[v]
      BY <2>2 DEF Destination, Heading
    <3>. QED
      BY <3>1, <3>2
  <2>3. CASE owner'[v] = owner[v] /\ phase[v] = "failed" /\ phase'[v] = "none"
    <3>1. owner'[v] = Home[v] /\ ~Heading(v)'
      BY <1>2, <2>3 DEF Heading
    <3>. QED
      BY <3>1 DEF Destination
  <2>. QED
    BY <2>1, <2>2, <2>3, OtherSteps
<1>. QED
  BY <1>1, <1>3, OtherSteps

LEMMA JoinedStep == ASSUME Capped, Moved, Joined, [Next]_vars PROVE Joined'
<1>1. Group \in [Vol -> SUBSET Vol] /\ NoNode \notin Node
  BY SelectionAssumption
<1>2. ASSUME NEW v \in Vol, Whole(v), NEW m \in Group[v]
      PROVE  m \in Vol /\ Whole(m) /\ Group[m] = Group[v] /\ Home[m] = Home[v] /\ Explicit[m] = NoNode
  BY <1>1, <1>2 DEF Whole
<1>3. ASSUME NEW v \in Vol, Whole(v), Sighted(v), NEW m \in Group[v]
      PROVE  \A k \in Group[v] : Destination(k) = Destination(m) \/ NoNode \in {Destination(k), Destination(m)}
  <2>1. Whole(m) /\ Sighted(m) /\ Group[m] = Group[v] /\ m \in Vol
    BY <1>2, <1>3 DEF Sighted
  <2>. QED
    BY <2>1 DEF Joined, NeverSplit
<1>4. ASSUME blind \subseteq blind', NEW v \in Vol, Sighted(v)' PROVE Sighted(v)
  BY <1>4 DEF Sighted
<1>5. ASSUME sel' = sel, blind' = blind, \A m \in Vol : Destination(m)' \in {Destination(m), NoNode} PROVE Joined'
  <2>1. ASSUME NEW v \in Vol PROVE Sighted(v)' <=> Sighted(v)
    BY <1>5 DEF Sighted
  <2>2. ASSUME NEW v \in Vol, Whole(v), Sighted(v), NEW m \in Group[v]
        PROVE  Destination(v)' = Destination(m)' \/ NoNode \in {Destination(v)', Destination(m)'}
    <3>1. Destination(v) = Destination(m) \/ NoNode \in {Destination(v), Destination(m)}
      BY <2>2 DEF Joined, NeverSplit
    <3>. QED
      BY <1>2, <1>5, <2>2, <3>1
  <2>3. ASSUME NEW v \in Vol, Whole(v), Sighted(v), ~sel[v].missed, NEW m \in Group[v] \ {v}
        PROVE  Following(v, m)'
    <3>1. Following(v, m) /\ m \in Vol
      BY <1>2, <2>3 DEF Joined
    <3>. QED
      BY <1>5, <3>1 DEF Following
  <2>4. ASSUME NEW v \in Vol PROVE Whole(v)' <=> Whole(v)
    BY DEF Whole
  <2>. QED
    BY <1>5, <2>1, <2>2, <2>3, <2>4 DEF Joined, NeverSplit
<1>6. ASSUME NEW v \in Vol, Start(v) \/ Running(v) \/ TransferFails(v) \/ Cancel(v) \/ Forget(v) PROVE Joined'
  BY <1>5, <1>6, DestinationKept
<1>7. ASSUME UNCHANGED <<phase, target, owner>> PROVE \A m \in Vol : Destination(m)' = Destination(m)
  BY <1>7 DEF Destination, Heading
<1>8. ASSUME NEW v \in Vol, Caps(v) \/ Resolve(v) \/ Select(v) \/ GiveUp(v) PROVE Joined'
  <2>1. UNCHANGED <<phase, target, owner, blind>> /\ \A u \in Vol \ {v} : sel'[u] = sel[u]
    BY <1>8, SelectingSteps
  <2>2. \A u \in Vol : (Destination(u)' = Destination(u)) /\ (Sighted(u)' <=> Sighted(u)) /\ (Whole(u)' <=> Whole(u))
    BY <1>7, <2>1 DEF Sighted, Whole
  <2>3. NeverSplit'
    <3>. SUFFICES ASSUME NEW u \in Vol, Whole(u), Sighted(u), NEW m \in Group[u]
                  PROVE  Destination(u)' = Destination(m)' \/ NoNode \in {Destination(u)', Destination(m)'}
      BY <2>2 DEF NeverSplit
    <3>. QED
      BY <1>2, <2>2 DEF Joined, NeverSplit
  <2>4. owner[v] = Home[v] \/ sel[v].pc = "idle"
    BY DEF Capped, Checked, Moved
  <2>5. ASSUME Whole(v), Sighted(v), NEW m \in Group[v] \ {v}, Destination(m) # NoNode,
               sel[v].pc = "capped", Found(v) = Group[v]
        PROVE  PickAnchor(v) \subseteq {Destination(m)}
    <3>. DEFINE voted == {AnchorOf(v, k) : k \in Anchored(v)}
    <3>1. ASSUME NEW k \in Group[v] PROVE AnchorOf(v, k) = Destination(k)
      BY <1>2, <2>4, <2>5, <3>1, AnchorIsDestination
    <3>2. ASSUME NEW k \in Anchored(v) PROVE AnchorOf(v, k) = Destination(m)
      <4>1. k \in Group[v] /\ AnchorOf(v, k) # NoNode
        BY <2>5, <3>2 DEF Anchored
      <4>. QED
        BY <1>3, <2>5, <3>1, <4>1
    <3>3. m \in Anchored(v)
      BY <2>5, <3>1 DEF Anchored
    <3>4. PickAnchor(v) \subseteq voted
      BY <3>3 DEF PickAnchor
    <3>. QED
      BY <3>2, <3>4
  <2>6. ASSUME Whole(v), Sighted(v), ~sel[v].missed, NEW m \in Group[v] \ {v}, Destination(m) # NoNode,
               sel[v].pc = "resolved", NEW ready \in SUBSET Node, sel'[v].choice \in Candidates(v, sel[v], ready)
        PROVE  sel'[v].choice = Destination(m)
    <3>1. sel[v].anchor = Destination(m)
      BY <2>6 DEF Joined, Following
    <3>2. Wanted(v, sel[v].anchor) \in {NoNode, sel'[v].choice}
      BY <2>6, CandidateFits DEF Capped
    <3>3. v \in Group[v]
      BY <2>6, SelectionAssumption
    <3>4. Wanted(v, sel[v].anchor) = sel[v].anchor
      BY <1>2, <2>6, <3>3 DEF Wanted
    <3>. QED
      BY <2>6, <3>1, <3>2, <3>4
  <2>7. ASSUME Whole(v), Sighted(v), ~sel'[v].missed, NEW m \in Group[v] \ {v}, Destination(m) # NoNode
        PROVE  /\ sel'[v].pc = "resolved" => sel'[v].anchor = Destination(m)
               /\ sel'[v].pc = "placed" => sel'[v].choice = Destination(m)
    <3>1. CASE sel'[v].pc \in {"idle", "capped"}
      BY <3>1
    <3>2. CASE sel[v].pc = "capped" /\ sel'[v].pc = "resolved" /\ Found(v) = Group[v] /\ sel'[v].anchor \in PickAnchor(v)
      BY <2>5, <2>7, <3>2
    <3>3. CASE /\ sel[v].pc = "resolved" /\ sel'[v].pc = "placed" /\ sel'[v].missed = sel[v].missed
               /\ \E ready \in SUBSET Node : sel'[v].choice \in Candidates(v, sel[v], ready)
      BY <2>6, <2>7, <3>3
    <3>. QED
      BY <1>8, <2>7, <3>1, <3>2, <3>3, SelectingSteps
  <2>8. ASSUME NEW u \in Vol, Whole(u), Sighted(u), ~sel'[u].missed, NEW m \in Group[u] \ {u}
        PROVE  Following(u, m)'
    <3>1. Destination(m)' = Destination(m)
      BY <1>2, <2>2, <2>8
    <3>2. CASE u = v
      BY <2>7, <2>8, <3>1, <3>2 DEF Following
    <3>3. CASE u # v
      <4>1. sel'[u] = sel[u] /\ Following(u, m)
        BY <2>1, <2>8, <3>3 DEF Joined
      <4>. QED
        BY <3>1, <4>1 DEF Following
    <3>. QED
      BY <3>2, <3>3
  <2>. QED
    BY <2>2, <2>3, <2>8 DEF Joined
<1>9. ASSUME NEW v \in Vol, Write(v) PROVE Joined'
  <2>1. /\ owner' = owner /\ phase[v] = "selecting" /\ phase'[v] = "transferring"
        /\ blind' = IF sel[v].missed THEN blind \cup {v} ELSE blind
        /\ sel[v].pc = "placed" /\ target'[v] = sel[v].choice
        /\ \A u \in Vol \ {v} : phase'[u] = phase[u] /\ target'[u] = target[u]
        /\ \A u \in Vol : sel'[u].pc = "idle"
    BY <1>9, WriteStep
  <2>2. blind \subseteq blind' /\ (sel[v].missed => v \in blind')
    BY <2>1
  <2>3. ASSUME NEW m \in Vol \ {v} PROVE Destination(m)' = Destination(m)
    BY <2>1, <2>3 DEF Destination, Heading
  <2>4. Destination(v)' = sel[v].choice
    BY <2>1 DEF Destination, Heading, Moved
  <2>5. ASSUME Whole(v), Sighted(v), ~sel[v].missed, NEW m \in Group[v] \ {v}, Destination(m) # NoNode
        PROVE  Destination(m) = sel[v].choice
    BY <2>1, <2>5 DEF Joined, Following
  <2>6. ASSUME NEW u \in Vol, Whole(u), Sighted(u)', NEW m \in Group[u]
        PROVE  Destination(u)' = Destination(m)' \/ NoNode \in {Destination(u)', Destination(m)'}
    <3>1. Sighted(u) /\ m \in Vol /\ Whole(m) /\ Group[m] = Group[u]
      BY <1>2, <1>4, <2>2, <2>6
    <3>2. ASSUME v \in Group[u] PROVE Whole(v) /\ Sighted(v) /\ ~sel[v].missed /\ Group[v] = Group[u]
      BY <1>2, <2>2, <2>6, <3>1, <3>2 DEF Sighted
    <3>3. u \in Group[u]
      BY <2>6, SelectionAssumption
    <3>4. CASE u # v /\ m # v
      BY <1>3, <2>3, <2>6, <3>1, <3>3, <3>4
    <3>5. CASE u = v /\ m # v
      BY <2>3, <2>4, <2>5, <2>6, <3>1, <3>2, <3>3, <3>5
    <3>6. CASE u # v /\ m = v
      <4>1. Destination(u) # NoNode => Destination(u) = sel[v].choice
        BY <2>5, <2>6, <3>2, <3>3, <3>6
      <4>. QED
        BY <2>3, <2>4, <3>6, <4>1
    <3>7. CASE u = v /\ m = v
      BY <3>7
    <3>. QED
      BY <3>4, <3>5, <3>6, <3>7
  <2>7. \A u \in Vol : Whole(u)' <=> Whole(u)
    BY DEF Whole
  <2>. QED
    BY <2>1, <2>6, <2>7 DEF Joined, NeverSplit, Following
<1>10. CASE UNCHANGED <<phase, target, owner, sel, blind>>
  BY <1>5, <1>7, <1>10
<1>. QED
  BY <1>6, <1>8, <1>9, <1>10 DEF Next, Selecting, Report, vars, history

-----------------------------------------------------------------------------
(* The theorems *)

LEMMA InitInv == Init => IInv
  BY InitCapped, InitMoved, InitRoomy, InitJoined DEF IInv

LEMMA NextInv == IInv /\ [Next]_vars => IInv'
  BY NextCapped, MovedStep, RoomStep, JoinedStep DEF IInv

(* What target_selecting has read is still so when it writes, data only    *)
(* goes to nodes without the taint, what was free at the choice stays free *)
(* until the volume lands, and a group has one destination                 *)
(* (controller/state_machine.rs, target_selecting).                        *)
THEOREM Invariance == Spec => []IInv
  BY InitInv, NextInv, PTL DEF Spec

(* At no time does a node receive two evacuations, or send two volumes,    *)
(* however many evacuations run, fail and are retried, and whatever the    *)
(* agents report (target.rs:92-93, state_machine.rs:553-570).              *)
THEOREM OneTransferPerNode == Spec => [](OneInbound /\ OneOutbound)
<1>1. IInv => OneInbound /\ OneOutbound
  BY DEF IInv, Capped
<1>. QED
  BY <1>1, Invariance, PTL

(* A transfer has room to land, whatever the sizes, the headroom and the   *)
(* groups, unless its target was chosen on a report above what was free:   *)
(* what happens between the choice and the landing takes nothing away      *)
(* (target.rs:99-140, 210).                                                *)
THEOREM RoomKept == Spec => []RoomToLand
<1>1. IInv => RoomToLand
  BY DEF IInv, Roomy
<1>. QED
  BY <1>1, Invariance, PTL

(* The volumes of a pod that come from one node never part, however many   *)
(* they are, fail, are cancelled and tried again, unless one of them was   *)
(* placed while the PV of a sibling was being swapped                      *)
(* (state_machine.rs:633-635, colocation.rs:63-65).                        *)
THEOREM GroupsStay == Spec => []NeverSplit
<1>1. IInv => NeverSplit
  BY DEF IInv, Joined
<1>. QED
  BY <1>1, Invariance, PTL
=============================================================================
