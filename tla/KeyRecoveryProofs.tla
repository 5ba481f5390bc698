------------------------- MODULE KeyRecoveryProofs --------------------------
(***************************************************************************)
(* For any randomness, any number of secrets and any batch: the recorder   *)
(* never returns a secret it would have to derive from a seed.             *)
(***************************************************************************)
EXTENDS KeyRecovery, TLAPS

(* Once the seed is found the thread waits for a lock that it holds. *)
Blocked == call.stage = "relock" => guard

Shape == call = [pk |-> call.pk, stage |-> call.stage, seed |-> call.seed]

(* A lookup that waits for the lock of the generators holds that lock, so  *)
(* the step that would install them is never taken.                        *)
KeyInv == Blocked /\ Shape /\ NothingDerived

(* The lookup goes to a stage that is not the wait for the lock. *)
LEMMA GoOnStage ==
  ASSUME Shape, NEW stage \in {"ephemeral", "static", "end"}, GoOn(stage)
  PROVE  Shape' /\ Blocked'
  <1>1. CASE stage = "end"
    BY <1>1 DEF GoOn, Idle, Foreign, Shape, Blocked
  <1>2. CASE stage # "end"
    <2>1. call' = [pk |-> call.pk, stage |-> stage, seed |-> call.seed]
      BY <1>2 DEF GoOn, Shape
    <2>2. QED
      BY <2>1 DEF Shape, Blocked
  <1>3. QED
    BY <1>1, <1>2

(* Returning a secret that was not derived keeps the invariant. *)
LEMMA ReturnKeeps ==
  ASSUME KeyInv, Return, call.pk.kind # "derived", UNCHANGED <<sk, generators>>
  PROVE  KeyInv'
  BY SMTT(30) DEF KeyInv, Shape, Blocked, NothingDerived, Return, Idle, Foreign

(* The step of the lookup for a part: without generators it either finds   *)
(* a seed, and waits for its own lock, or goes on.                         *)
LEMMA ReproducedSkKeeps ==
  ASSUME KeyInv, NEW part \in Parts, ReproducedSk(part)
  PROVE  KeyInv'
  <1> USE DEF KeyInv
  <1>1. generators = None /\ sk = {}
    BY SMTT(30) DEF NothingDerived
  <1>2. UNCHANGED <<sk, generators, found>>
    BY Zenon, <1>1 DEF ReproducedSk
  <1>3. NothingDerived'
    BY SMTT(30), <1>2 DEF NothingDerived
  <1>4. \/ GoOn(After(part))
        \/ \E r \in Seeds : guard' = TRUE /\ call' = [call EXCEPT !.stage = "relock", !.seed = New(r)]
    BY Zenon, <1>1 DEF ReproducedSk
  <1>5. CASE GoOn(After(part))
    BY <1>3, <1>5, GoOnStage DEF After
  <1>6. ASSUME NEW r \in Seeds, guard' = TRUE,
               call' = [call EXCEPT !.stage = "relock", !.seed = New(r)]
        PROVE  KeyInv'
    <2>1. call' = [pk |-> call.pk, stage |-> "relock", seed |-> New(r)]
      BY Zenon, <1>6 DEF Shape
    <2>2. Shape' /\ Blocked'
      BY Zenon, <1>6, <2>1 DEF Shape, Blocked
    <2>3. QED
      BY <1>3, <2>2
  <1>7. QED
    BY Zenon, <1>4, <1>5, <1>6

(* Every step keeps the invariant. *)
LEMMA KeyNext == KeyInv /\ [Next]_vars => KeyInv'
  <1> SUFFICES ASSUME KeyInv, [Next]_vars PROVE KeyInv'
    OBVIOUS
  <1>1. ASSUME NEW r \in Rands, AddRandomness(r) PROVE KeyInv'
    BY <1>1 DEF AddRandomness, KeyInv, Shape, Blocked, NothingDerived
  <1>2. ASSUME NEW pk \in PublicKeys, Ask(pk) PROVE KeyInv'
    BY <1>2 DEF Ask, KeyInv, Shape, Blocked, NothingDerived
  <1>3. CASE FindSk
    <2>1. CASE \E i \in DOMAIN rows : call.pk = Direct(rows[i])
      <3>1. call.pk.kind # "derived"
        BY <2>1 DEF Direct
      <3>2. Return /\ UNCHANGED <<sk, generators>>
        BY <1>3, <2>1 DEF FindSk
      <3>3. QED
        BY <3>1, <3>2, ReturnKeeps
    <2>2. CASE ~ \E i \in DOMAIN rows : call.pk = Direct(rows[i])
      <3>1. GoOn("ephemeral") /\ UNCHANGED <<sk, generators, found>>
        BY <1>3, <2>2 DEF FindSk
      <3>2. Shape' /\ Blocked'
        BY <3>1, GoOnStage DEF KeyInv
      <3>3. QED
        BY <3>1, <3>2 DEF KeyInv, NothingDerived
    <2>3. QED
      BY <2>1, <2>2
  <1>4. ASSUME NEW part \in Parts, ReproducedSk(part) PROVE KeyInv'
    BY <1>4, ReproducedSkKeeps
  <1>5. CASE Relock
    BY <1>5 DEF Relock, KeyInv, Blocked
  <1>6. CASE Restart
    BY <1>6 DEF Restart, KeyInv, Shape, Blocked, NothingDerived, Idle, Foreign
  <1>7. CASE UNCHANGED vars
    BY <1>7 DEF vars, KeyInv, Shape, Blocked, NothingDerived
  <1>8. QED
    BY <1>1, <1>2, <1>3, <1>4, <1>5, <1>6, <1>7 DEF Next, Lookup

(* reproduced_sk never returns, caches or keeps a generator for a secret   *)
(* derived from a seed, whatever was recorded: the search that finds the   *)
(* seed locks generators while it still holds that lock.                   *)
THEOREM NoDerivedSecret == Spec => []NothingDerived
  <1>1. Init => KeyInv
    BY DEF Init, KeyInv, Shape, Blocked, NothingDerived, Idle, Foreign
  <1>2. KeyInv => NothingDerived
    BY DEF KeyInv
  <1>3. QED
    BY <1>1, <1>2, KeyNext, PTL DEF Spec
=============================================================================
