---------------------------- MODULE KeyRecovery -----------------------------
(***************************************************************************)
(* How the recorder finds the secret of a public key it meets in a noise   *)
(* handshake: find_sk and find_sk_openmina of                              *)
(* mina-recorder/src/connection/noise.rs on top of                         *)
(* KeyGeneratorWithCache in mina-recorder/src/key_recover.rs.              *)
(*                                                                         *)
(* A Go program uses 32 bytes of randomness as a secret, so the recorded   *)
(* randomness is tried directly.  OpenMina uses them as a seed from which  *)
(* two sequences of secrets are derived, ephemeral and static ones; the    *)
(* recorder searches the seed among the latest randomness, and then keeps  *)
(* the generators and the secrets they yield.                              *)
(*                                                                         *)
(* All of it runs on the consumer thread; `guard` is the lock of           *)
(* `generators`, which that one thread takes twice.                        *)
(***************************************************************************)
EXTENDS Integers

CONSTANTS
    Rands,      \* 32-byte strings the traced programs read as randomness
    Parts,      \* {"ephemeral", "static"}
    None,       \* the Option without a value
    Batch,      \* secrets a call of KeyGenerator::find takes, 100
    SeedCap,    \* rows of randomness tried as a seed, 8
    MaxRows,    \* bounds of the model: randomness recorded,
    MaxNo       \* and secrets of a seed in use

VARIABLES
    rows,       \* table of randomness: a sequence from 0, persistent
    rnd_cnt,    \* DbFacade::rnd_cnt
    sk,         \* table of recovered secrets, persistent
    generators, \* None or the seed and how many secrets of each part were taken
    guard,      \* the lock of generators is held
    call,       \* the lookup in progress: [pk, stage, seed]
    found       \* history: public keys whose secret was returned

vars == <<rows, rnd_cnt, sk, generators, guard, call, found>>

Direct(r) == [kind |-> "direct", rand |-> r]
Derived(r, part, n) == [kind |-> "derived", rand |-> r, part |-> part, no |-> n]
Foreign == [kind |-> "foreign"]
PublicKeys ==
    {Direct(r) : r \in Rands} \cup {Foreign}
    \cup {Derived(r, p, n) : r \in Rands, p \in Parts, n \in 1 .. MaxNo}

Idle == [pk |-> Foreign, stage |-> "idle", seed |-> None]
New(r) == [seed |-> r, at |-> [p \in Parts |-> 0]]

Init ==
    /\ rows = [i \in {} |-> None]
    /\ rnd_cnt = 0
    /\ sk = {}
    /\ generators = None
    /\ guard = FALSE
    /\ call = Idle
    /\ found = {}

(* DbFacade::add_randomness; nothing ever writes the counter to the        *)
(* database.                                                               *)
AddRandomness(r) ==
    /\ call.stage = "idle"
    /\ rnd_cnt < MaxRows
    /\ rows' = [i \in DOMAIN rows \cup {rnd_cnt} |-> IF i = rnd_cnt THEN r ELSE rows[i]]
    /\ rnd_cnt' = rnd_cnt + 1
    /\ UNCHANGED <<sk, generators, guard, call, found>>

(* try_dh asks for the secret of a public key of the handshake. *)
Ask(pk) ==
    /\ call.stage = "idle"
    /\ call' = [pk |-> pk, stage |-> "direct", seed |-> None]
    /\ UNCHANGED <<rows, rnd_cnt, sk, generators, guard, found>>

Return == found' = found \cup {call.pk} /\ call' = Idle
GoOn(stage) == call' = IF stage = "end" THEN Idle ELSE [call EXCEPT !.stage = stage]

(* find_sk *)
FindSk ==
    /\ call.stage = "direct"
    /\ IF \E i \in DOMAIN rows : call.pk = Direct(rows[i])
       THEN Return ELSE GoOn("ephemeral") /\ UNCHANGED found
    /\ UNCHANGED <<rows, rnd_cnt, sk, generators, guard>>

(* KeyGenerator::find: the public key is among the next secrets of a part. *)
Next100(g, part) == {Derived(g.seed, part, n) : n \in g.at[part] + 1 .. g.at[part] + Batch}
Find(g, part) == call.pk \in Next100(g, part)

(* Rows tried as a seed: the last ones by number. *)
Seeds == {rows[i] : i \in {j \in DOMAIN rows : \A k \in DOMAIN rows : k < j + SeedCap}}

After(part) == IF part = "ephemeral" THEN "static" ELSE "end"

(* reproduced_sk::<part> as far as it gets with the guard taken at its     *)
(* `if let`: a secret in the table is returned before.  With generators    *)
(* they are taken out, and lost unless they find the key.  Without, the    *)
(* latest randomness is tried.  Finding the key means locking again.       *)
ReproducedSk(part) ==
    /\ call.stage = part
    /\ UNCHANGED <<rows, rnd_cnt>>
    /\ \/ call.pk \in sk /\ Return /\ UNCHANGED <<sk, generators, guard>>
       \/ /\ call.pk \notin sk
          /\ ~guard
          /\ IF generators # None
             THEN /\ generators' = None
                  /\ UNCHANGED found
                  /\ IF Find(generators, part)
                     THEN /\ sk' = sk \cup {k \in Next100(generators, part) : k.no <= call.pk.no}
                          /\ guard' = TRUE
                          /\ call' = [call EXCEPT !.stage = "relock",
                                                  !.seed = [generators EXCEPT !.at[part] = call.pk.no]]
                     ELSE /\ sk' = sk \cup Next100(generators, part)
                          /\ GoOn(After(part))
                          /\ UNCHANGED guard
             ELSE /\ UNCHANGED <<sk, generators, found>>
                  /\ \/ \E r \in Seeds :
                          /\ Find(New(r), part)
                          /\ guard' = TRUE
                          /\ call' = [call EXCEPT !.stage = "relock", !.seed = New(r)]
                     \/ /\ \A r \in Seeds : ~Find(New(r), part)
                        /\ GoOn(After(part))
                        /\ UNCHANGED guard

(* `*self.generators.lock() = Some(..)` with the first guard still alive:  *)
(* the temporary of an `if let` is dropped at the end of the whole         *)
(* expression, both branches included.                                     *)
Relock ==
    /\ call.stage = "relock"
    /\ ~guard
    /\ generators' = call.seed
    /\ Return
    /\ UNCHANGED <<rows, rnd_cnt, sk, guard>>

(* The recorder ends and starts again: RANDOMNESS_CNT was never written,   *)
(* so rows are numbered from 0 again.                                      *)
Restart ==
    /\ rnd_cnt' = 0
    /\ generators' = None
    /\ guard' = FALSE
    /\ call' = Idle
    /\ UNCHANGED <<rows, sk, found>>

Lookup == FindSk \/ (\E part \in Parts : ReproducedSk(part)) \/ Relock

Next ==
    \/ \E r \in Rands : AddRandomness(r)
    \/ \E pk \in PublicKeys : Ask(pk)
    \/ Lookup
    \/ Restart

(* The consumer thread goes on as long as it can. *)
Spec == Init /\ [][Next]_vars /\ WF_vars(Lookup)

-----------------------------------------------------------------------------
(* Properties *)

(* The secret of a program is found once its randomness is recorded, and a *)
(* lookup that does not find it ends too: the consumer thread comes back   *)
(* to its events.                                                          *)
LookupReturns == (call.stage # "idle") ~> (call.stage = "idle")

(* No secret derived from a seed is ever returned, cached or looked up in  *)
(* a generator: the search that finds the seed never returns.              *)
NothingDerived ==
    /\ generators = None
    /\ sk = {}
    /\ \A pk \in found : pk.kind # "derived"
=============================================================================
