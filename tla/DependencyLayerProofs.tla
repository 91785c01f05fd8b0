----------------------- MODULE DependencyLayerProofs -----------------------
(***************************************************************************)
(* What holds of DependencyLayer for any number of revisions, generations  *)
(* and crashes, as long as no crash falls into one of the known windows.   *)
(* The heart of the argument is Transaction: the manifest is that of the   *)
(* pending transaction or the one it is based on, and which of the two     *)
(* follows from its state and from what the holder of the lock does.       *)
(***************************************************************************)
EXTENDS DependencyLayer, WellFoundedInduction, TLAPS

Switching == {"save", "mark", "switch"}
Committing == {"confirm", "commit", "sweep", "archive"}
Returning == {"check", "return", "fail", "prune"}
Working == {"build", "migrate", "upgrade", "pending"}

\* The manifest is that of the pending transaction.
New == tx # None /\ manifest.plan = tx.plan
\* The pending transaction is through, but for its cleanup.
Closed == tx.state \in {"committed", "cleanup_pending"}
\* The source operation waits and needs packages of the layer; its new source
\* is there and does.
Asked == src.state = "pending_restart" /\ src.needs
Needs == src.live = "new" /\ src.needs

Verdict(v) == \A r \in Revs : /\ record[r] = "failed" => v # r
                              /\ record[r] = "committed" => v >= r

\* Who does what, and what he has in hand.
Places ==
    /\ phase = "boot" =>
         \/ pc = "merge"
         \/ pc \in {"apply", "source", "source_switch", "decide"}
                     \cup Working \cup Switching \cup Committing /\ caller = "apply"
         \/ pc \in Returning /\ caller \in {"apply", "verify"}
         \/ pc = "source_undo" /\ caller = "verify"
    /\ phase = "verify" =>
         \/ pc = "idle"
         \/ pc \in Committing \cup {"source_done"} /\ caller = "verify"
    /\ phase = "run" =>
         \/ pc \in {"idle", "stage", "discard", "clear"}
         \/ pc \in Switching \cup Committing \cup Returning \cup {"load"} /\ caller = "hot"
    /\ pc \in Working \cup Switching \cup Committing \cup Returning \cup {"load", "discard", "clear"}
         => tx # None
    /\ pc \in {"stage", "discard"} => draft # None
    /\ pc \in {"migrate", "upgrade", "pending"} \cup Switching => build # 0
    /\ pc \in {"idle", "clear", "decide", "source_switch", "source_done"} => build = 0

\* Revisions grow: what is pending is newer than its base and all verdicts.
Revisions ==
    /\ manifest.plan.rev <= lastRev
    /\ \A r \in Revs : (record[r] # "none" => r <= lastRev) /\ (backup[r] # None => r <= lastRev)
    /\ tx = None => Verdict(manifest.plan.rev)
    /\ tx # None =>
         /\ tx.rev <= lastRev /\ tx.rev = tx.plan.rev /\ tx.base.plan.rev < tx.rev
         /\ \A r \in Revs : (record[r] # "none" => r < tx.rev) /\ (backup[r] # None => r <= tx.rev)
         /\ Verdict(tx.base.plan.rev)

\* A transaction nobody has begun to apply.
Fresh(t) ==
    /\ t.state = "pending_restart" /\ t.rev = t.plan.rev
    /\ t.base = manifest /\ ~manifest.trial
    /\ manifest.plan.rev < t.rev /\ t.rev <= lastRev
    /\ \A r \in Revs : record[r] # "none" \/ backup[r] # None => r < t.rev
    /\ ~t.saved /\ ~t.rolledBack /\ ~t.confirmed
    /\ t.gen = 0 \/ t.gen # manifest.active
    /\ ~t.migrates => t.plan.schema = manifest.plan.schema
    /\ Needs => t.plan.src

Drafts ==
    /\ tx # None /\ tx.state = "pending_restart" => Fresh(tx)
    /\ pc = "stage" => Fresh(draft) /\ (tx # None => tx.state = "pending_restart")
    /\ pc = "discard" => tx.state = "pending_restart" /\ draft.gen \in {0} \cup (Gens \ {manifest.active})

\* The pending transaction and the manifest.
Transaction ==
    /\ manifest.trial => New
    /\ tx # None =>
         /\ ~tx.base.trial
         /\ New \/ manifest = tx.base
         /\ New => /\ tx.saved /\ ~tx.rolledBack
                   /\ manifest.active \notin {0, tx.base.active}
                   /\ ~manifest.trial => manifest.verified = tx.rev
                   /\ tx.state \notin {"pending_restart", "recovery_required"}
         /\ ~New => /\ ~Closed
                    /\ tx.state = "failed" => tx.rolledBack \/ pc = "fail"
                    /\ tx.state = "verification_pending" => pc \in Switching \cup {"fail"}
         /\ tx.rolledBack => tx.state = "failed"
         /\ tx.confirmed => Closed
         /\ Closed => ~manifest.trial
         /\ tx.state = "verification_pending" /\ New => tx.gen = manifest.active
         /\ tx.gen = 0 \/ tx.gen # tx.base.active
         /\ ~tx.migrates => tx.plan.schema = tx.base.plan.schema
         /\ tx.saved /\ (tx.state \in {"building", "verification_pending"} \/ (New /\ ~Closed))
              => rollback = tx.base

\* What the holder of the lock has found or done so far.
Procedure ==
    /\ pc \in Working => tx.state = "building"
    /\ pc \in Switching => tx.state = IF caller = "hot" THEN "verification_pending" ELSE "building"
    /\ pc \in Switching /\ caller = "hot" => tx.gen = build
    /\ caller = "hot" /\ pc \in Switching \cup Committing \cup Returning \cup {"load"} => ~tx.migrates
    /\ pc \in {"pending", "load", "check", "return"} => manifest.trial
    /\ pc = "pending" => manifest.active = build
    /\ pc = "load" => tx.state = "verification_pending"
    /\ pc = "mark" => rollback = tx.base
    /\ pc = "switch" => tx.saved
    /\ pc = "fail" => ~New
    /\ pc = "prune" => tx.rolledBack
    /\ pc \in Committing => New
    /\ pc \in {"commit", "sweep", "archive"} => ~manifest.trial
    /\ pc \in {"sweep", "archive"} => Closed
    /\ phase = "run" /\ pc \in {"idle", "stage", "discard", "clear"} => ~manifest.trial
    /\ pc = "source_done" => ~manifest.trial

\* The layers that may be needed are there.
LayersKept ==
    /\ Whole(manifest)
    /\ tx # None /\ ~Closed => Whole(tx.base)
    /\ pc \in {"migrate", "upgrade"} \cup Switching =>
         layers[build] = tx.plan /\ build # tx.base.active
    /\ pc = "stage" => build # manifest.active \/ build = 0

\* A migration is under way, or was cut short by a crash: the layer it is for
\* is built, and the databases are backed up.
Migrating ==
    /\ phase = "boot" /\ tx # None /\ tx.state = "building" /\ tx.migrates
    /\ StagedBuild(tx) /\ backup[tx.rev] # None
    /\ pc \in {"merge", "apply", "build", "migrate", "upgrade"} \cup Switching
    /\ pc \in {"merge", "apply", "build", "migrate"} => ~Asked
    /\ pc = "apply" => round.ready

Databases ==
    /\ db = manifest.plan.schema \/ Recovery \/ Migrating \/ (phase = "boot" /\ pc = "return")
    /\ tx # None /\ backup[tx.rev] # None => tx.migrates /\ backup[tx.rev] = tx.base.plan.schema
    /\ New /\ tx.migrates /\ (manifest.trial \/ tx.state = "building") => backup[tx.rev] # None
    /\ pc = "return" => db = tx.base.plan.schema
    /\ pc \in {"clear", "fail"} => ~Recovery
    /\ pc \in Switching => db = tx.plan.schema
    /\ pc \in {"migrate", "upgrade"} => tx.migrates
    /\ pc = "upgrade" \/ (pc \in Switching /\ tx.migrates) => backup[tx.rev] # None /\ tx.gen = build

\* The source operation and what the launcher knows of it.
Sources ==
    /\ src.live = Torn <=> src.state = "applying"
    /\ src.state \in {"pending_restart", "failed"} => src.live = "old"
    /\ src.state = "verification_pending" => src.live = "new"
    /\ src.state = "applying" /\ ~Recovery =>
         /\ phase = "boot" /\ pc \notin {"decide", "source_undo"} \cup Returning
         /\ tx # None => tx.state # "pending_restart"
         /\ pc \notin {"merge", "source_switch"} => round.ready
         /\ pc \notin {"merge", "apply", "source_switch"} => ~round.fresh
    /\ pc = "source_switch" =>
         /\ src.state = "applying" /\ ~Recovery
         /\ src.needs => manifest.plan.src /\ New /\ tx.state = "verification_pending"
    /\ pc = "apply" /\ Asked => round.ready /\ tx # None /\ tx.state = "pending_restart" /\ tx.plan.src
    /\ phase = "boot" /\ pc \in Working \cup Switching /\ Asked =>
         round.ready /\ round.fresh /\ tx.plan.src
    /\ phase = "boot" /\ pc \in Committing => ~Asked
    /\ pc = "source" /\ Asked =>
         /\ round.ready
         /\ \/ manifest.plan.src /\ New /\ tx.state = "verification_pending"
            \/ round.fresh /\ tx # None /\ tx.state \in {"failed", "recovery_required"}
    /\ pc = "source" /\ round.ready /\ tx # None => tx.state # "pending_restart"
    /\ pc = "decide" => ~Asked

Undoing == phase = "boot" /\ pc \in {"fail", "prune", "source_undo"}
               /\ src.state = "verification_pending" /\ round.verifyDeps /\ round.verifySource

Packages ==
    /\ Needs => manifest.plan.src \/ Recovery \/ Undoing
    /\ Needs /\ tx # None /\ ~tx.rolledBack /\ ~Recovery /\ ~Undoing => tx.plan.src
    /\ Needs /\ src.state = "none" /\ tx # None /\ ~Closed /\ ~Recovery => tx.base.plan.src
    /\ Needs /\ src.state = "verification_pending" =>
         /\ phase # "run"
         /\ tx # None => Undoing \/ (New /\ (tx.state = "verification_pending" \/ Closed))
    /\ phase = "verify" /\ pc \in {"idle", "source_done"} /\ New /\ ~manifest.trial
         => tx.state # "verification_pending"

\* What the launcher verifies in this round.
Round ==
    /\ phase = "verify" => ~Recovery
    /\ phase = "verify" /\ pc = "idle" =>
         (round.verifyDeps <=> manifest.trial) /\ (round.verifyDeps \/ round.verifySource)
    /\ phase = "verify" \/ (phase = "boot" /\ caller = "verify" /\ pc \in Returning \cup {"source_undo"}) =>
         (round.verifySource <=> src.state = "verification_pending")
    /\ phase = "boot" /\ caller = "verify" /\ pc \in Returning => round.verifyDeps
    /\ phase = "boot" /\ caller = "apply" /\ pc \in Returning => src.state = "failed"
    /\ phase = "boot" /\ pc \in {"apply"} \cup Working \cup Switching \cup Committing => ~round.applied
    /\ pc \in {"source", "source_switch"} /\ round.applied => manifest.trial

NoWindow == Windows = {}

-----------------------------------------------------------------------------
\* The order of the naturals is well-founded.
LEMMA NatOrder ==
    \E R : IsWellFoundedOn(R, Nat) /\ \A a, b \in Nat : a < b => <<a, b>> \in R
<1>1. \A a, b \in Nat : a < b => <<a, b>> \in OpToRel(<, Nat)
  BY DEF OpToRel
<1> QED BY <1>1, NatLessThanWellFounded, Zenon

\* A set of naturals has a least element.
LEMMA LeastNat ==
    ASSUME NEW T, T \subseteq Nat, T # {}
    PROVE  \E m \in T : \A k \in T : m <= k
<1>1. PICK R : IsWellFoundedOn(R, Nat) /\ \A a, b \in Nat : a < b => <<a, b>> \in R
  BY NatOrder
<1>2. \E m \in T : \A k \in T : ~ (<<k, m>> \in R)
  <2>1. IsWellFoundedOn(R, Nat) /\ T \subseteq Nat /\ T # {}
    BY <1>1
  <2>2. ASSUME NEW S, IsWellFoundedOn(R, S), NEW U, U \subseteq S, U # {}
        PROVE  \E m \in U : \A k \in U : ~ (<<k, m>> \in R)
    BY <2>2, WFMin, Zenon
  <2> QED BY <2>1, <2>2
<1>3. PICK m \in T : \A k \in T : ~ (<<k, m>> \in R)
  BY <1>2
<1>4. ASSUME NEW k \in T PROVE m <= k
  <2>1. k \in Nat /\ m \in Nat /\ ~(k < m)
    BY <1>1, <1>3
  <2> QED BY <2>1
<1> QED BY <1>4

\* Max is the greatest element of a bounded set of naturals.
LEMMA MaxOf ==
    ASSUME NEW n \in Nat, NEW S, S \subseteq 0..n, S # {}
    PROVE  Max(S) \in S /\ \A x \in S : x <= Max(S)
<1> DEFINE T == {n - x : x \in S}
<1>1. \A x \in S : x \in Nat /\ x <= n /\ n - x \in T /\ n - x \in Nat
  OBVIOUS
<1>2. T \subseteq Nat /\ T # {}
  BY <1>1
<1>3. PICK m \in T : \A k \in T : m <= k
  BY <1>2, LeastNat
<1>4. PICK x \in S : m = n - x
  BY <1>3
<1> HIDE DEF T
<1>5. \A y \in S : x >= y
  BY <1>1, <1>3, <1>4
<1> QED BY <1>1, <1>5 DEF Max

\* The next generation is a number that neither the manifest nor a layer has.
LEMMA NextIsFree ==
    ASSUME TypeOK
    PROVE  /\ NextGeneration \in Nat \ {0} /\ NextGeneration # manifest.active
           /\ NextGeneration <= MaxGen => NextGeneration \in Gens /\ layers[NextGeneration] = None
<1> DEFINE S == Existing \cup {manifest.active}
<1>1. S \subseteq 0..MaxGen /\ S # {} /\ manifest.active \in S
  BY ConstantsAssumption DEF ConstantsAssumption, TypeOK, Manifest, Existing, Gens
<1> HIDE DEF S
<1>2. Max(S) \in S /\ \A x \in S : x <= Max(S)
  BY <1>1, MaxOf, ConstantsAssumption DEF ConstantsAssumption
<1>3. Max(S) \in Nat /\ Max(S) >= manifest.active /\ NextGeneration = 1 + Max(S)
  BY ConstantsAssumption, <1>1, <1>2 DEF ConstantsAssumption, NextGeneration, S
<1>4. \A g \in Gens : layers[g] # None => g <= Max(S)
  BY <1>2 DEF S, Existing
<1> QED BY <1>1, <1>3, <1>4 DEF TypeOK, Manifest, Gens

\* The constants the variables are given.
LEMMA Members ==
    /\ {"pending_restart", "building", "verification_pending", "committed",
        "cleanup_pending", "failed", "recovery_required"} \subseteq TxStates
    /\ {"idle", "stage", "discard", "clear", "load", "merge", "apply",
        "build", "migrate", "upgrade", "save", "mark", "switch", "pending",
        "source", "source_switch", "decide", "check", "return",
        "fail", "prune", "confirm", "commit", "sweep", "archive",
        "source_done", "source_undo"} \subseteq PCs
    /\ None \notin Plan /\ None \notin Manifest /\ None \notin Tx /\ None # Torn
    /\ None \notin Schemas /\ Torn \notin Schemas /\ Torn # "old" /\ Torn # "new"
    /\ 0 \in Schemas /\ Revs \subseteq Schemas /\ Schemas \subseteq Nat
    /\ 0 \in 0..MaxGen /\ Gens = (0..MaxGen) \ {0}
  BY ConstantsAssumption DEF ConstantsAssumption, TxStates, PCs, Revs, Schemas, Gens

\* The fields of the records, and what the actions change in them.
LEMMA TxIs == \A t \in Tx :
           /\ t.state \in TxStates /\ t.rev \in Revs /\ t.plan \in Plan /\ t.base \in Manifest
           /\ t.gen \in 0..MaxGen /\ t.migrates \in BOOLEAN /\ t.saved \in BOOLEAN
           /\ t.rolledBack \in BOOLEAN /\ t.confirmed \in BOOLEAN
           /\ \A s \in TxStates :
                /\ [t EXCEPT !.state = s] \in Tx
                /\ [t EXCEPT !.state = s, !.confirmed = TRUE] \in Tx
                /\ \A b \in BOOLEAN : [t EXCEPT !.state = s, !.rolledBack = b] \in Tx
                /\ \A g \in 0..MaxGen : [t EXCEPT !.state = s, !.gen = g] \in Tx
           /\ \A g \in 0..MaxGen : [t EXCEPT !.gen = g] \in Tx
           /\ [t EXCEPT !.saved = TRUE] \in Tx
  BY DEF Tx

LEMMA ManifestIs ==
    /\ \A m \in Manifest :
         /\ m.active \in 0..MaxGen /\ m.plan \in Plan /\ m.trial \in BOOLEAN /\ m.verified \in Schemas
         /\ \A r \in Schemas : [m EXCEPT !.trial = FALSE, !.verified = r] \in Manifest
    /\ \A g \in 0..MaxGen, p \in Plan :
         [active |-> g, plan |-> p, trial |-> TRUE, verified |-> 0] \in Manifest
  BY Members DEF Manifest

LEMMA PlanIs ==
    \A p \in Plan :
      /\ p.rev \in Schemas /\ p.src \in BOOLEAN /\ p.schema \in Schemas
      /\ \A r \in Revs : [p EXCEPT !.src = TRUE, !.rev = r] \in Plan
      /\ \A r, x \in Schemas : [p EXCEPT !.rev = r, !.schema = x] \in Plan
  BY Members DEF Plan

LEMMA SourceIs ==
    \A s \in Source :
      /\ s.state \in SourceStates /\ s.needs \in BOOLEAN /\ s.live \in {"old", "new", Torn}
      /\ \A x \in {"none", "failed"} : [s EXCEPT !.state = x] \in Source
      /\ \A b \in BOOLEAN : [s EXCEPT !.state = "pending_restart", !.needs = b] \in Source
      /\ [s EXCEPT !.state = "applying", !.live = Torn] \in Source
      /\ [s EXCEPT !.state = "verification_pending", !.live = "new"] \in Source
      /\ [s EXCEPT !.state = "failed", !.live = "old"] \in Source
  BY DEF Source, SourceStates

LEMMA RoundIs ==
    /\ NoRound \in Rounds
    /\ \A r \in Rounds :
         /\ r.fresh \in BOOLEAN /\ r.source \in BOOLEAN /\ r.ready \in BOOLEAN
         /\ r.applied \in BOOLEAN /\ r.verifyDeps \in BOOLEAN /\ r.verifySource \in BOOLEAN
         /\ [r EXCEPT !.applied = TRUE] \in Rounds /\ [r EXCEPT !.source = TRUE] \in Rounds
         /\ \A b \in BOOLEAN : /\ [r EXCEPT !.fresh = b] \in Rounds
                               /\ [r EXCEPT !.ready = TRUE, !.source = b] \in Rounds
                               /\ \A d \in BOOLEAN :
                                    [r EXCEPT !.verifyDeps = b, !.verifySource = d] \in Rounds
  BY DEF Rounds, NoRound

\* A backup is a schema, or there is none.
LEMMA BackupIs ==
    ASSUME TypeOK
    PROVE  \A r \in Revs : backup[r] \in Schemas \cup {None}
  BY DEF TypeOK, Backups

\* What the actions do to the layers, the backups and the records.
LEMMA FilesAre ==
    ASSUME TypeOK
    PROVE  /\ \A g \in Gens, p \in Plan \cup {None} : [layers EXCEPT ![g] = p] \in Layers
           /\ \A g \in 0..MaxGen : Discarded(g) \in Layers
           /\ \A S : Kept(S) \in Layers
           /\ [r \in Revs |-> None] \in Backups
           /\ \A r \in Revs, x \in Schemas : [backup EXCEPT ![r] = x] \in Backups
           /\ \A t \in Tx : Archived(t) \in Records
  BY Members, TxIs DEF TypeOK, Layers, Backups, Records, Discarded, Kept, Archived

\* What the store and the launcher read as the pending transaction.
LEMMA PendingIs ==
    ASSUME TypeOK, tx # None
    PROVE  /\ Pending \in Tx /\ Pending # None
           /\ Pending.state = IF Verified(tx) THEN "cleanup_pending" ELSE tx.state
           /\ Pending.confirmed = IF Verified(tx) THEN TRUE ELSE tx.confirmed
           /\ Pending.rev = tx.rev /\ Pending.plan = tx.plan /\ Pending.base = tx.base
           /\ Pending.gen = tx.gen /\ Pending.migrates = tx.migrates
           /\ Pending.saved = tx.saved /\ Pending.rolledBack = tx.rolledBack
<1>1. tx \in Tx
  BY DEF TypeOK
<1>2. CASE Verified(tx)
  BY <1>1, <1>2, Members DEF Pending, Tx
<1>3. CASE ~Verified(tx)
  BY <1>1, <1>3, Members DEF Pending
<1> QED BY <1>2, <1>3

\* A draft is a transaction.
LEMMA DraftIs ==
    ASSUME TypeOK, NEW t \in Tx \cup {None}, NEW p \in Plan, p.rev \in Revs,
           NEW migrates \in BOOLEAN
    PROVE  Draft(t, p, migrates) \in Tx
<1>1. manifest \in Manifest
  BY DEF TypeOK
<1>2. CASE t = None
  BY Members, <1>1, <1>2 DEF Draft, Tx, TxStates
<1>3. CASE t # None
  BY Members, <1>1, <1>3 DEF Draft, Tx, TxStates
<1> QED BY <1>2, <1>3

\* The plan of a new revision keeps what the one before it had.
LEMMA TargetIs ==
    ASSUME TypeOK, lastRev < MaxRevs, NEW t \in Tx \cup {None}, NEW migrates \in BOOLEAN
    PROVE  /\ Target(t, migrates) \in Plan /\ Target(t, migrates).rev = lastRev + 1
           /\ Target(t, migrates).src = IF t = None THEN manifest.plan.src ELSE t.plan.src
           /\ Target(t, migrates).schema = IF migrates THEN lastRev + 1
                                           ELSE IF t = None THEN manifest.plan.schema ELSE t.plan.schema
           /\ lastRev + 1 \in Revs
<1>1. manifest.plan \in Plan /\ (t # None => t.plan \in Plan)
  BY ManifestIs, TxIs DEF TypeOK
<1>2. lastRev + 1 \in Revs /\ lastRev + 1 \in Schemas
  BY ConstantsAssumption DEF ConstantsAssumption, TypeOK, Revs, Schemas
<1>3. CASE t = None
  BY <1>1, <1>2, <1>3 DEF Target, Plan
<1>4. CASE t # None
  BY <1>1, <1>2, <1>4 DEF Target, Plan
<1> QED BY <1>3, <1>4

\* The numbers are numbers.
LEMMA Numbers ==
    ASSUME TypeOK
    PROVE  /\ manifest.plan.rev \in Nat /\ manifest.plan.schema \in Schemas /\ lastRev \in Nat
           /\ manifest.active \in 0..MaxGen /\ manifest \in Manifest /\ build \in 0..MaxGen
           /\ Revs \subseteq Nat
           /\ \A t \in Tx : /\ t.rev \in Revs /\ t.rev \in Nat /\ t.plan.rev \in Nat
                            /\ t.base.plan.rev \in Nat /\ t.base \in Manifest
                            /\ t.gen \in 0..MaxGen /\ t.base.active \in 0..MaxGen
                            /\ t.plan.schema \in Schemas /\ t.base.plan.schema \in Schemas
           /\ tx # None => tx \in Tx
           /\ draft # None => draft \in Tx
<1>1. manifest \in Manifest /\ lastRev \in Nat /\ build \in 0..MaxGen /\ Revs \subseteq Nat
  BY ConstantsAssumption DEF TypeOK, ConstantsAssumption, Revs
<1>2. \A m \in Manifest : m.active \in 0..MaxGen /\ m.plan \in Plan
  BY ManifestIs
<1>3. \A p \in Plan : p.rev \in Nat /\ p.schema \in Schemas
  BY PlanIs, Members
<1>4. ASSUME NEW t \in Tx
      PROVE  /\ t.rev \in Revs /\ t.rev \in Nat /\ t.plan.rev \in Nat
             /\ t.base.plan.rev \in Nat /\ t.base \in Manifest
             /\ t.gen \in 0..MaxGen /\ t.base.active \in 0..MaxGen
             /\ t.plan.schema \in Schemas /\ t.base.plan.schema \in Schemas
  BY <1>1, <1>2, <1>3, TxIs
<1>5. (tx # None => tx \in Tx) /\ (draft # None => draft \in Tx)
  BY DEF TypeOK
<1> QED BY <1>1, <1>2, <1>3, <1>4, <1>5

\* A settled transaction is through, or its base is back.
LEMMA SettledIs ==
    ASSUME TypeOK, Transaction, Settled, pc \notin Switching \cup {"fail"}
    PROVE  /\ tx # None /\ tx \in Tx /\ ~manifest.trial
           /\ tx.rolledBack => manifest = tx.base /\ ~New
           /\ ~tx.rolledBack => New
           /\ Archived(Pending) = [record EXCEPT ![tx.rev] =
                                     IF tx.rolledBack THEN "failed" ELSE "committed"]
<1>1. tx # None /\ tx \in Tx /\ ~manifest.trial
  BY DEF Settled, Pending, TypeOK
<1>2. Pending.rev = tx.rev /\ Pending.rolledBack = tx.rolledBack
  BY <1>1, PendingIs
<1>3. tx.rolledBack => manifest = tx.base /\ ~New
  BY <1>1 DEF Transaction
<1>4. ASSUME ~tx.rolledBack PROVE New
  <2>1. tx.confirmed \/ Verified(tx)
    BY <1>1, <1>2, <1>4, PendingIs DEF Settled
  <2> QED BY <1>1, <2>1 DEF Transaction, Verified
<1> QED BY <1>1, <1>2, <1>3, <1>4 DEF Archived

\* The verdicts agree with the manifest,
LEMMA VerdictNow ==
    ASSUME TypeOK, Revisions, Transaction
    PROVE  Verdict(manifest.plan.rev)
<1>1. CASE tx = None \/ manifest = tx.base
  BY <1>1 DEF Revisions
<1>2. CASE New
  BY <1>2, Numbers DEF New, Revisions, Verdict
<1> QED BY <1>1, <1>2 DEF Transaction

\* also after a new one.
LEMMA VerdictNext ==
    ASSUME TypeOK, Revisions, Transaction, Settled, pc \notin Switching \cup {"fail"},
           record' = Archived(Pending)
    PROVE  \A r \in Revs : /\ record'[r] = "failed" => manifest.plan.rev # r
                           /\ record'[r] = "committed" => manifest.plan.rev >= r
                           /\ record'[r] # "none" => r <= lastRev
<1>1. tx # None /\ tx \in Tx /\ (tx.rolledBack => manifest = tx.base) /\ (~tx.rolledBack => New)
  BY SettledIs
<1>2. record' = [record EXCEPT ![tx.rev] = IF tx.rolledBack THEN "failed" ELSE "committed"]
  BY SettledIs
<1>3. SUFFICES ASSUME NEW r \in Revs
               PROVE  /\ record'[r] = "failed" => manifest.plan.rev # r
                      /\ record'[r] = "committed" => manifest.plan.rev >= r
                      /\ record'[r] # "none" => r <= lastRev
  OBVIOUS
<1>4. DOMAIN record = Revs
  BY DEF TypeOK, Records
<1>5. Verdict(manifest.plan.rev)
  BY VerdictNow
<1>6. CASE r = tx.rev
  <2>1. record'[r] = IF tx.rolledBack THEN "failed" ELSE "committed"
    BY <1>2, <1>4, <1>6
  <2> QED BY <1>1, <1>6, <2>1, Numbers DEF Revisions, New
<1>7. CASE r # tx.rev
  <2>1. record'[r] = record[r]
    BY <1>2, <1>4, <1>7
  <2> QED BY <1>5, <2>1 DEF Verdict, Revisions
<1> QED BY <1>6, <1>7

\* The pending transaction stays the same one: nothing that identifies it or
\* says what it is for changes.
Same == /\ tx # None /\ tx' \in Tx
        /\ tx'.rev = tx.rev /\ tx'.plan = tx.plan /\ tx'.base = tx.base
        /\ tx'.migrates = tx.migrates

\* What the actions that write pending.json do to it.
LEMMA Writes ==
    ASSUME TypeOK, Places
    PROVE  /\ StageWrite => /\ tx' \in Tx /\ draft \in Tx /\ tx'.gen = build
                            /\ tx'.state = draft.state /\ tx'.rev = draft.rev /\ tx'.plan = draft.plan
                            /\ tx'.base = draft.base /\ tx'.migrates = draft.migrates
                            /\ tx'.saved = draft.saved /\ tx'.rolledBack = draft.rolledBack
                            /\ tx'.confirmed = draft.confirmed
           /\ ApplyFails => /\ Same /\ tx'.state = "failed" /\ tx'.confirmed = tx.confirmed
                            /\ tx'.gen = tx.gen \/ (pc = "migrate" /\ tx'.gen = build)
                            /\ tx'.saved <=> tx.saved \/ pc = "mark"
                            /\ NoWindow => /\ tx'.rolledBack = (manifest.active = tx.base.active)
                                           /\ db = manifest.plan.schema
           /\ MigrateBackup => /\ Same /\ tx'.state = tx.state /\ tx'.gen = build
                               /\ tx'.rolledBack = tx.rolledBack
                               /\ tx'.saved = tx.saved /\ tx'.confirmed = tx.confirmed
           /\ MigrateFails => /\ Same /\ tx'.gen = tx.gen
                              /\ \/ tx'.state = "failed" /\ tx'.rolledBack /\ db' = backup[tx.rev]
                                 \/ tx'.state = "recovery_required" /\ tx'.rolledBack = tx.rolledBack /\ db' = Torn
                              /\ tx'.saved = tx.saved /\ tx'.confirmed = tx.confirmed
           /\ MarkSaved => /\ Same /\ tx'.state = tx.state /\ tx'.gen = tx.gen /\ tx'.saved
                           /\ tx'.rolledBack = tx.rolledBack /\ tx'.confirmed = tx.confirmed
           /\ MarkPending => /\ Same /\ tx'.state = "verification_pending" /\ tx'.gen = build
                             /\ tx'.rolledBack = tx.rolledBack
                             /\ tx'.saved = tx.saved /\ tx'.confirmed = tx.confirmed
           /\ FailTransaction => /\ Same /\ tx'.state = "failed" /\ tx'.gen = tx.gen
                                 /\ tx'.rolledBack
                                 /\ tx'.saved = tx.saved /\ tx'.confirmed = tx.confirmed
           /\ Confirm => /\ Same /\ tx'.gen = tx.gen /\ tx'.rolledBack = tx.rolledBack
                         /\ tx'.saved = tx.saved
                         /\ \/ tx'.state = tx.state /\ tx'.confirmed = tx.confirmed
                            \/ tx'.state = "cleanup_pending" /\ tx'.confirmed
           /\ Commit => /\ Same /\ tx'.state = "committed" /\ tx'.gen = tx.gen
                        /\ tx'.rolledBack = tx.rolledBack
                        /\ tx'.saved = tx.saved /\ tx'.confirmed
<1> USE Members DEF Places, Committing, Returning, Working, Switching, At
<1>1. (tx # None => tx \in Tx) /\ (draft # None => draft \in Tx) /\ build \in 0..MaxGen
  BY DEF TypeOK
<1>2. ASSUME StageWrite
   PROVE  /\ tx' \in Tx /\ draft \in Tx /\ tx'.gen = build
          /\ tx'.state = draft.state /\ tx'.rev = draft.rev /\ tx'.plan = draft.plan
          /\ tx'.base = draft.base /\ tx'.migrates = draft.migrates
          /\ tx'.saved = draft.saved /\ tx'.rolledBack = draft.rolledBack
          /\ tx'.confirmed = draft.confirmed
  BY <1>1, <1>2 DEF StageWrite, Tx
<1>3. ASSUME ApplyFails
   PROVE  /\ Same /\ tx'.state = "failed" /\ tx'.confirmed = tx.confirmed
          /\ tx'.gen = tx.gen \/ (pc = "migrate" /\ tx'.gen = build)
          /\ tx'.saved <=> tx.saved \/ pc = "mark"
          /\ NoWindow => /\ tx'.rolledBack = (manifest.active = tx.base.active)
                         /\ db = manifest.plan.schema
  <2>1. tx \in Tx /\ tx # None
    BY <1>1, <1>3 DEF ApplyFails
  <2> DEFINE migrated == tx.migrates /\ pc \notin {"build", "migrate"}
             untouched == manifest.active = tx.base.active
             gen == IF pc = "migrate" THEN build ELSE tx.gen
             saved == tx.saved \/ pc = "mark"
             back == ~migrated /\ untouched
  <2>2. /\ tx' = [tx EXCEPT !.state = "failed", !.gen = gen, !.saved = saved, !.rolledBack = back]
        /\ NoWindow => db = manifest.plan.schema /\ ~(migrated /\ untouched)
    BY <1>3 DEF ApplyFails, NoWindow
  <2>3. gen \in 0..MaxGen /\ saved \in BOOLEAN /\ back \in BOOLEAN
    BY <1>1, <2>1 DEF Tx
  <2>4. NoWindow => back = untouched
    BY <2>2
  <2> HIDE DEF saved, back
  <2>5. /\ tx' \in Tx /\ tx'.state = "failed" /\ tx'.gen = gen /\ tx'.saved = saved
        /\ tx'.rolledBack = back /\ tx'.rev = tx.rev /\ tx'.plan = tx.plan
        /\ tx'.base = tx.base /\ tx'.migrates = tx.migrates /\ tx'.confirmed = tx.confirmed
    BY <2>1, <2>2, <2>3 DEF Tx, TxStates
  <2>6. Same
    BY <2>1, <2>5 DEF Same
  <2>7. (tx'.saved <=> tx.saved \/ pc = "mark") /\ (tx'.gen = tx.gen \/ (pc = "migrate" /\ tx'.gen = build))
    BY <2>5 DEF saved
  <2> QED BY <2>2, <2>4, <2>5, <2>6, <2>7
<1>4. ASSUME MigrateBackup
   PROVE  /\ Same /\ tx'.state = tx.state /\ tx'.gen = build
          /\ tx'.rolledBack = tx.rolledBack
          /\ tx'.saved = tx.saved /\ tx'.confirmed = tx.confirmed
  <2>1. tx \in Tx
    BY <1>1, <1>4 DEF MigrateBackup
  <2> QED BY <1>1, <1>4, <2>1 DEF MigrateBackup, Same, Tx, TxStates
<1>5. ASSUME MigrateFails
   PROVE  /\ Same /\ tx'.gen = tx.gen
          /\ \/ tx'.state = "failed" /\ tx'.rolledBack /\ db' = backup[tx.rev]
             \/ tx'.state = "recovery_required" /\ tx'.rolledBack = tx.rolledBack /\ db' = Torn
          /\ tx'.saved = tx.saved /\ tx'.confirmed = tx.confirmed
  <2>1. tx \in Tx
    BY <1>1, <1>5 DEF MigrateFails
  <2> QED BY <1>1, <1>5, <2>1 DEF MigrateFails, Same, Tx, TxStates
<1>6. ASSUME MarkSaved
   PROVE  /\ Same /\ tx'.state = tx.state /\ tx'.gen = tx.gen /\ tx'.saved
          /\ tx'.rolledBack = tx.rolledBack /\ tx'.confirmed = tx.confirmed
  <2>1. tx \in Tx
    BY <1>1, <1>6 DEF MarkSaved
  <2> QED BY <1>1, <1>6, <2>1 DEF MarkSaved, Same, Tx, TxStates
<1>7. ASSUME MarkPending
   PROVE  /\ Same /\ tx'.state = "verification_pending" /\ tx'.gen = build
          /\ tx'.rolledBack = tx.rolledBack
          /\ tx'.saved = tx.saved /\ tx'.confirmed = tx.confirmed
  <2>1. tx \in Tx
    BY <1>1, <1>7 DEF MarkPending
  <2> QED BY <1>1, <1>7, <2>1 DEF MarkPending, Same, Tx, TxStates
<1>8. ASSUME FailTransaction
   PROVE  /\ Same /\ tx'.state = "failed" /\ tx'.gen = tx.gen
          /\ tx'.rolledBack
          /\ tx'.saved = tx.saved /\ tx'.confirmed = tx.confirmed
  <2>1. tx \in Tx
    BY <1>1, <1>8 DEF FailTransaction
  <2> QED BY <1>1, <1>8, <2>1 DEF FailTransaction, Same, Tx, TxStates
<1>9. ASSUME Confirm
   PROVE  /\ Same /\ tx'.gen = tx.gen /\ tx'.rolledBack = tx.rolledBack
          /\ tx'.saved = tx.saved
          /\ \/ tx'.state = tx.state /\ tx'.confirmed = tx.confirmed
             \/ tx'.state = "cleanup_pending" /\ tx'.confirmed
  <2>1. tx # None /\ tx' = Pending
    BY <1>9 DEF Confirm
  <2> QED BY <1>1, <2>1, PendingIs DEF Same
<1>10. ASSUME Commit
   PROVE  /\ Same /\ tx'.state = "committed" /\ tx'.gen = tx.gen
          /\ tx'.rolledBack = tx.rolledBack
          /\ tx'.saved = tx.saved /\ tx'.confirmed
  <2>1. tx \in Tx
    BY <1>1, <1>10 DEF Commit
  <2> QED BY <1>1, <1>10, <2>1 DEF Commit, Same, Tx, TxStates
<1> QED BY <1>2, <1>3, <1>4, <1>5, <1>6, <1>7, <1>8, <1>9, <1>10

\* The launcher leaves the transaction alone or begins to build it.
LEMMA ApplyWrites ==
    ASSUME TypeOK, Apply
    PROVE  \/ tx' = tx /\ pc' \in {"source", "confirm"}
           \/ /\ Same /\ tx'.state = "building" /\ tx'.gen = tx.gen
              /\ tx'.rolledBack = tx.rolledBack
              /\ tx'.saved = tx.saved /\ tx'.confirmed = tx.confirmed
              /\ round.ready /\ StateIs({"pending_restart", "building"}) /\ pc' = "build"
<1>1. CASE pc' # "build"
  BY <1>1 DEF Apply
<1>2. CASE pc' = "build"
  <2>1. /\ tx # None /\ tx' = [tx EXCEPT !.state = "building"]
        /\ round.ready /\ StateIs({"pending_restart", "building"})
    BY <1>2 DEF Apply, StateIs, Pending
  <2>2. tx \in Tx
    BY <2>1 DEF TypeOK
  <2> QED BY <1>2, <2>1, <2>2, Members DEF Same, Tx
<1> QED BY <1>1, <1>2

\* A sweep that fails leaves the transaction to be cleaned up.
LEMMA SweepWrites ==
    ASSUME TypeOK, Places, Sweep
    PROVE  /\ Same /\ tx'.gen = tx.gen /\ tx'.rolledBack = tx.rolledBack
           /\ tx'.saved = tx.saved /\ tx'.confirmed = tx.confirmed
           /\ \/ tx'.state = tx.state
              \/ tx'.state = "cleanup_pending" /\ rollback' = rollback
<1>1. tx # None /\ tx \in Tx
  BY DEF Sweep, Places, Committing, TypeOK
<1>2. CASE tx' = tx
  BY <1>1, <1>2 DEF Same
<1>3. CASE tx' = [tx EXCEPT !.state = "cleanup_pending"] /\ rollback' = rollback
  BY <1>1, <1>3, Members DEF Same, Tx
<1> QED BY <1>2, <1>3 DEF Sweep

\* Confirming only ends the trial.
LEMMA ConfirmEnds ==
    ASSUME TypeOK, Confirm
    PROVE  /\ manifest'.active = manifest.active /\ manifest'.plan = manifest.plan
           /\ ~manifest'.trial /\ manifest'.verified = tx.rev
  BY DEF Confirm, TypeOK, Manifest

\* What the actions that draft a transaction put into it.
LEMMA StageDrafts ==
    ASSUME TypeOK, NEW migrates \in BOOLEAN, NEW deferred \in BOOLEAN, BeginStage(migrates, deferred)
    PROVE  /\ draft' \in Tx /\ draft'.state = "pending_restart"
           /\ draft'.rev = lastRev + 1 /\ draft'.plan.rev = lastRev + 1
           /\ draft'.plan.src = IF tx = None THEN manifest.plan.src ELSE tx.plan.src
           /\ draft'.base = IF tx = None THEN manifest ELSE tx.base
           /\ draft'.gen = IF tx = None THEN 0 ELSE tx.gen
           /\ (~draft'.migrates) <=> (~migrates /\ (tx # None => ~tx.migrates))
           /\ ~migrates => draft'.plan.schema = IF tx = None THEN manifest.plan.schema ELSE tx.plan.schema
           /\ draft'.saved <=> (tx # None /\ tx.saved)
           /\ ~draft'.rolledBack /\ ~draft'.confirmed
           /\ lastRev' = lastRev + 1 /\ lastRev + 1 \in Revs
           /\ \/ layers' = layers /\ build' = build
              \/ /\ build' \in Gens /\ build' # manifest.active /\ layers[build'] = None
                 /\ layers' = [layers EXCEPT ![build'] = draft'.plan]
<1>1. tx \in Tx \cup {None} /\ lastRev < MaxRevs /\ lastRev' = lastRev + 1
  BY DEF BeginStage, TypeOK
<1> DEFINE p == Target(tx, migrates)
<1>2. p \in Plan /\ p.rev = lastRev + 1 /\ lastRev + 1 \in Revs
      /\ p.src = (IF tx = None THEN manifest.plan.src ELSE tx.plan.src)
      /\ (~migrates => p.schema = IF tx = None THEN manifest.plan.schema ELSE tx.plan.schema)
  BY <1>1, TargetIs
<1> HIDE DEF p
<1>3. draft' = Draft(tx, p, migrates)
  BY DEF BeginStage, p
<1>4. draft' \in Tx
  BY <1>1, <1>2, <1>3, DraftIs
<1>5. draft'.plan = p /\ draft'.rev = p.rev
  BY <1>3 DEF Draft
<1>6. \/ layers' = layers /\ build' = build
      \/ /\ build' \in Gens /\ build' # manifest.active /\ layers[build'] = None
         /\ layers' = [layers EXCEPT ![build'] = draft'.plan]
  <2>1. CASE deferred
    BY <2>1 DEF BeginStage
  <2>2. CASE ~deferred
    BY <2>2, NextIsFree DEF BeginStage
  <2> QED BY <2>1, <2>2
<1> QED BY <1>1, <1>2, <1>3, <1>4, <1>5, <1>6 DEF Draft

\* A hot change is drafted from the manifest alone.
LEMMA HotDrafts ==
    ASSUME TypeOK, BeginHot
    PROVE  /\ tx' \in Tx /\ tx'.state = "verification_pending"
           /\ tx'.rev = lastRev + 1 /\ tx'.plan.rev = lastRev + 1
           /\ tx'.plan.src = manifest.plan.src /\ tx'.plan.schema = manifest.plan.schema
           /\ tx'.base = manifest /\ tx'.gen = build'
           /\ ~tx'.migrates /\ ~tx'.saved /\ ~tx'.rolledBack /\ ~tx'.confirmed
           /\ lastRev' = lastRev + 1 /\ lastRev + 1 \in Revs
           /\ build' \in Gens /\ build' # manifest.active /\ layers[build'] = None
           /\ layers' = [layers EXCEPT ![build'] = tx'.plan]
<1>1. lastRev < MaxRevs /\ lastRev' = lastRev + 1 /\ None \in Tx \cup {None} /\ FALSE \in BOOLEAN
  BY DEF BeginHot
<1> DEFINE p == Target(None, FALSE)
           d == Draft(None, p, FALSE)
<1>2. p \in Plan /\ p.rev = lastRev + 1 /\ lastRev + 1 \in Revs
      /\ p.src = manifest.plan.src /\ p.schema = manifest.plan.schema
  BY <1>1, TargetIs
<1>3. d \in Tx
  BY <1>1, <1>2, DraftIs
<1>4. /\ build' = NextGeneration /\ build' \in Gens /\ build' # manifest.active /\ layers[build'] = None
      /\ layers' = [layers EXCEPT ![build'] = d.plan]
      /\ tx' = [d EXCEPT !.state = "verification_pending", !.gen = build']
  BY NextIsFree DEF BeginHot
<1> HIDE DEF p
<1>5. /\ d.rev = p.rev /\ d.plan = p /\ d.base = manifest /\ ~d.migrates /\ ~d.saved
      /\ ~d.rolledBack /\ ~d.confirmed
  BY DEF Draft
<1> HIDE DEF d
<1>6. /\ tx' \in Tx /\ tx'.state = "verification_pending" /\ tx'.gen = build'
      /\ tx'.rev = d.rev /\ tx'.plan = d.plan /\ tx'.base = d.base /\ tx'.migrates = d.migrates
      /\ tx'.saved = d.saved /\ tx'.rolledBack = d.rolledBack /\ tx'.confirmed = d.confirmed
  BY <1>3, <1>4, Members DEF Tx
<1> QED BY <1>1, <1>2, <1>4, <1>5, <1>6

\* The launcher adds the packages of the source operation, or fails it, or
\* has nothing to add.
LEMMA MergeDrafts ==
    ASSUME TypeOK, Merge
    PROVE  \/ /\ tx' = tx /\ lastRev' = lastRev
              /\ \/ /\ Asked /\ src'.state = "failed"
                    /\ src'.live = src.live /\ src'.needs = src.needs
                 \/ ~Asked /\ src' = src /\ round'.ready
           \/ /\ Asked /\ src' = src
              /\ tx = None \/ StateIs({"pending_restart"})
              /\ round'.ready /\ ~round'.applied
              /\ tx' \in Tx /\ tx'.state = "pending_restart"
              /\ tx'.rev = tx'.plan.rev /\ tx'.plan.src
              /\ tx'.plan.schema = IF tx = None THEN manifest.plan.schema ELSE tx.plan.schema
              /\ tx'.base = IF tx = None THEN manifest ELSE tx.base
              /\ tx'.gen = IF tx = None THEN 0 ELSE tx.gen
              /\ tx'.migrates <=> tx # None /\ tx.migrates
              /\ tx'.saved <=> tx # None /\ tx.saved
              /\ ~tx'.rolledBack /\ ~tx'.confirmed
              /\ tx = None => lastRev' = lastRev + 1 /\ lastRev + 1 \in Revs /\ tx'.rev = lastRev + 1
              /\ tx # None => tx'.rev = tx.rev /\ lastRev' = tx.rev
<1> DEFINE old == IF tx = None THEN manifest.plan ELSE tx.plan
           r == IF tx = None THEN lastRev + 1 ELSE tx.rev
           plan == [old EXCEPT !.src = TRUE, !.rev = r]
<1>1. \/ /\ tx' = tx /\ lastRev' = lastRev /\ Asked
         /\ src' = [src EXCEPT !.state = "failed"]
      \/ /\ tx' = tx /\ lastRev' = lastRev /\ ~Asked /\ src' = src
         /\ \E b \in BOOLEAN : round' = [NoRound EXCEPT !.ready = TRUE, !.source = b]
      \/ /\ Asked /\ src' = src
         /\ tx = None \/ StateIs({"pending_restart"})
         /\ tx # None \/ lastRev < MaxRevs
         /\ tx' = Draft(tx, plan, FALSE) /\ lastRev' = plan.rev
         /\ round' = [NoRound EXCEPT !.ready = TRUE, !.source = TRUE]
  <2>1. CASE Asked
    BY <2>1 DEF Merge, Asked, FailSource
  <2>2. CASE ~Asked
    <3> DEFINE b == src.state = "pending_restart"
    <3>1. tx' = tx /\ lastRev' = lastRev /\ src' = src
          /\ round' = [NoRound EXCEPT !.ready = TRUE, !.source = b]
      BY <2>2, Zenon DEF Merge, Asked
    <3> QED BY <2>2, <3>1
  <2> QED BY <2>1, <2>2
<1> USE DEF Asked
<1>2. SUFFICES ASSUME /\ src.state = "pending_restart" /\ src.needs /\ src' = src
                      /\ tx = None \/ StateIs({"pending_restart"})
                      /\ tx # None \/ lastRev < MaxRevs
                      /\ tx' = Draft(tx, plan, FALSE) /\ lastRev' = plan.rev
                      /\ round' = [NoRound EXCEPT !.ready = TRUE, !.source = TRUE]
               PROVE  /\ round'.ready /\ ~round'.applied
                      /\ tx' \in Tx /\ tx'.state = "pending_restart"
                      /\ tx'.rev = tx'.plan.rev /\ tx'.plan.src
                      /\ tx'.plan.schema = IF tx = None THEN manifest.plan.schema ELSE tx.plan.schema
                      /\ tx'.base = IF tx = None THEN manifest ELSE tx.base
                      /\ tx'.gen = IF tx = None THEN 0 ELSE tx.gen
                      /\ tx'.migrates <=> tx # None /\ tx.migrates
                      /\ tx'.saved <=> tx # None /\ tx.saved
                      /\ ~tx'.rolledBack /\ ~tx'.confirmed
                      /\ tx = None => lastRev' = lastRev + 1 /\ lastRev + 1 \in Revs /\ tx'.rev = lastRev + 1
                      /\ tx # None => tx'.rev = tx.rev /\ lastRev' = tx.rev
  <2>1. ASSUME src' = [src EXCEPT !.state = "failed"]
        PROVE  src'.state = "failed" /\ src'.live = src.live /\ src'.needs = src.needs
    BY <2>1, Members DEF TypeOK, Source
  <2>2. ASSUME NEW b \in BOOLEAN, round' = [NoRound EXCEPT !.ready = TRUE, !.source = b]
        PROVE  round'.ready
    BY <2>2 DEF NoRound
  <2> QED BY <1>1, <2>1, <2>2
<1>3. tx \in Tx \cup {None} /\ (tx # None => tx.rev \in Revs) /\ old \in Plan
  BY TxIs, ManifestIs DEF TypeOK
<1>4. r \in Revs
  <2>1. CASE tx = None
    <3>1. lastRev \in 0..MaxRevs /\ lastRev < MaxRevs /\ MaxRevs \in Nat
      BY <1>2, <2>1, ConstantsAssumption DEF TypeOK, ConstantsAssumption
    <3> QED BY <2>1, <3>1 DEF Revs
  <2>2. CASE tx # None
    BY <1>3, <2>2
  <2> QED BY <2>1, <2>2
<1> HIDE DEF old, r
<1>5. plan \in Plan /\ plan.rev = r /\ plan.src /\ plan.schema = old.schema
  BY <1>3, <1>4, PlanIs DEF Plan
<1> HIDE DEF plan
<1>6. tx' \in Tx
  BY <1>2, <1>3, <1>4, <1>5, DraftIs
<1>7. round'.ready /\ ~round'.applied
  BY <1>2 DEF NoRound
<1>8. /\ tx'.state = "pending_restart" /\ tx'.rev = r /\ tx'.plan = plan
      /\ tx'.base = (IF tx = None THEN manifest ELSE tx.base)
      /\ tx'.gen = (IF tx = None THEN 0 ELSE tx.gen)
      /\ tx'.migrates <=> tx # None /\ tx.migrates
      /\ tx'.saved <=> tx # None /\ tx.saved
      /\ ~tx'.rolledBack /\ ~tx'.confirmed
  BY <1>2, <1>5 DEF Draft
<1> QED BY <1>2, <1>4, <1>5, <1>6, <1>7, <1>8 DEF old, r

\* What the launcher decides to verify.
LEMMA DecideVerifies ==
    ASSUME TypeOK, Decide
    PROVE  /\ round'.verifyDeps <=> manifest.trial /\ ~Recovery
           /\ round'.verifySource <=> src.state = "verification_pending" /\ ~Recovery
           /\ round'.applied = round.applied
           /\ phase' = IF round'.verifyDeps \/ round'.verifySource THEN "verify" ELSE "run"
<1> DEFINE a == manifest.trial /\ ~Recovery
           b == src.state = "verification_pending" /\ ~Recovery
<1>1. /\ round' = [round EXCEPT !.verifyDeps = a, !.verifySource = b]
      /\ phase' = IF round'.verifyDeps \/ round'.verifySource THEN "verify" ELSE "run"
  BY Zenon DEF Decide
<1>2. round \in Rounds
  BY DEF TypeOK
<1> HIDE DEF a, b
<1>3. round'.verifyDeps = a /\ round'.verifySource = b /\ round'.applied = round.applied
  BY <1>1, <1>2 DEF Rounds
<1> QED BY <1>1, <1>3 DEF a, b

\* Layers that are added or removed elsewhere leave a whole one whole.
LEMMA WholeStays ==
    ASSUME TypeOK, NEW m \in Manifest, Whole(m),
           layers' = layers
             \/ (\E g \in Gens, p \in Plan : layers[g] = None /\ layers' = [layers EXCEPT ![g] = p])
             \/ (\E g \in 0..MaxGen : g # m.active /\ layers' = Discarded(g))
             \/ (\E S : m.active \in S /\ layers' = Kept(S))
    PROVE  m.active = 0 \/ layers'[m.active] = m.plan
<1>1. SUFFICES ASSUME m.active # 0
               PROVE  layers'[m.active] = m.plan
  OBVIOUS
<1>2. m.active \in Gens /\ layers[m.active] = m.plan /\ m.plan # None /\ layers \in Layers
  BY <1>1, ManifestIs, Members DEF Whole, TypeOK
<1>3. CASE layers' = layers
  BY <1>2, <1>3
<1>4. ASSUME NEW g \in Gens, NEW p \in Plan, layers[g] = None, layers' = [layers EXCEPT ![g] = p]
      PROVE  layers'[m.active] = m.plan
  BY <1>2, <1>4 DEF Layers
<1>5. ASSUME NEW g \in 0..MaxGen, g # m.active, layers' = Discarded(g)
      PROVE  layers'[m.active] = m.plan
  BY <1>2, <1>5, Members DEF Layers, Discarded
<1>6. ASSUME NEW S, m.active \in S, layers' = Kept(S)
      PROVE  layers'[m.active] = m.plan
  BY <1>2, <1>6 DEF Kept
<1> QED BY <1>3, <1>4, <1>5, <1>6

\* Every step keeps the types. The databases are whole when they are backed up,
\* and there is a rollback file when the manifest returns to it.
LEMMA TypeStep ==
    ASSUME TypeOK, Places, Transaction, Procedure, Databases, [Next]_vars
    PROVE  TypeOK'
<1> USE Members DEF TypeOK, files, control, At, Places, Switching, Committing, Returning, Working
<1>1. CASE ArchiveFirst
  <2>1. record' \in Records
    BY <1>1, PendingIs, FilesAre DEF ArchiveFirst, Settled, Pending
  <2> QED BY <1>1, <2>1 DEF ArchiveFirst
<1>2. ASSUME NEW migrates \in BOOLEAN, NEW deferred \in BOOLEAN, BeginStage(migrates, deferred)
      PROVE  TypeOK'
  <2> DEFINE t == Draft(tx, Target(tx, migrates), migrates)
  <2>1. Target(tx, migrates) \in Plan /\ Target(tx, migrates).rev \in Revs /\ lastRev' \in 0..MaxRevs
    BY <1>2, TargetIs DEF BeginStage, Revs
  <2>2. t \in Tx
    BY <2>1, DraftIs
  <2>3. layers' \in Layers /\ build' \in 0..MaxGen
    <3>1. CASE deferred
      BY <1>2, <3>1 DEF BeginStage
    <3>2. CASE ~deferred
      <4>1. NextGeneration \in Gens /\ build' = NextGeneration
            /\ layers' = [layers EXCEPT ![NextGeneration] = t.plan]
        BY <1>2, <3>2, NextIsFree DEF BeginStage
      <4> QED BY <2>2, <4>1, FilesAre, TxIs
    <3> QED BY <3>1, <3>2
  <2>4. /\ draft' = t /\ pc' = "stage"
        /\ UNCHANGED <<manifest, tx, rollback, db, backup, src, record, phase,
                       caller, round, used, crashes>>
    BY <1>2 DEF BeginStage
  <2> QED BY <2>1, <2>2, <2>3, <2>4
<1>3. CASE StageWrite
  <2>1. tx' \in Tx
    BY <1>3, TxIs DEF StageWrite
  <2> QED BY <1>3, <2>1 DEF StageWrite
<1>4. CASE StageFails
  <2>1. layers' \in Layers
    BY <1>4, FilesAre DEF StageFails
  <2> QED BY <1>4, <2>1 DEF StageFails
<1>5. CASE StageDiscard
  <2>1. layers' \in Layers
    BY <1>5, FilesAre, TxIs DEF StageDiscard
  <2> QED BY <1>5, <2>1 DEF StageDiscard
<1>6. CASE BeginClear
  <2>1. layers' \in Layers /\ backup' \in Backups
    BY <1>6, FilesAre, TxIs DEF BeginClear, StateIs, Pending
  <2> QED BY <1>6, <2>1 DEF BeginClear
<1>7. CASE ClearWrite
  BY <1>7 DEF ClearWrite
<1>8. CASE BeginHot
  <2> DEFINE t == Draft(None, Target(None, FALSE), FALSE)
  <2>1. Target(None, FALSE) \in Plan /\ Target(None, FALSE).rev \in Revs /\ lastRev' \in 0..MaxRevs
    <3>1. lastRev < MaxRevs /\ lastRev' = lastRev + 1
      BY <1>8 DEF BeginHot
    <3>2. None \in Tx \cup {None} /\ FALSE \in BOOLEAN
      OBVIOUS
    <3>3. Target(None, FALSE) \in Plan /\ Target(None, FALSE).rev = lastRev + 1 /\ lastRev + 1 \in Revs
      BY <3>1, <3>2, TargetIs
    <3>4. lastRev' \in 0..MaxRevs
      <4>1. MaxRevs \in Nat
        BY ConstantsAssumption DEF ConstantsAssumption
      <4> QED BY <3>1, <3>3, <4>1 DEF Revs
    <3> QED BY <3>3, <3>4
  <2>2. t \in Tx
    BY <2>1, DraftIs
  <2> HIDE DEF t
  <2>3. /\ NextGeneration \in Gens /\ build' = NextGeneration
        /\ layers' = [layers EXCEPT ![NextGeneration] = t.plan]
        /\ tx' = [t EXCEPT !.state = "verification_pending", !.gen = NextGeneration]
        /\ pc' = "save" /\ caller' = "hot"
        /\ UNCHANGED <<manifest, rollback, db, backup, src, record, phase, draft,
                       round, used, crashes>>
    BY <1>8, NextIsFree DEF BeginHot, t
  <2>4. layers' \in Layers /\ tx' \in Tx /\ build' \in 0..MaxGen
    BY <2>2, <2>3, FilesAre, TxIs
  <2> QED BY <2>1, <2>3, <2>4
<1>9. CASE HotLoad
  <2>1. used' \subseteq Gens
    BY <1>9, ManifestIs DEF HotLoad, Procedure, Transaction, New
  <2> QED BY <1>9, <2>1 DEF HotLoad
<1>10. CASE CancelSource
  <2>1. src' \in Source
    BY <1>10, SourceIs DEF CancelSource
  <2> QED BY <1>10, <2>1 DEF CancelSource
<1>11. CASE Restart
  BY <1>11 DEF Restart
<1>12. ASSUME NEW needs \in BOOLEAN, StageSource(needs)
      PROVE  TypeOK'
  <2>1. src' \in Source
    BY <1>12, SourceIs DEF StageSource
  <2> QED BY <1>12, <2>1 DEF StageSource
<1>13. CASE Merge
  <2> DEFINE open == src.state = "pending_restart" /\ src.needs
                        /\ (tx = None \/ StateIs({"pending_restart"})) /\ (tx # None \/ lastRev < MaxRevs)
             plan == [(IF tx = None THEN manifest.plan ELSE tx.plan)
                         EXCEPT !.src = TRUE,
                                !.rev = IF tx = None THEN lastRev + 1 ELSE tx.rev]
  <2>1. round' \in Rounds
    <3>1. PICK b \in BOOLEAN :
            round' \in {NoRound, [NoRound EXCEPT !.source = TRUE], [NoRound EXCEPT !.ready = TRUE, !.source = b]}
      <4>1. CASE src.state = "pending_restart"
        BY <1>13, <4>1 DEF Merge
      <4>2. CASE src.state # "pending_restart"
        BY <1>13, <4>2 DEF Merge
      <4> QED BY <4>1, <4>2
    <3>2. [NoRound EXCEPT !.source = TRUE] \in Rounds /\ [NoRound EXCEPT !.ready = TRUE, !.source = b] \in Rounds
      BY RoundIs
    <3> QED BY <3>1, <3>2, RoundIs
  <2>2. src' \in Source
    BY <1>13, SourceIs DEF Merge, FailSource
  <2>3. CASE open
    <3>1. (IF tx = None THEN lastRev + 1 ELSE tx.rev) \in Revs \cap (0..MaxRevs)
      <4>1. CASE tx = None
        BY <2>3, <4>1, ConstantsAssumption DEF ConstantsAssumption, Revs
      <4>2. CASE tx # None
        <5>1. tx.rev \in Revs
          BY <4>2, TxIs
        <5> QED BY <4>2, <5>1, ConstantsAssumption DEF ConstantsAssumption, Revs
      <4> QED BY <4>1, <4>2
    <3>2. (IF tx = None THEN manifest.plan ELSE tx.plan) \in Plan
      BY ManifestIs, TxIs
    <3>3. plan \in Plan /\ plan.rev = IF tx = None THEN lastRev + 1 ELSE tx.rev
      BY <3>1, <3>2, PlanIs DEF Plan
    <3>4. Draft(tx, plan, FALSE) \in Tx
      BY <3>1, <3>3, DraftIs
    <3>5. tx' \in Tx \cup {None} /\ lastRev' \in 0..MaxRevs
      BY <1>13, <3>1, <3>3, <3>4 DEF Merge
    <3> QED BY <1>13, <2>1, <2>2, <3>5 DEF Merge
  <2>4. CASE ~open
    BY <1>13, <2>1, <2>2, <2>4 DEF Merge
  <2> QED BY <2>3, <2>4
<1>14. CASE Apply
  <2>1. StateIs({"pending_restart"}) \in BOOLEAN
    BY <1>14 DEF Apply, StateIs
  <2>2. round' \in Rounds
    BY <1>14, RoundIs, <2>1 DEF Apply
  <2>3. tx' = tx \/ (tx \in Tx /\ tx' = [tx EXCEPT !.state = "building"])
    BY <1>14 DEF Apply, StateIs, Pending
  <2>4. tx' \in Tx \cup {None}
    <3>1. CASE tx' = tx
      BY TxIs, <3>1
    <3>2. CASE tx \in Tx /\ tx' = [tx EXCEPT !.state = "building"]
      BY TxIs, <3>2
    <3> QED BY <3>1, <3>2, <2>3
  <2> QED BY <1>14, <2>1, <2>2, <2>3, <2>4 DEF Apply
<1>15. CASE Build
  <2>1. tx \in Tx
    BY <1>15 DEF Build
  <2>2. build' \in 0..MaxGen
    BY <1>15, <2>1, NextIsFree, TxIs DEF Build
  <2>3. layers' = layers \/ (NextGeneration \in Gens /\ layers' = [layers EXCEPT ![NextGeneration] = tx.plan])
    BY <1>15, NextIsFree DEF Build
  <2>4. layers' \in Layers
    <3>1. CASE layers' = layers
      BY <2>1, TxIs, FilesAre, <3>1
    <3>2. CASE NextGeneration \in Gens /\ layers' = [layers EXCEPT ![NextGeneration] = tx.plan]
      BY <2>1, TxIs, FilesAre, <3>2
    <3> QED BY <3>1, <3>2, <2>3
  <2> QED BY <1>15, <2>1, <2>2, <2>3, <2>4 DEF Build
<1>16. CASE ApplyFails
  <2>1. tx' \in Tx
    BY <1>16, Writes DEF Same
  <2> QED BY <1>16, <2>1 DEF ApplyFails
<1>17. CASE MigrateBackup
  <2>1. tx \in Tx /\ db' \in Schemas \cup {Torn}
    BY <1>17 DEF MigrateBackup
  <2>2. tx' \in Tx
    BY <1>17, <2>1, TxIs DEF MigrateBackup
  <2>3. backup[tx.rev] = None => db \in Schemas
    BY <1>17, <2>1, ManifestIs, PlanIs
       DEF MigrateBackup, Databases, Migrating, Recovery, Procedure
  <2>4. backup' \in Backups
    BY <1>17, <2>1, <2>3, TxIs, FilesAre DEF MigrateBackup
  <2> QED BY <1>17, <2>1, <2>2, <2>3, <2>4 DEF MigrateBackup
<1>18. CASE MigrateOk
  <2>1. db' \in Schemas
    BY <1>18, TxIs, PlanIs DEF MigrateOk
  <2> QED BY <1>18, <2>1 DEF MigrateOk
<1>19. CASE MigrateFails
  <2>1. tx \in Tx
    BY <1>19 DEF MigrateFails
  <2>2. backup[tx.rev] \in Schemas
    BY <1>19, <2>1, TxIs, BackupIs DEF MigrateFails, Databases
  <2>3. tx' = [tx EXCEPT !.state = "failed", !.rolledBack = TRUE] \/ tx' = [tx EXCEPT !.state = "recovery_required"]
    BY <1>19 DEF MigrateFails
  <2>4. tx' \in Tx
    <3>1. CASE tx' = [tx EXCEPT !.state = "failed", !.rolledBack = TRUE]
      BY <2>1, TxIs, <3>1
    <3>2. CASE tx' = [tx EXCEPT !.state = "recovery_required"]
      BY <2>1, TxIs, <3>2
    <3> QED BY <3>1, <3>2, <2>3
  <2>5. db' \in Schemas \cup {Torn}
    BY <1>19, <2>2 DEF MigrateFails
  <2> QED BY <1>19, <2>1, <2>2, <2>3, <2>4, <2>5 DEF MigrateFails
<1>20. CASE SaveRollback
  BY <1>20 DEF SaveRollback
<1>21. CASE MarkSaved
  <2>1. tx' \in Tx
    BY <1>21, TxIs DEF MarkSaved
  <2> QED BY <1>21, <2>1 DEF MarkSaved
<1>22. CASE Switch
  <2>1. manifest' \in Manifest
    BY <1>22, ManifestIs, TxIs DEF Switch
  <2> QED BY <1>22, <2>1 DEF Switch
<1>23. CASE MarkPending
  <2>1. tx' \in Tx /\ round' \in Rounds
    BY <1>23, TxIs, RoundIs DEF MarkPending
  <2> QED BY <1>23, <2>1 DEF MarkPending
<1>24. CASE ApplySource
  <2>1. src' \in Source
    BY <1>24, SourceIs DEF ApplySource, FailSource
  <2> QED BY <1>24, <2>1 DEF ApplySource
<1>25. CASE SwitchSource
  <2>1. src' \in Source
    BY <1>25, SourceIs DEF SwitchSource
  <2> QED BY <1>25, <2>1 DEF SwitchSource
<1>26. CASE Decide
  <2>1. (manifest.trial /\ ~Recovery) \in BOOLEAN /\ (src.state = "verification_pending" /\ ~Recovery) \in BOOLEAN
    BY <1>26 DEF Decide, Recovery
  <2>2. round' \in Rounds
    BY <1>26, <2>1, RoundIs DEF Decide
  <2>3. record' \in Records /\ tx' \in Tx \cup {None}
    BY <1>26, PendingIs, FilesAre DEF Decide, Settled, Pending
  <2>4. used' \subseteq Gens
    BY <1>26, ManifestIs DEF Decide
  <2> QED BY <1>26, <2>1, <2>2, <2>3, <2>4 DEF Decide
<1>27. CASE VerifyPasses
  BY <1>27 DEF VerifyPasses
<1>28. CASE VerifyFails
  BY <1>28 DEF VerifyFails
<1>29. CASE RestoreDatabases
  <2>1. db' \in Schemas \cup {Torn}
    BY <1>29, TxIs, BackupIs DEF RestoreDatabases
  <2> QED BY <1>29, <2>1 DEF RestoreDatabases
<1>30. CASE ReturnManifest
  <2>1. tx \in Tx /\ (tx.rolledBack \/ rollback = tx.base)
    BY <1>30 DEF ReturnManifest, Procedure, Transaction, New
  <2>2. manifest' \in Manifest
    BY <1>30, <2>1, TxIs DEF ReturnManifest
  <2> QED BY <1>30, <2>1, <2>2 DEF ReturnManifest
<1>31. CASE FailTransaction
  <2>1. tx' \in Tx
    BY <1>31, TxIs DEF FailTransaction
  <2> QED BY <1>31, <2>1 DEF FailTransaction
<1>32. CASE Prune
  <2>1. layers' \in Layers /\ backup' \in Backups /\ rollback' \in Manifest \cup {None}
    BY <1>32, FilesAre DEF Prune
  <2>2. pc' \in PCs
    BY <1>32 DEF Prune, AfterRollback
  <2> QED BY <1>32, <2>1, <2>2 DEF Prune
<1>33. CASE UndoSource
  <2>1. src' \in Source
    BY <1>33, SourceIs DEF UndoSource
  <2>2. record' \in Records /\ tx' \in Tx \cup {None}
    BY <1>33, PendingIs, FilesAre DEF UndoSource, Settled, Pending
  <2> QED BY <1>33, <2>1, <2>2 DEF UndoSource
<1>34. CASE Confirm
  <2>1. manifest' \in Manifest
    BY <1>34, ManifestIs, TxIs DEF Confirm
  <2>2. tx' \in Tx
    BY <1>34, PendingIs DEF Confirm
  <2> QED BY <1>34, <2>1, <2>2 DEF Confirm
<1>35. CASE Commit
  <2>1. tx' \in Tx
    BY <1>35, TxIs DEF Commit
  <2> QED BY <1>35, <2>1 DEF Commit
<1>36. CASE Sweep
  <2>1. layers' \in Layers /\ backup' \in Backups /\ rollback' \in Manifest \cup {None}
    BY <1>36, FilesAre DEF Sweep
  <2>2. tx \in Tx
    BY <1>36 DEF Sweep
  <2>3. tx' = tx \/ tx' = [tx EXCEPT !.state = "cleanup_pending"]
    BY <1>36 DEF Sweep
  <2>4. tx' \in Tx
    <3>1. CASE tx' = tx
      BY <2>2, TxIs, <3>1
    <3>2. CASE tx' = [tx EXCEPT !.state = "cleanup_pending"]
      BY <2>2, TxIs, <3>2
    <3> QED BY <3>1, <3>2, <2>3
  <2> QED BY <1>36, <2>1, <2>2, <2>3, <2>4 DEF Sweep
<1>37. CASE ArchiveCommitted
  <2>1. record' \in Records /\ tx' \in Tx \cup {None}
    BY <1>37, PendingIs, FilesAre DEF ArchiveCommitted, Settled, Pending
  <2> QED BY <1>37, <2>1 DEF ArchiveCommitted
<1>38. CASE FinishSource
  <2>1. src' \in Source
    BY <1>38, SourceIs DEF FinishSource
  <2> QED BY <1>38, <2>1 DEF FinishSource
<1>39. CASE Crash
  <2>1. round' \in Rounds
    BY <1>39, RoundIs DEF Crash
  <2>2. crashes' \in 0..MaxCrashes
    BY <1>39, ConstantsAssumption DEF Crash, ConstantsAssumption
  <2> QED BY <1>39, <2>1, <2>2 DEF Crash
<1>40. CASE UNCHANGED vars
  BY <1>40 DEF vars
<1> QED BY <1>1, <1>2, <1>3, <1>4, <1>5, <1>6, <1>7, <1>8, <1>9, <1>10,
           <1>11, <1>12, <1>13, <1>14, <1>15, <1>16, <1>17, <1>18, <1>19,
           <1>20, <1>21, <1>22, <1>23, <1>24, <1>25, <1>26, <1>27, <1>28,
           <1>29, <1>30, <1>31, <1>32, <1>33, <1>34, <1>35, <1>36, <1>37,
           <1>38, <1>39, <1>40
        DEF Next, Launcher, Procedures, Store

\* Every step leaves the lock's holder where he may be.
LEMMA PlacesStep ==
    ASSUME TypeOK, Places, Procedure, Transaction, Round, [Next]_vars
    PROVE  Places'
<1> USE Members DEF At, Places, Switching, Committing, Returning, Working, files, control
<1>1. CASE ArchiveFirst
  BY <1>1 DEF ArchiveFirst, StoreFree
<1>2. ASSUME NEW migrates \in BOOLEAN, NEW deferred \in BOOLEAN, BeginStage(migrates, deferred)
      PROVE  Places'
  BY <1>2, StageDrafts DEF BeginStage, Same, StoreFree
<1>3. CASE StageWrite
  BY <1>3, Writes DEF StageWrite, Same
<1>4. CASE StageFails
  BY <1>4 DEF StageFails
<1>5. CASE StageDiscard
  BY <1>5 DEF StageDiscard
<1>6. CASE BeginClear
  BY <1>6 DEF BeginClear, StateIs, Pending, StoreFree
<1>7. CASE ClearWrite
  BY <1>7 DEF ClearWrite
<1>8. CASE BeginHot
  BY <1>8, HotDrafts DEF BeginHot, Same, StoreFree
<1>9. CASE HotLoad
  BY <1>9 DEF HotLoad
<1>10. CASE CancelSource
  BY <1>10 DEF CancelSource
<1>11. CASE Restart
  BY <1>11 DEF Restart
<1>12. ASSUME NEW needs \in BOOLEAN, StageSource(needs)
      PROVE  Places'
  BY <1>12 DEF StageSource
<1>13. CASE Merge
  BY <1>13, MergeDrafts DEF Merge, Same
<1>14. CASE Apply
  BY <1>14, ApplyWrites DEF Apply, Same, StateIs, Pending
<1>15. CASE Build
  <2>1. build' # 0
    BY <1>15, NextIsFree DEF Build, StagedBuild
  <2> QED BY <1>15, <2>1 DEF Build
<1>16. CASE ApplyFails
  BY <1>16, Writes DEF ApplyFails, Same
<1>17. CASE MigrateBackup
  BY <1>17, Writes DEF MigrateBackup, Same
<1>18. CASE MigrateOk
  BY <1>18 DEF MigrateOk
<1>19. CASE MigrateFails
  BY <1>19, Writes DEF MigrateFails, Same
<1>20. CASE SaveRollback
  BY <1>20 DEF SaveRollback
<1>21. CASE MarkSaved
  BY <1>21, Writes DEF MarkSaved, Same
<1>22. CASE Switch
  BY <1>22 DEF Switch
<1>23. CASE MarkPending
  BY <1>23, Writes DEF MarkPending, Same
<1>24. CASE ApplySource
  BY <1>24 DEF ApplySource
<1>25. CASE SwitchSource
  BY <1>25 DEF SwitchSource, Round, Transaction, New
<1>26. CASE Decide
  BY <1>26 DEF Decide
<1>27. CASE VerifyPasses
  BY <1>27 DEF VerifyPasses, Round, Transaction, New
<1>28. CASE VerifyFails
  BY <1>28 DEF VerifyFails, Round, Transaction, New
<1>29. CASE RestoreDatabases
  BY <1>29 DEF RestoreDatabases
<1>30. CASE ReturnManifest
  BY <1>30 DEF ReturnManifest
<1>31. CASE FailTransaction
  BY <1>31, Writes DEF FailTransaction, Same
<1>32. CASE Prune
  <2>1. CASE caller = "apply"
    BY <1>32, <2>1 DEF Prune, TypeOK, AfterRollback
  <2>2. CASE caller = "verify"
    BY <1>32, <2>2 DEF Prune, TypeOK, AfterRollback
  <2>3. CASE caller = "hot"
    BY <1>32, <2>3 DEF Prune, TypeOK, AfterRollback
  <2> QED BY <2>1, <2>2, <2>3 DEF TypeOK, AfterRollback
<1>33. CASE UndoSource
  BY <1>33 DEF UndoSource
<1>34. CASE Confirm
  BY <1>34, Writes DEF Confirm, Same
<1>35. CASE Commit
  BY <1>35, Writes DEF Commit, Same
<1>36. CASE Sweep
  BY <1>36, SweepWrites DEF Sweep, Same
<1>37. CASE ArchiveCommitted
  <2>1. CASE caller = "apply"
    BY <1>37, <2>1 DEF ArchiveCommitted, TypeOK, AfterRollback
  <2>2. CASE caller = "verify"
    BY <1>37, <2>2 DEF ArchiveCommitted, TypeOK, AfterRollback
  <2>3. CASE caller = "hot"
    BY <1>37, <2>3 DEF ArchiveCommitted, TypeOK, AfterRollback
  <2> QED BY <2>1, <2>2, <2>3 DEF TypeOK, AfterRollback
<1>38. CASE FinishSource
  BY <1>38 DEF FinishSource
<1>39. CASE Crash
  BY <1>39 DEF Crash
<1>40. CASE UNCHANGED vars
  BY <1>40 DEF vars
<1> QED BY <1>1, <1>2, <1>3, <1>4, <1>5, <1>6, <1>7, <1>8, <1>9, <1>10,
           <1>11, <1>12, <1>13, <1>14, <1>15, <1>16, <1>17, <1>18, <1>19,
           <1>20, <1>21, <1>22, <1>23, <1>24, <1>25, <1>26, <1>27, <1>28,
           <1>29, <1>30, <1>31, <1>32, <1>33, <1>34, <1>35, <1>36, <1>37,
           <1>38, <1>39, <1>40
        DEF Next, Launcher, Procedures, Store

\* Every step keeps the order of the revisions: a new one is the highest, and
\* a verdict is on what the manifest has or has just left.
LEMMA RevisionsStep ==
    ASSUME TypeOK, Places, Revisions, Drafts, Transaction, Procedure, [Next]_vars
    PROVE  Revisions'
<1> USE Members, Numbers DEF At, Places, Revisions, Verdict, Switching, Committing, Returning, Working, files, control, Verdict
<1>1. CASE ArchiveFirst
  <2>1. CASE record' = Archived(Pending) /\ Settled /\ tx' = None
    <3>1. \A r \in Revs : /\ record'[r] = "failed" => manifest.plan.rev # r
                          /\ record'[r] = "committed" => manifest.plan.rev >= r
                          /\ record'[r] # "none" => r <= lastRev
      BY <1>1, <2>1, VerdictNext DEF ArchiveFirst, StoreFree
    <3> QED BY <1>1, <2>1, <3>1 DEF ArchiveFirst
  <2>2. CASE record' = record /\ tx' = tx
    BY <1>1, <2>2 DEF ArchiveFirst
  <2> QED BY <1>1, <2>1, <2>2 DEF ArchiveFirst
<1>2. ASSUME NEW migrates \in BOOLEAN, NEW deferred \in BOOLEAN, BeginStage(migrates, deferred)
      PROVE  Revisions'
  BY <1>2, StageDrafts DEF BeginStage, Same
<1>3. CASE StageWrite
  BY <1>3, VerdictNow, Writes DEF StageWrite, Procedure, Drafts, Fresh, Same
<1>4. CASE StageFails
  BY <1>4 DEF StageFails
<1>5. CASE StageDiscard
  BY <1>5 DEF StageDiscard
<1>6. CASE BeginClear
  BY <1>6 DEF BeginClear, StateIs, Pending, StoreFree
<1>7. CASE ClearWrite
  BY <1>7, VerdictNow DEF ClearWrite
<1>8. CASE BeginHot
  <2>1. tx = None /\ Verdict(manifest.plan.rev)
    BY <1>8 DEF BeginHot
  <2>2. /\ tx' # None /\ tx'.rev = lastRev + 1 /\ tx'.plan.rev = lastRev + 1
        /\ tx'.base = manifest /\ lastRev' = lastRev + 1
    BY <1>8, HotDrafts
  <2>3. UNCHANGED <<manifest, record, backup>>
    BY <1>8 DEF BeginHot
  <2> QED BY <2>1, <2>2, <2>3
<1>9. CASE HotLoad
  BY <1>9 DEF HotLoad
<1>10. CASE CancelSource
  BY <1>10 DEF CancelSource
<1>11. CASE Restart
  BY <1>11 DEF Restart
<1>12. ASSUME NEW needs \in BOOLEAN, StageSource(needs)
      PROVE  Revisions'
  BY <1>12 DEF StageSource
<1>13. CASE Merge
  <2>1. CASE tx' = tx /\ lastRev' = lastRev
    BY <1>13, <2>1 DEF Merge
  <2>2. CASE ~(tx' = tx /\ lastRev' = lastRev)
    <3>1. /\ tx' # None /\ tx'.rev = tx'.plan.rev
          /\ tx = None => tx'.base = manifest /\ tx'.rev = lastRev + 1 /\ lastRev' = lastRev + 1
          /\ tx # None => tx'.base = tx.base /\ tx'.rev = tx.rev /\ lastRev' = tx.rev
      BY <1>13, <2>2, MergeDrafts
    <3>2. UNCHANGED <<manifest, record, backup>>
      BY <1>13 DEF Merge
    <3>3. tx # None => manifest.plan.rev <= tx.rev
      <4>1. CASE New
        BY <4>1 DEF New
      <4>2. CASE tx # None /\ manifest = tx.base
        BY <4>2
      <4> QED BY <4>1, <4>2 DEF Transaction
    <3>4. CASE tx = None
      BY <3>1, <3>2, <3>4
    <3>5. CASE tx # None
      BY <3>1, <3>2, <3>3, <3>5
    <3> QED BY <3>4, <3>5
  <2> QED BY <2>1, <2>2
<1>14. CASE Apply
  BY <1>14, ApplyWrites DEF Apply, Same
<1>15. CASE Build
  BY <1>15 DEF Build
<1>16. CASE ApplyFails
  <2>1. Same
    BY <1>16, Writes DEF ApplyFails
  <2> QED BY <1>16, <2>1 DEF ApplyFails, Same
<1>17. CASE MigrateBackup
  <2>1. Same
    BY <1>17, Writes DEF MigrateBackup
  <2> QED BY <1>17, <2>1 DEF MigrateBackup, Same
<1>18. CASE MigrateOk
  BY <1>18 DEF MigrateOk
<1>19. CASE MigrateFails
  <2>1. Same
    BY <1>19, Writes DEF MigrateFails
  <2> QED BY <1>19, <2>1 DEF MigrateFails, Same
<1>20. CASE SaveRollback
  BY <1>20 DEF SaveRollback
<1>21. CASE MarkSaved
  <2>1. Same
    BY <1>21, Writes DEF MarkSaved
  <2> QED BY <1>21, <2>1 DEF MarkSaved, Same
<1>22. CASE Switch
  BY <1>22 DEF Switch
<1>23. CASE MarkPending
  <2>1. Same
    BY <1>23, Writes DEF MarkPending
  <2> QED BY <1>23, <2>1 DEF MarkPending, Same
<1>24. CASE ApplySource
  BY <1>24 DEF ApplySource
<1>25. CASE SwitchSource
  BY <1>25 DEF SwitchSource
<1>26. CASE Decide
  <2>1. CASE record' = Archived(Pending) /\ Settled /\ tx' = None
    <3>1. \A r \in Revs : /\ record'[r] = "failed" => manifest.plan.rev # r
                          /\ record'[r] = "committed" => manifest.plan.rev >= r
                          /\ record'[r] # "none" => r <= lastRev
      BY <1>26, <2>1, VerdictNext DEF Decide
    <3> QED BY <1>26, <2>1, <3>1 DEF Decide
  <2>2. CASE record' = record /\ tx' = tx
    BY <1>26, <2>2 DEF Decide
  <2> QED BY <1>26, <2>1, <2>2 DEF Decide
<1>27. CASE VerifyPasses
  BY <1>27 DEF VerifyPasses
<1>28. CASE VerifyFails
  BY <1>28 DEF VerifyFails
<1>29. CASE RestoreDatabases
  BY <1>29 DEF RestoreDatabases
<1>30. CASE ReturnManifest
  BY <1>30 DEF ReturnManifest, Procedure, Transaction, New
<1>31. CASE FailTransaction
  <2>1. Same
    BY <1>31, Writes DEF FailTransaction
  <2> QED BY <1>31, <2>1 DEF FailTransaction, Same
<1>32. CASE Prune
  BY <1>32 DEF Prune
<1>33. CASE UndoSource
  <2>1. CASE record' = Archived(Pending) /\ Settled /\ tx' = None
    <3>1. \A r \in Revs : /\ record'[r] = "failed" => manifest.plan.rev # r
                          /\ record'[r] = "committed" => manifest.plan.rev >= r
                          /\ record'[r] # "none" => r <= lastRev
      BY <1>33, <2>1, VerdictNext DEF UndoSource
    <3> QED BY <1>33, <2>1, <3>1 DEF UndoSource
  <2>2. CASE record' = record /\ tx' = tx
    BY <1>33, <2>2 DEF UndoSource
  <2> QED BY <1>33, <2>1, <2>2 DEF UndoSource
<1>34. CASE Confirm
  <2>1. Same
    BY <1>34, Writes DEF Confirm
  <2> QED BY <1>34, <2>1 DEF Confirm, Same
<1>35. CASE Commit
  <2>1. Same
    BY <1>35, Writes DEF Commit
  <2> QED BY <1>35, <2>1 DEF Commit, Same
<1>36. CASE Sweep
  BY <1>36, SweepWrites DEF Sweep, Same
<1>37. CASE ArchiveCommitted
  <2>1. CASE record' = Archived(Pending) /\ Settled /\ tx' = None
    <3>1. \A r \in Revs : /\ record'[r] = "failed" => manifest.plan.rev # r
                          /\ record'[r] = "committed" => manifest.plan.rev >= r
                          /\ record'[r] # "none" => r <= lastRev
      BY <1>37, <2>1, VerdictNext DEF ArchiveCommitted
    <3> QED BY <1>37, <2>1, <3>1 DEF ArchiveCommitted
  <2>2. CASE record' = record /\ tx' = tx
    BY <1>37, <2>2 DEF ArchiveCommitted
  <2> QED BY <1>37, <2>1, <2>2 DEF ArchiveCommitted
<1>38. CASE FinishSource
  BY <1>38 DEF FinishSource
<1>39. CASE Crash
  BY <1>39 DEF Crash
<1>40. CASE UNCHANGED vars
  BY <1>40 DEF vars
<1> QED BY <1>1, <1>2, <1>3, <1>4, <1>5, <1>6, <1>7, <1>8, <1>9, <1>10,
           <1>11, <1>12, <1>13, <1>14, <1>15, <1>16, <1>17, <1>18, <1>19,
           <1>20, <1>21, <1>22, <1>23, <1>24, <1>25, <1>26, <1>27, <1>28,
           <1>29, <1>30, <1>31, <1>32, <1>33, <1>34, <1>35, <1>36, <1>37,
           <1>38, <1>39, <1>40
        DEF Next, Launcher, Procedures, Store

\* What a step must leave alone for Transaction to stay.
LEMMA TransactionFrame ==
    ASSUME Transaction, UNCHANGED <<manifest, tx, rollback>>,
           pc' = pc \/ pc \notin Switching \cup {"fail"}
    PROVE  Transaction'
  BY DEF Transaction, New, Closed, Switching

\* Every step keeps the manifest and the pending transaction in accord.
LEMMA TransactionStep ==
    ASSUME TypeOK, Places, Revisions, Drafts, Transaction, Procedure, LayersKept, NoWindow, [Next]_vars
    PROVE  Transaction'
<1> USE DEF At, Places, Transaction, New, Closed, Switching, Committing, Returning, Working
<1>1. CASE \/ (\E migrates, deferred \in BOOLEAN : BeginStage(migrates, deferred))
           \/ StageFails \/ StageDiscard \/ BeginClear \/ HotLoad \/ CancelSource
           \/ Restart \/ (\E needs \in BOOLEAN : StageSource(needs)) \/ Build
           \/ MigrateOk \/ ApplySource \/ SwitchSource \/ VerifyPasses
           \/ VerifyFails \/ RestoreDatabases \/ FinishSource \/ UNCHANGED vars
  <2>1. UNCHANGED <<manifest, tx, rollback>> /\ (pc' = pc \/ pc \notin Switching \cup {"fail"})
    BY <1>1 DEF BeginStage, StageFails, StageDiscard, BeginClear, HotLoad,
            CancelSource, Restart, StageSource, Build, MigrateOk, ApplySource,
            SwitchSource, VerifyPasses, VerifyFails, RestoreDatabases,
            FinishSource, vars, StoreFree, files, control
  <2> QED BY <2>1, TransactionFrame
<1>2. CASE ArchiveFirst
  BY <1>2, SettledIs DEF ArchiveFirst, StoreFree
<1>3. CASE StageWrite
  <2>1. /\ Fresh(draft) /\ manifest' = manifest /\ rollback' = rollback
        /\ build = 0 \/ build # manifest.active
    BY <1>3 DEF StageWrite, Drafts, LayersKept
  <2>2. /\ tx' \in Tx /\ draft \in Tx /\ tx'.gen = build
        /\ tx'.state = draft.state /\ tx'.plan = draft.plan /\ tx'.rev = draft.rev
        /\ tx'.base = draft.base /\ tx'.migrates = draft.migrates
        /\ tx'.saved = draft.saved /\ tx'.rolledBack = draft.rolledBack
        /\ tx'.confirmed = draft.confirmed
    BY <1>3, Writes
  <2>3. tx' # None /\ tx'.plan # manifest.plan
    BY <2>1, <2>2, Numbers, Members DEF Fresh
  <2> QED BY <2>1, <2>2, <2>3 DEF Fresh
<1>4. CASE ClearWrite
  BY <1>4 DEF ClearWrite, TypeOK, Procedure
<1>5. CASE BeginHot
  <2>1. tx = None /\ ~manifest.trial /\ manifest.plan.rev <= lastRev
    BY <1>5 DEF BeginHot, StoreFree, Procedure, Revisions
  <2>2. /\ tx' \in Tx /\ tx'.state = "verification_pending" /\ tx'.plan.rev = lastRev + 1
        /\ tx'.base = manifest /\ tx'.gen # manifest.active /\ ~tx'.confirmed /\ ~tx'.saved
        /\ ~tx'.rolledBack /\ tx'.plan.schema = manifest.plan.schema
    BY <1>5, HotDrafts
  <2>3. manifest' = manifest /\ pc' = "save"
    BY <1>5 DEF BeginHot
  <2>4. tx' # None /\ tx'.plan # manifest.plan
    BY <2>1, <2>2, Numbers, Members
  <2> QED BY <2>1, <2>2, <2>3, <2>4
<1>6. CASE Merge
  <2>1. UNCHANGED <<manifest, rollback>> /\ pc \notin Switching \cup {"fail"}
    BY <1>6 DEF Merge
  <2>2. CASE tx' = tx
    BY <2>1, <2>2
  <2>3. CASE tx' # tx
    <3>1. /\ tx' \in Tx /\ tx'.state = "pending_restart" /\ tx'.rev = tx'.plan.rev
          /\ tx'.plan.schema = IF tx = None THEN manifest.plan.schema ELSE tx.plan.schema
          /\ tx'.base = IF tx = None THEN manifest ELSE tx.base
          /\ tx'.gen = IF tx = None THEN 0 ELSE tx.gen
          /\ tx'.migrates <=> tx # None /\ tx.migrates
          /\ tx'.saved <=> tx # None /\ tx.saved
          /\ ~tx'.rolledBack /\ ~tx'.confirmed
          /\ tx = None => tx'.rev = lastRev + 1
          /\ tx # None => tx'.rev = tx.rev
      BY <1>6, <2>3, MergeDrafts
    <3>2. tx # None => Fresh(tx)
      BY <1>6, <2>3, MergeDrafts DEF StateIs, Pending, Drafts
    <3>3. tx' # None /\ tx'.plan # manifest.plan /\ tx'.base = manifest
      <4>1. CASE tx = None
        BY <3>1, <4>1, Numbers, Members DEF Revisions
      <4>2. CASE tx # None
        BY <3>1, <3>2, <4>2, Numbers, Members DEF Fresh
      <4> QED BY <4>1, <4>2
    <3>4. CASE tx = None
      BY <2>1, <3>1, <3>3, <3>4
    <3>5. CASE tx # None
      BY <2>1, <3>1, <3>2, <3>3, <3>5 DEF Fresh
    <3> QED BY <3>4, <3>5
  <2> QED BY <2>2, <2>3
<1>7. CASE Apply
  <2>1. UNCHANGED <<manifest, rollback>> /\ pc \notin Switching \cup {"fail"}
    BY <1>7 DEF Apply
  <2>2. CASE tx' = tx
    BY <2>1, <2>2, TransactionFrame
  <2>3. CASE tx' # tx
    <3>1. /\ Same /\ tx'.state = "building" /\ tx'.gen = tx.gen
          /\ tx'.rolledBack = tx.rolledBack
          /\ tx'.saved = tx.saved /\ tx'.confirmed = tx.confirmed
          /\ StateIs({"pending_restart", "building"})
      BY <1>7, <2>3, ApplyWrites
    <3>2. tx.state \in {"pending_restart", "building"}
      BY <3>1, PendingIs DEF StateIs, Same
    <3>3. tx # None /\ tx' # None
      BY <3>1, Members DEF Same
    <3>4. tx.state = "pending_restart" => ~tx.saved
      BY <3>3 DEF Drafts, Fresh
    <3> QED BY <2>1, <3>1, <3>2, <3>3, <3>4 DEF Same
  <2> QED BY <2>2, <2>3
<1>8. CASE ApplyFails
  <2>1. /\ Same /\ tx'.state = "failed" /\ tx'.confirmed = tx.confirmed
        /\ tx'.gen = tx.gen \/ (pc = "migrate" /\ tx'.gen = build)
        /\ tx'.saved <=> tx.saved \/ pc = "mark"
        /\ tx'.rolledBack = (manifest.active = tx.base.active)
    BY <1>8, Writes
  <2>2. tx # None /\ tx' # None /\ tx.state = "building" /\ UNCHANGED <<manifest, rollback>>
    BY <1>8, <2>1, Members DEF ApplyFails, Same, Procedure
  <2>3. tx'.gen = 0 \/ tx'.gen # tx.base.active
    BY <2>1, <2>2 DEF LayersKept
  <2>4. CASE New
    <3>1. ~tx'.rolledBack
      BY <2>1, <2>2, <2>4
    <3> QED BY <2>1, <2>2, <2>3, <2>4, <3>1 DEF Same
  <2>5. CASE ~New
    <3>1. tx'.rolledBack
      BY <2>1, <2>2, <2>5
    <3> QED BY <2>1, <2>2, <2>3, <2>5, <3>1 DEF Same
  <2> QED BY <2>4, <2>5
<1>9. CASE MigrateBackup
  <2>1. /\ Same /\ tx'.state = tx.state /\ tx'.gen = build
        /\ tx'.rolledBack = tx.rolledBack
        /\ tx'.saved = tx.saved /\ tx'.confirmed = tx.confirmed
    BY <1>9, Writes
  <2>2. tx # None /\ tx' # None /\ UNCHANGED <<manifest, rollback>>
    BY <1>9, <2>1, Members DEF MigrateBackup, Same
  <2>3. tx.state = "building" /\ build # tx.base.active
    BY <1>9 DEF MigrateBackup, Procedure, LayersKept
  <2> QED BY <2>1, <2>2, <2>3 DEF Same
<1>10. CASE MigrateFails
  <2>1. /\ tx # None /\ tx.state = "building" /\ manifest.active = tx.base.active
        /\ UNCHANGED <<manifest, rollback>>
    BY <1>10 DEF MigrateFails, NoWindow, Procedure
  <2>2. /\ Same /\ tx' # None /\ tx'.gen = tx.gen
        /\ \/ tx'.state = "failed" /\ tx'.rolledBack
           \/ tx'.state = "recovery_required" /\ tx'.rolledBack = tx.rolledBack
        /\ tx'.saved = tx.saved /\ tx'.confirmed = tx.confirmed
    BY <1>10, Writes, Members DEF Same
  <2>3. ~New /\ manifest = tx.base
    BY <2>1
  <2> QED BY <2>1, <2>2, <2>3 DEF Same
<1>11. CASE SaveRollback
  <2>1. UNCHANGED <<manifest, tx>> /\ pc' \in Switching /\ tx # None
        /\ tx.state \in {"building", "verification_pending"}
    BY <1>11 DEF SaveRollback, Procedure
  <2>2. tx.base # None
    BY <2>1, Numbers, Members
  <2>3. CASE tx.saved
    <3>1. rollback' = rollback
      BY <1>11, <2>1, <2>2, <2>3 DEF SaveRollback
    <3> QED BY <2>1, <2>3, <3>1
  <2>4. CASE ~tx.saved
    BY <2>1, <2>4
  <2> QED BY <2>3, <2>4
<1>12. CASE MarkSaved
  <2>1. /\ Same /\ tx'.state = tx.state /\ tx'.gen = tx.gen /\ tx'.saved
        /\ tx'.rolledBack = tx.rolledBack /\ tx'.confirmed = tx.confirmed
    BY <1>12, Writes
  <2>2. tx # None /\ tx' # None /\ UNCHANGED <<manifest, rollback>>
    BY <1>12, <2>1, Members DEF MarkSaved, Same
  <2>3. tx.state \in {"building", "verification_pending"} /\ rollback = tx.base /\ pc' = "switch"
    BY <1>12 DEF MarkSaved, Procedure, LayersKept
  <2> QED BY <2>1, <2>2, <2>3 DEF Same
<1>13. CASE Switch
  BY <1>13 DEF Switch, Procedure, LayersKept
<1>14. CASE MarkPending
  <2>1. /\ Same /\ tx'.state = "verification_pending" /\ tx'.gen = build
        /\ tx'.rolledBack = tx.rolledBack
        /\ tx'.saved = tx.saved /\ tx'.confirmed = tx.confirmed
    BY <1>14, Writes
  <2>2. tx # None /\ tx' # None /\ UNCHANGED <<manifest, rollback>>
    BY <1>14, <2>1, Members DEF MarkPending, Same
  <2>3. tx.state = "building" /\ build = manifest.active /\ manifest.trial
    BY <1>14 DEF MarkPending, Procedure, LayersKept
  <2> QED BY <2>1, <2>2, <2>3 DEF Same
<1>15. CASE Decide
  BY <1>15, SettledIs DEF Decide, StoreFree
<1>16. CASE ReturnManifest
  <2>1. /\ manifest.trial /\ New /\ manifest' = tx.base
        /\ UNCHANGED <<tx, rollback>> /\ pc' = "fail"
    BY <1>16 DEF ReturnManifest, Procedure
  <2>2. tx.plan # tx.base.plan
    BY <2>1, Numbers DEF Revisions
  <2> QED BY <2>1, <2>2
<1>17. CASE FailTransaction
  BY <1>17, Writes DEF FailTransaction, Same, Procedure
<1>18. CASE Prune
  BY <1>18 DEF Prune, Procedure
<1>19. CASE UndoSource
  BY <1>19, SettledIs DEF UndoSource, StoreFree
<1>20. CASE Confirm
  BY <1>20, Writes, ConfirmEnds DEF Confirm, Same, Procedure
<1>21. CASE Commit
  BY <1>21, Writes DEF Commit, Same, Procedure
<1>22. CASE Sweep
  BY <1>22, SweepWrites DEF Sweep, Same, Procedure
<1>23. CASE ArchiveCommitted
  BY <1>23, SettledIs DEF ArchiveCommitted, StoreFree
<1>24. CASE Crash
  <2>1. UNCHANGED <<manifest, tx, rollback>> /\ Window = "none"
    BY <1>24 DEF Crash, NoWindow, files
  <2>2. pc # "fail" /\ ~(caller = "hot" /\ pc \in Switching)
    BY <2>1 DEF Window
  <2> QED BY <2>1, <2>2 DEF Procedure
<1> QED BY <1>1, <1>2, <1>3, <1>4, <1>5, <1>6, <1>7, <1>8, <1>9, <1>10,
           <1>11, <1>12, <1>13, <1>14, <1>15, <1>16, <1>17, <1>18, <1>19,
           <1>20, <1>21, <1>22, <1>23, <1>24
        DEF Next, Launcher, Procedures, Store

\* Drafts holds once the pending transaction has left its first state,
LEMMA DraftsGone ==
    ASSUME tx' # None => tx'.state # "pending_restart", pc' \notin {"stage", "discard"}
    PROVE  Drafts'
  BY DEF Drafts

\* and in a step that leaves the transaction and its surroundings alone.
LEMMA DraftsFrame ==
    ASSUME Drafts, Sources, UNCHANGED <<manifest, tx, record, lastRev>>,
           \A r \in Revs : backup'[r] # None => backup[r] # None,
           src' = src \/ src'.live # "new" \/ (src'.live = src.live /\ src'.needs = src.needs),
           pc' \notin {"stage", "discard"}
    PROVE  Drafts'
<1>1. Needs' => Needs
  BY DEF Needs
<1> QED BY <1>1 DEF Drafts, Fresh

\* What is drafted and not begun is still based on the manifest, and asks for
\* the packages the new source needs.
LEMMA DraftsStep ==
    ASSUME TypeOK, Places, Revisions, Drafts, Transaction, Procedure, LayersKept,
           Sources, Packages, [Next]_vars
    PROVE  Drafts'
<1>1. CASE \/ StageFails \/ StageDiscard \/ BeginClear \/ HotLoad \/ Restart
           \/ (\E needs \in BOOLEAN : StageSource(needs)) \/ CancelSource
           \/ ApplySource \/ VerifyPasses \/ VerifyFails \/ FinishSource \/ Crash
  <2>1. UNCHANGED <<manifest, tx, record, lastRev>> /\ pc' \notin {"stage", "discard"}
        /\ \A r \in Revs : backup'[r] # None => backup[r] # None
    BY <1>1 DEF StageFails, StageDiscard, BeginClear, HotLoad, Restart, StageSource,
            CancelSource, ApplySource, VerifyPasses, VerifyFails, FinishSource,
            Crash, At, StoreFree, files, control
  <2>2. src' = src \/ src'.live # "new" \/ (src'.live = src.live /\ src'.needs = src.needs)
    BY <1>1, Members DEF StageFails, StageDiscard, BeginClear, HotLoad, Restart, StageSource,
            CancelSource, ApplySource, VerifyPasses, VerifyFails, FinishSource,
            Crash, At, StoreFree, FailSource, files, control, TypeOK, Source
  <2> QED BY <2>1, <2>2, DraftsFrame
<1>2. CASE ArchiveFirst
  <2>1. tx' = None /\ pc' \notin {"stage", "discard"}
    BY <1>2 DEF ArchiveFirst, StoreFree, control
  <2> QED BY <2>1, DraftsGone
<1>3. ASSUME NEW migrates \in BOOLEAN, NEW deferred \in BOOLEAN, BeginStage(migrates, deferred)
      PROVE  Drafts'
  <2>1. /\ draft' \in Tx /\ draft'.state = "pending_restart"
        /\ draft'.rev = lastRev + 1 /\ draft'.plan.rev = lastRev + 1 /\ lastRev' = lastRev + 1
        /\ draft'.plan.src = IF tx = None THEN manifest.plan.src ELSE tx.plan.src
        /\ draft'.base = IF tx = None THEN manifest ELSE tx.base
        /\ draft'.gen = IF tx = None THEN 0 ELSE tx.gen
        /\ (~draft'.migrates) <=> (~migrates /\ (tx # None => ~tx.migrates))
        /\ ~migrates => draft'.plan.schema = IF tx = None THEN manifest.plan.schema ELSE tx.plan.schema
        /\ draft'.saved <=> (tx # None /\ tx.saved)
        /\ ~draft'.rolledBack /\ ~draft'.confirmed
    BY <1>3, StageDrafts
  <2>2. /\ pc' = "stage" /\ UNCHANGED <<manifest, tx, record, backup, src>>
        /\ tx # None => StateIs({"pending_restart"})
        /\ ~manifest.trial /\ phase = "run" /\ ~Recovery
    BY <1>3 DEF BeginStage, StoreFree, Procedure
  <2>3. Needs => manifest.plan.src
    BY <2>2 DEF Packages, Undoing
  <2>4. tx # None => tx.state = "pending_restart" /\ Fresh(tx)
    BY <2>2, PendingIs DEF StateIs, Drafts
  <2>5. lastRev \in Nat /\ manifest.plan.rev < lastRev + 1
        /\ \A r \in Revs : record[r] # "none" \/ backup[r] # None => r < lastRev + 1
    BY Numbers DEF Revisions
  <2>6. Fresh(draft)'
    <3>1. CASE tx = None
      BY <2>1, <2>2, <2>3, <2>5, <3>1 DEF Fresh, Needs
    <3>2. CASE tx # None
      BY <2>1, <2>2, <2>3, <2>4, <2>5, <3>2 DEF Fresh, Needs
    <3> QED BY <3>1, <3>2
  <2>7. tx # None => Fresh(tx)'
    BY <2>1, <2>2, <2>4, Numbers DEF Fresh, Needs
  <2> QED BY <2>2, <2>4, <2>6, <2>7 DEF Drafts
<1>4. CASE StageWrite
  <2>1. Fresh(draft) /\ (build = 0 \/ build # manifest.active) /\ draft' = draft /\ pc' = "discard"
        /\ UNCHANGED <<manifest, record, backup, src, lastRev>>
    BY <1>4 DEF StageWrite, Drafts, LayersKept
  <2>2. /\ tx' \in Tx /\ draft \in Tx /\ tx'.gen = build
        /\ tx'.state = draft.state /\ tx'.plan = draft.plan /\ tx'.rev = draft.rev
        /\ tx'.base = draft.base /\ tx'.migrates = draft.migrates
        /\ tx'.saved = draft.saved /\ tx'.rolledBack = draft.rolledBack
        /\ tx'.confirmed = draft.confirmed
    BY <1>4, Writes
  <2>3. Fresh(tx)'
    BY <2>1, <2>2 DEF Fresh, Needs
  <2>4. draft.gen \in {0} \cup (Gens \ {manifest.active})
    BY <2>1, <2>2, Numbers, Members DEF Fresh
  <2> QED BY <2>1, <2>2, <2>3, <2>4 DEF Drafts, Fresh
<1>5. CASE ClearWrite
  <2>1. (tx' # None => tx'.state # "pending_restart") /\ pc' \notin {"stage", "discard"}
    BY <1>5
       DEF ClearWrite, At, Procedure, Places, Transaction, New, Closed, Working, Switching,
           Committing, Returning, AfterRollback, TypeOK
  <2> QED BY <2>1, DraftsGone
<1>6. CASE BeginHot
  <2>1. (tx' # None => tx'.state # "pending_restart") /\ pc' \notin {"stage", "discard"}
    BY <1>6, HotDrafts
       DEF BeginHot, At, Procedure, Places, Transaction, New, Closed, Working, Switching,
           Committing, Returning, AfterRollback, TypeOK
  <2> QED BY <2>1, DraftsGone
<1>7. CASE Merge
  <2>1. pc' = "apply" /\ UNCHANGED <<manifest, record, backup, draft>>
    BY <1>7 DEF Merge
  <2>2. CASE tx' = tx /\ lastRev' = lastRev
    <3>1. src' = src \/ (src'.live = src.live /\ src'.needs = src.needs)
      BY <1>7, Members DEF Merge, FailSource, TypeOK, Source
    <3> QED BY <2>1, <2>2, <3>1, DraftsFrame
  <2>3. CASE ~(tx' = tx /\ lastRev' = lastRev)
    <3>1. /\ tx' \in Tx /\ tx'.state = "pending_restart" /\ tx'.rev = tx'.plan.rev /\ tx'.plan.src
          /\ tx'.plan.schema = IF tx = None THEN manifest.plan.schema ELSE tx.plan.schema
          /\ tx'.base = IF tx = None THEN manifest ELSE tx.base
          /\ tx'.gen = IF tx = None THEN 0 ELSE tx.gen
          /\ tx'.migrates <=> tx # None /\ tx.migrates
          /\ tx'.saved <=> tx # None /\ tx.saved
          /\ ~tx'.rolledBack /\ ~tx'.confirmed
          /\ tx = None => tx'.rev = lastRev + 1 /\ lastRev' = lastRev + 1
          /\ tx # None => tx'.rev = tx.rev /\ lastRev' = tx.rev
      BY <1>7, <2>3, MergeDrafts
    <3>2. tx # None => Fresh(tx) /\ tx.rev \in Nat
      BY <1>7, <2>3, MergeDrafts, Numbers DEF StateIs, Pending, Drafts
    <3>3. /\ lastRev \in Nat /\ (tx = None => ~manifest.trial) /\ manifest.plan.rev < lastRev + 1
          /\ \A r \in Revs : record[r] # "none" \/ backup[r] # None => r < lastRev + 1
      BY Numbers DEF Revisions, Transaction, New
    <3>4. Fresh(tx)'
      <4>1. CASE tx = None
        BY <2>1, <3>1, <3>3, <4>1 DEF Fresh
      <4>2. CASE tx # None
        BY <2>1, <3>1, <3>2, <4>2 DEF Fresh
      <4> QED BY <4>1, <4>2
    <3> QED BY <2>1, <3>4 DEF Drafts
  <2> QED BY <2>2, <2>3
<1>8. CASE Apply
  <2>1. CASE tx' = tx
    BY <1>8, <2>1, DraftsFrame DEF Apply, At
  <2>2. CASE tx' # tx
    BY <1>8, <2>2, ApplyWrites, DraftsGone
  <2> QED BY <2>1, <2>2
<1>9. CASE Build
  <2>1. (tx' # None => tx'.state # "pending_restart") /\ pc' \notin {"stage", "discard"}
    BY <1>9
       DEF Build, At, Procedure, Places, Transaction, New, Closed, Working, Switching,
           Committing, Returning, AfterRollback, TypeOK
  <2> QED BY <2>1, DraftsGone
<1>10. CASE ApplyFails
  <2>1. (tx' # None => tx'.state # "pending_restart") /\ pc' \notin {"stage", "discard"}
    BY <1>10, Writes
       DEF ApplyFails, At, Procedure, Places, Transaction, New, Closed, Working, Switching,
           Committing, Returning, AfterRollback, TypeOK
  <2> QED BY <2>1, DraftsGone
<1>11. CASE MigrateBackup
  <2>1. (tx' # None => tx'.state # "pending_restart") /\ pc' \notin {"stage", "discard"}
    BY <1>11, Writes
       DEF MigrateBackup, At, Procedure, Places, Transaction, New, Closed, Working,
           Switching, Committing, Returning, AfterRollback, TypeOK
  <2> QED BY <2>1, DraftsGone
<1>12. CASE MigrateOk
  <2>1. (tx' # None => tx'.state # "pending_restart") /\ pc' \notin {"stage", "discard"}
    BY <1>12
       DEF MigrateOk, At, Procedure, Places, Transaction, New, Closed, Working, Switching,
           Committing, Returning, AfterRollback, TypeOK
  <2> QED BY <2>1, DraftsGone
<1>13. CASE MigrateFails
  <2>1. (tx' # None => tx'.state # "pending_restart") /\ pc' \notin {"stage", "discard"}
    BY <1>13, Writes
       DEF MigrateFails, At, Procedure, Places, Transaction, New, Closed, Working,
           Switching, Committing, Returning, AfterRollback, TypeOK
  <2> QED BY <2>1, DraftsGone
<1>14. CASE SaveRollback
  <2>1. (tx' # None => tx'.state # "pending_restart") /\ pc' \notin {"stage", "discard"}
    BY <1>14
       DEF SaveRollback, At, Procedure, Places, Transaction, New, Closed, Working,
           Switching, Committing, Returning, AfterRollback, TypeOK
  <2> QED BY <2>1, DraftsGone
<1>15. CASE MarkSaved
  <2>1. (tx' # None => tx'.state # "pending_restart") /\ pc' \notin {"stage", "discard"}
    BY <1>15, Writes
       DEF MarkSaved, At, Procedure, Places, Transaction, New, Closed, Working, Switching,
           Committing, Returning, AfterRollback, TypeOK
  <2> QED BY <2>1, DraftsGone
<1>16. CASE Switch
  <2>1. (tx' # None => tx'.state # "pending_restart") /\ pc' \notin {"stage", "discard"}
    BY <1>16
       DEF Switch, At, Procedure, Places, Transaction, New, Closed, Working, Switching,
           Committing, Returning, AfterRollback, TypeOK
  <2> QED BY <2>1, DraftsGone
<1>17. CASE MarkPending
  <2>1. (tx' # None => tx'.state # "pending_restart") /\ pc' \notin {"stage", "discard"}
    BY <1>17, Writes
       DEF MarkPending, At, Procedure, Places, Transaction, New, Closed, Working, Switching,
           Committing, Returning, AfterRollback, TypeOK
  <2> QED BY <2>1, DraftsGone
<1>18. CASE SwitchSource
  <2>1. tx # None => tx.state # "pending_restart"
    BY <1>18 DEF SwitchSource, At, Sources
  <2> QED BY <1>18, <2>1, DraftsGone DEF SwitchSource
<1>19. CASE Decide
  <2>1. CASE tx' = None
    BY <1>19, <2>1, DraftsGone DEF Decide
  <2>2. CASE tx' # None
    BY <1>19, <2>2, DraftsFrame DEF Decide
  <2> QED BY <2>1, <2>2
<1>20. CASE RestoreDatabases
  <2>1. (tx' # None => tx'.state # "pending_restart") /\ pc' \notin {"stage", "discard"}
    BY <1>20
       DEF RestoreDatabases, At, Procedure, Places, Transaction, New, Closed, Working,
           Switching, Committing, Returning, AfterRollback, TypeOK
  <2> QED BY <2>1, DraftsGone
<1>21. CASE ReturnManifest
  <2>1. (tx' # None => tx'.state # "pending_restart") /\ pc' \notin {"stage", "discard"}
    BY <1>21
       DEF ReturnManifest, At, Procedure, Places, Transaction, New, Closed, Working,
           Switching, Committing, Returning, AfterRollback, TypeOK
  <2> QED BY <2>1, DraftsGone
<1>22. CASE FailTransaction
  <2>1. (tx' # None => tx'.state # "pending_restart") /\ pc' \notin {"stage", "discard"}
    BY <1>22, Writes
       DEF FailTransaction, At, Procedure, Places, Transaction, New, Closed, Working,
           Switching, Committing, Returning, AfterRollback, TypeOK
  <2> QED BY <2>1, DraftsGone
<1>23. CASE Prune
  <2>1. tx' # None => tx'.state # "pending_restart"
    BY <1>23 DEF Prune, Procedure, Transaction
  <2>2. caller \in {"apply", "verify", "hot"}
    BY DEF TypeOK
  <2>3. pc' \notin {"stage", "discard"}
    BY <1>23, <2>2 DEF Prune, AfterRollback
  <2> QED BY <2>1, <2>3, DraftsGone
<1>24. CASE UndoSource
  <2>1. CASE tx' = None
    BY <1>24, <2>1, DraftsGone DEF UndoSource
  <2>2. CASE tx' # None
    BY <1>24, <2>2, DraftsFrame DEF UndoSource
  <2> QED BY <2>1, <2>2
<1>25. CASE Confirm
  <2>1. (tx' # None => tx'.state # "pending_restart") /\ pc' \notin {"stage", "discard"}
    BY <1>25, Writes
       DEF Confirm, At, Procedure, Places, Transaction, New, Closed, Working, Switching,
           Committing, Returning, AfterRollback, TypeOK
  <2> QED BY <2>1, DraftsGone
<1>26. CASE Commit
  <2>1. (tx' # None => tx'.state # "pending_restart") /\ pc' \notin {"stage", "discard"}
    BY <1>26, Writes
       DEF Commit, At, Procedure, Places, Transaction, New, Closed, Working, Switching,
           Committing, Returning, AfterRollback, TypeOK
  <2> QED BY <2>1, DraftsGone
<1>27. CASE Sweep
  <2>1. (tx' # None => tx'.state # "pending_restart") /\ pc' \notin {"stage", "discard"}
    BY <1>27, SweepWrites
       DEF Sweep, At, Procedure, Places, Transaction, New, Closed, Working, Switching,
           Committing, Returning, AfterRollback, TypeOK
  <2> QED BY <2>1, DraftsGone
<1>28. CASE ArchiveCommitted
  <2>1. tx' = None \/ tx' = tx
    BY <1>28 DEF ArchiveCommitted
  <2>2. Closed
    BY <1>28 DEF ArchiveCommitted, Procedure
  <2>3. caller \in {"apply", "verify", "hot"}
    BY DEF TypeOK
  <2>4. pc' \notin {"stage", "discard"}
    BY <1>28, <2>3 DEF ArchiveCommitted
  <2> QED BY <2>1, <2>2, <2>4, DraftsGone DEF Closed
<1>29. CASE UNCHANGED vars
  BY <1>29 DEF vars, files, control, Drafts, Fresh, Needs
<1> QED BY <1>1, <1>2, <1>3, <1>4, <1>5, <1>6, <1>7, <1>8, <1>9, <1>10,
           <1>11, <1>12, <1>13, <1>14, <1>15, <1>16, <1>17, <1>18, <1>19,
           <1>20, <1>21, <1>22, <1>23, <1>24, <1>25, <1>26, <1>27, <1>28,
           <1>29
        DEF Next, Launcher, Procedures, Store

\* Every step keeps what the holder of the lock relies on.
LEMMA ProcedureStep ==
    ASSUME TypeOK, Places, Revisions, Transaction, Procedure, LayersKept, Round, [Next]_vars
    PROVE  Procedure'
<1> USE DEF At, Procedure, Places, Transaction, New, Closed, Working, Switching, Committing, Returning
<1>1. CASE \/ Restart \/ Merge \/ ApplyFails \/ MigrateFails \/ MarkPending
           \/ ApplySource \/ UndoSource \/ Crash
  BY <1>1 DEF Restart, Merge, ApplyFails, MigrateFails, MarkPending, ApplySource,
          UndoSource, Crash
<1>2. CASE \/ ArchiveFirst
           \/ (\E migrates, deferred \in BOOLEAN : BeginStage(migrates, deferred))
           \/ StageWrite \/ StageFails \/ StageDiscard \/ BeginClear
           \/ ClearWrite \/ (\E needs \in BOOLEAN : StageSource(needs))
           \/ CancelSource
  <2>1. UNCHANGED <<manifest, phase>> /\ phase = "run" /\ pc \in {"idle", "stage", "discard", "clear"}
        /\ pc' \in {"idle", "stage", "discard", "clear"}
    BY <1>2, TypeOK DEF ArchiveFirst, BeginStage, StageWrite, StageFails, StageDiscard,
            BeginClear, ClearWrite, StageSource, CancelSource, StoreFree, control, TypeOK
  <2> QED BY <2>1
<1>3. CASE BeginHot
  <2>1. /\ tx'.state = "verification_pending" /\ tx'.gen = build' /\ ~tx'.migrates
    BY <1>3, HotDrafts
  <2>2. pc' = "save" /\ caller' = "hot"
    BY <1>3 DEF BeginHot
  <2> QED BY <2>1, <2>2
<1>4. CASE HotLoad
  BY <1>4 DEF HotLoad, files
<1>5. CASE Apply
  <2>1. CASE pc' = "source"
    BY <2>1
  <2>2. CASE pc' = "confirm"
    <3>1. StateIs({"committed", "cleanup_pending"}) /\ tx' = tx /\ UNCHANGED <<manifest, caller>>
          /\ pc = "apply" /\ phase = "boot"
      BY <1>5, <2>2 DEF Apply
    <3>2. tx # None
      BY <3>1 DEF StateIs, Pending
    <3>3. Closed \/ tx.state = "verification_pending"
      BY <3>1, <3>2, PendingIs DEF StateIs, Verified
    <3>4. New
      BY <3>1, <3>2, <3>3
    <3>5. caller = "apply"
      BY <3>1
    <3> QED BY <2>2, <3>1, <3>4, <3>5
  <2>3. CASE pc' = "build"
    <3>1. tx'.state = "building" /\ caller' = caller /\ caller = "apply"
      BY <1>5, <2>3, ApplyWrites DEF Apply
    <3> QED BY <2>3, <3>1
  <2> QED BY <1>5, <2>1, <2>2, <2>3 DEF Apply
<1>6. CASE Build
  BY <1>6 DEF Build
<1>7. CASE MigrateBackup
  BY <1>7, Writes, Members DEF MigrateBackup, Same
<1>8. CASE MigrateOk
  BY <1>8 DEF MigrateOk
<1>9. CASE SaveRollback
  <2>1. UNCHANGED <<manifest, tx, build, caller>> /\ tx # None
    BY <1>9 DEF SaveRollback
  <2>2. CASE pc' = "switch"
    BY <1>9, <2>1, <2>2 DEF SaveRollback
  <2>3. CASE pc' = "mark" /\ rollback' = manifest /\ ~(tx.saved /\ rollback # None)
    <3>1. tx.base # None
      BY <2>1, Numbers, Members
    <3>2. ~New
      BY <1>9, <2>1, <2>3, <3>1 DEF SaveRollback
    <3> QED BY <1>9, <2>1, <2>3, <3>2 DEF SaveRollback
  <2> QED BY <1>9, <2>2, <2>3 DEF SaveRollback
<1>10. CASE MarkSaved
  BY <1>10, Writes, Members DEF MarkSaved, Same
<1>11. CASE Switch
  BY <1>11 DEF Switch
<1>12. CASE SwitchSource
  BY <1>12 DEF SwitchSource, Round
<1>13. CASE Decide
  <2>1. UNCHANGED manifest /\ pc' = "idle"
    BY <1>13 DEF Decide
  <2>2. phase' = "run" => ~manifest.trial
    BY <1>13, DecideVerifies DEF Recovery
  <2> QED BY <2>1, <2>2
<1>14. CASE VerifyPasses
  BY <1>14 DEF VerifyPasses, Round, TypeOK, files
<1>15. CASE VerifyFails
  BY <1>15 DEF VerifyFails, Round, TypeOK, files
<1>16. CASE RestoreDatabases
  BY <1>16 DEF RestoreDatabases
<1>17. CASE ReturnManifest
  <2>1. /\ manifest.trial /\ New /\ manifest' = tx.base
        /\ UNCHANGED <<tx, rollback, caller>> /\ pc = "return" /\ pc' = "fail"
    BY <1>17 DEF ReturnManifest
  <2>2. tx.plan # tx.base.plan
    BY <2>1, Numbers DEF Revisions
  <2> QED BY <2>1, <2>2
<1>18. CASE FailTransaction
  BY <1>18, Writes, Members DEF FailTransaction, Same
<1>19. CASE Prune
  <2>1. ~manifest.trial /\ UNCHANGED manifest
    BY <1>19 DEF Prune
  <2>2. caller \in {"apply", "verify", "hot"}
    BY DEF TypeOK
  <2>3. pc' \in {"decide", "source_undo", "idle"}
    BY <1>19, <2>2 DEF Prune, AfterRollback
  <2> QED BY <2>1, <2>3
<1>20. CASE Confirm
  BY <1>20, Writes, ConfirmEnds, Members DEF Confirm, Same
<1>21. CASE Commit
  BY <1>21, Writes, Members DEF Commit, Same
<1>22. CASE Sweep
  BY <1>22, SweepWrites, Members DEF Sweep, Same
<1>23. CASE ArchiveCommitted
  <2>1. ~manifest.trial /\ UNCHANGED manifest
    BY <1>23 DEF ArchiveCommitted
  <2>2. caller \in {"apply", "verify", "hot"}
    BY DEF TypeOK
  <2>3. pc' \in {"source", "source_done", "idle"}
    BY <1>23, <2>2 DEF ArchiveCommitted
  <2> QED BY <2>1, <2>3
<1>24. CASE FinishSource
  BY <1>24 DEF FinishSource
<1>25. CASE UNCHANGED vars
  BY <1>25 DEF vars, files, control
<1> QED BY <1>1, <1>2, <1>3, <1>4, <1>5, <1>6, <1>7, <1>8, <1>9, <1>10,
           <1>11, <1>12, <1>13, <1>14, <1>15, <1>16, <1>17, <1>18, <1>19,
           <1>20, <1>21, <1>22, <1>23, <1>24, <1>25
        DEF Next, Launcher, Procedures, Store

\* What a step must leave alone for LayersKept to stay.
LEMMA LayersFrame ==
    ASSUME LayersKept, UNCHANGED <<manifest, layers>>, pc' # "stage",
           pc' \in {"migrate", "upgrade"} \cup Switching => pc \in {"migrate", "upgrade"} \cup Switching /\ build' = build,
           (tx' = None /\ pc' \notin {"migrate", "upgrade"} \cup Switching) \/ tx' = tx \/ (Same /\ (tx'.state = tx.state \/ ~Closed \/ Closed'))
    PROVE  LayersKept'
  BY DEF LayersKept, Whole, Closed, Same, Switching

\* No step removes a layer that is in use or may be returned to.
LEMMA LayersKeptStep ==
    ASSUME TypeOK, Places, Drafts, Transaction, Procedure, LayersKept, [Next]_vars
    PROVE  LayersKept'
<1>1. CASE \/ ArchiveFirst \/ ClearWrite \/ HotLoad \/ CancelSource \/ Restart
           \/ (\E needs \in BOOLEAN : StageSource(needs)) \/ MigrateOk
           \/ SaveRollback \/ ApplySource \/ SwitchSource \/ Decide
           \/ VerifyPasses \/ VerifyFails \/ RestoreDatabases \/ UndoSource
           \/ FinishSource \/ Crash
  <2>1. /\ UNCHANGED <<manifest, layers>> /\ pc' # "stage"
        /\ (tx' = None /\ pc' \notin {"migrate", "upgrade"} \cup Switching) \/ tx' = tx
        /\ pc' \in {"migrate", "upgrade"} \cup Switching => pc \in {"migrate", "upgrade"} \cup Switching /\ build' = build
    BY <1>1 DEF ArchiveFirst, ClearWrite, HotLoad, CancelSource, Restart,
            StageSource, MigrateOk, SaveRollback, ApplySource, SwitchSource,
            Decide, VerifyPasses, VerifyFails, RestoreDatabases, UndoSource,
            FinishSource, Crash, At, StoreFree, files, control, Switching
  <2> QED BY <2>1, LayersFrame
<1>2. ASSUME NEW migrates \in BOOLEAN, NEW deferred \in BOOLEAN, BeginStage(migrates, deferred)
      PROVE  LayersKept'
  <2>1. UNCHANGED <<manifest, tx>> /\ pc' = "stage" /\ pc = "idle"
    BY <1>2 DEF BeginStage, StoreFree
  <2>2. /\ draft' \in Tx
        /\ \/ layers' = layers /\ build' = build
           \/ /\ build' \in Gens /\ build' # manifest.active /\ layers[build'] = None
              /\ layers' = [layers EXCEPT ![build'] = draft'.plan]
    BY <1>2, StageDrafts
  <2>3. build = 0
    BY <2>1 DEF Places
  <2>4. \/ layers' = layers
        \/ \E g \in Gens, p \in Plan : layers[g] = None /\ layers' = [layers EXCEPT ![g] = p]
    <3>1. draft'.plan \in Plan
      BY <2>2, TxIs
    <3> QED BY <2>2, <3>1
  <2>5. \A m \in Manifest : Whole(m) => m.active = 0 \/ layers'[m.active] = m.plan
    BY <2>4, WholeStays
  <2> QED BY <2>1, <2>2, <2>3, <2>5, Numbers DEF LayersKept, Whole, Closed, Switching
<1>3. CASE StageWrite
  <2>1. Fresh(draft) /\ UNCHANGED <<manifest, layers>> /\ pc' = "discard"
    BY <1>3 DEF StageWrite, Drafts
  <2>2. tx'.base = manifest
    BY <1>3, <2>1, Writes DEF Fresh
  <2> QED BY <2>1, <2>2 DEF LayersKept, Whole, Closed, Switching
<1>4. CASE StageFails
  <2>1. /\ UNCHANGED <<manifest, tx>> /\ pc' = "idle" /\ build # manifest.active /\ build # 0
        /\ layers' = Discarded(build) /\ (tx # None => tx.state = "pending_restart")
    BY <1>4 DEF StageFails, LayersKept, Drafts, Discarded
  <2>2. build \in 0..MaxGen
    BY Numbers
  <2>3. \A m \in Manifest : Whole(m) /\ m.active = manifest.active => m.active = 0 \/ layers'[m.active] = m.plan
    BY <2>1, <2>2, WholeStays
  <2>4. tx # None => tx.base = manifest
    BY <2>1 DEF Drafts, Fresh
  <2> QED BY <2>1, <2>3, <2>4, Numbers DEF LayersKept, Whole, Closed, Switching
<1>5. CASE StageDiscard
  <2> DEFINE g == IF draft.gen = build THEN 0 ELSE draft.gen
  <2>1. /\ UNCHANGED <<manifest, tx>> /\ pc' = "idle" /\ layers' = Discarded(g)
        /\ tx # None /\ tx.state = "pending_restart" /\ draft.gen \in {0} \cup (Gens \ {manifest.active})
    BY <1>5 DEF StageDiscard, Drafts, Places
  <2>2. g \in 0..MaxGen /\ (g = 0 \/ g # manifest.active)
    BY <2>1, Members
  <2> HIDE DEF g
  <2>3. \A m \in Manifest : Whole(m) /\ m.active = manifest.active => m.active = 0 \/ layers'[m.active] = m.plan
    <3>1. CASE g = 0
      BY <2>1, <3>1, WholeStays DEF Discarded
    <3>2. CASE g # 0
      BY <2>1, <2>2, <3>2, WholeStays
    <3> QED BY <3>1, <3>2
  <2>4. tx.base = manifest
    BY <2>1 DEF Drafts, Fresh
  <2> QED BY <2>1, <2>3, <2>4, Numbers DEF LayersKept, Whole, Closed, Switching
<1>6. CASE BeginClear
  <2>1. /\ UNCHANGED <<manifest, tx>> /\ pc' = "clear" /\ layers' = Discarded(tx.gen)
        /\ tx.gen = 0 \/ tx.gen # manifest.active
        /\ tx # None /\ StateIs({"pending_restart", "failed"})
    BY <1>6 DEF BeginClear, StateIs, Pending
  <2>2. tx \in Tx /\ tx.gen \in 0..MaxGen /\ tx.base \in Manifest /\ manifest \in Manifest
    BY <2>1, Numbers
  <2>3. ~Closed /\ (tx.gen = 0 \/ tx.gen # tx.base.active)
    BY <2>1, PendingIs DEF StateIs, Closed, Transaction
  <2>4. \A m \in Manifest : Whole(m) /\ (tx.gen = 0 \/ tx.gen # m.active) => m.active = 0 \/ layers'[m.active] = m.plan
    <3>1. CASE tx.gen = 0
      BY <2>1, <3>1, WholeStays DEF Discarded
    <3>2. CASE tx.gen # 0
      BY <2>1, <2>2, <3>2, WholeStays
    <3> QED BY <3>1, <3>2
  <2> QED BY <2>1, <2>2, <2>3, <2>4 DEF LayersKept, Whole, Closed, Switching
<1>7. CASE BeginHot
  <2>1. tx' \in Tx /\ tx'.base = manifest /\ manifest' = manifest /\ pc' = "save"
        /\ build' \in Gens /\ build' # manifest.active /\ layers[build'] = None
        /\ layers' = [layers EXCEPT ![build'] = tx'.plan]
    BY <1>7, HotDrafts DEF BeginHot
  <2>2. \E g \in Gens, p \in Plan : layers[g] = None /\ layers' = [layers EXCEPT ![g] = p]
    BY <2>1, TxIs
  <2>3. \A m \in Manifest : Whole(m) => m.active = 0 \/ layers'[m.active] = m.plan
    BY <2>2, WholeStays
  <2>4. layers'[build'] = tx'.plan
    BY <2>1 DEF TypeOK, Layers
  <2> QED BY <2>1, <2>3, <2>4, Numbers DEF LayersKept, Whole, Switching
<1>8. CASE Merge
  <2>1. UNCHANGED <<manifest, layers>> /\ pc' = "apply"
    BY <1>8 DEF Merge
  <2>2. CASE tx' = tx
    BY <2>1, <2>2, LayersFrame DEF Switching
  <2>3. CASE tx' # tx
    <3>1. tx'.base = (IF tx = None THEN manifest ELSE tx.base) /\ (tx # None => StateIs({"pending_restart"}))
      BY <1>8, <2>3, MergeDrafts
    <3>2. tx # None => ~Closed
      BY <3>1, PendingIs DEF StateIs, Closed
    <3> QED BY <2>1, <3>1, <3>2 DEF LayersKept, Whole, Closed, Switching
  <2> QED BY <2>2, <2>3
<1>9. CASE Apply
  <2>1. UNCHANGED <<manifest, layers>> /\ pc' \notin {"stage", "migrate", "upgrade"} \cup Switching
    BY <1>9 DEF Apply, Switching
  <2>2. CASE tx' = tx
    BY <2>1, <2>2, LayersFrame
  <2>3. CASE tx' # tx
    <3>1. Same /\ StateIs({"pending_restart", "building"})
      BY <1>9, <2>3, ApplyWrites
    <3>2. ~Closed
      BY <3>1, PendingIs DEF StateIs, Same, Closed
    <3> QED BY <2>1, <3>1, <3>2, LayersFrame
  <2> QED BY <2>2, <2>3
<1>10. CASE Build
  <2>1. UNCHANGED <<manifest, tx>> /\ tx # None /\ tx.state = "building" /\ pc' \in {"migrate", "save"}
    BY <1>10 DEF Build, At, Procedure, Places, Working
  <2>2. tx \in Tx /\ tx.plan \in Plan /\ tx.plan # None /\ tx.base \in Manifest /\ ~Closed /\ Whole(tx.base)
    BY <2>1, Numbers, TxIs, Members DEF LayersKept, Closed
  <2>3. CASE StagedBuild(tx) /\ build' = tx.gen /\ layers' = layers
    <3>1. layers[build'] = tx.plan /\ build' # tx.base.active
      BY <2>1, <2>3 DEF StagedBuild, Transaction
    <3> QED BY <2>1, <2>3, <3>1 DEF LayersKept, Whole, Closed, Switching
  <2>4. CASE ~StagedBuild(tx)
    <3>1. /\ build' = NextGeneration /\ build' \in Gens /\ layers[build'] = None
          /\ layers' = [layers EXCEPT ![build'] = tx.plan]
      BY <1>10, <2>4, NextIsFree DEF Build
    <3>2. \E g \in Gens, p \in Plan : layers[g] = None /\ layers' = [layers EXCEPT ![g] = p]
      BY <2>2, <3>1
    <3>3. \A m \in Manifest : Whole(m) => m.active = 0 \/ layers'[m.active] = m.plan
      BY <3>2, WholeStays
    <3>4. layers'[build'] = tx.plan
      BY <3>1 DEF TypeOK, Layers
    <3>5. build' # tx.base.active
      BY <2>2, <3>1, ManifestIs, Members DEF Whole
    <3> QED BY <2>1, <2>2, <3>3, <3>4, <3>5, Numbers DEF LayersKept, Whole, Closed, Switching
  <2> QED BY <1>10, <2>3, <2>4 DEF Build
<1>11. CASE ApplyFails
  <2>1. Same /\ (tx'.state = tx.state \/ ~Closed \/ Closed')
    BY <1>11, Writes
       DEF ApplyFails, At, Procedure, Transaction, Closed, New, Places, Working, Switching,
           Committing, Returning
  <2>2. /\ UNCHANGED <<manifest, layers>> /\ pc' # "stage"
        /\ pc' \in {"migrate", "upgrade"} \cup Switching => pc \in {"migrate", "upgrade"} \cup Switching /\ build' = build
    BY <1>11 DEF ApplyFails, At, Switching
  <2> QED BY <2>1, <2>2, LayersFrame DEF Closed
<1>12. CASE MigrateBackup
  <2>1. Same /\ (tx'.state = tx.state \/ ~Closed \/ Closed')
    BY <1>12, Writes
       DEF MigrateBackup, At, Procedure, Transaction, Closed, New, Places, Working,
           Switching, Committing, Returning
  <2>2. /\ UNCHANGED <<manifest, layers>> /\ pc' # "stage"
        /\ pc' \in {"migrate", "upgrade"} \cup Switching => pc \in {"migrate", "upgrade"} \cup Switching /\ build' = build
    BY <1>12 DEF MigrateBackup, At, Switching
  <2> QED BY <2>1, <2>2, LayersFrame DEF Closed
<1>13. CASE MigrateFails
  <2>1. Same /\ (tx'.state = tx.state \/ ~Closed \/ Closed')
    BY <1>13, Writes
       DEF MigrateFails, At, Procedure, Transaction, Closed, New, Places, Working,
           Switching, Committing, Returning
  <2>2. /\ UNCHANGED <<manifest, layers>> /\ pc' # "stage"
        /\ pc' \in {"migrate", "upgrade"} \cup Switching => pc \in {"migrate", "upgrade"} \cup Switching /\ build' = build
    BY <1>13 DEF MigrateFails, At, Switching
  <2> QED BY <2>1, <2>2, LayersFrame DEF Closed
<1>14. CASE MarkSaved
  <2>1. Same /\ (tx'.state = tx.state \/ ~Closed \/ Closed')
    BY <1>14, Writes
       DEF MarkSaved, At, Procedure, Transaction, Closed, New, Places, Working, Switching,
           Committing, Returning
  <2>2. /\ UNCHANGED <<manifest, layers>> /\ pc' # "stage"
        /\ pc' \in {"migrate", "upgrade"} \cup Switching => pc \in {"migrate", "upgrade"} \cup Switching /\ build' = build
    BY <1>14 DEF MarkSaved, At, Switching
  <2> QED BY <2>1, <2>2, LayersFrame DEF Closed
<1>15. CASE Switch
  <2>1. /\ manifest' = [active |-> build, plan |-> tx.plan, trial |-> TRUE, verified |-> 0]
        /\ UNCHANGED <<tx, layers, build>> /\ layers[build] = tx.plan
    BY <1>15 DEF Switch, LayersKept, Switching
  <2>2. pc' \in {"load", "pending"}
    BY <1>15 DEF Switch
  <2> QED BY <2>1, <2>2 DEF LayersKept, Whole, Closed, Switching
<1>16. CASE MarkPending
  <2>1. Same /\ (tx'.state = tx.state \/ ~Closed \/ Closed')
    BY <1>16, Writes
       DEF MarkPending, At, Procedure, Transaction, Closed, New, Places, Working, Switching,
           Committing, Returning
  <2>2. /\ UNCHANGED <<manifest, layers>> /\ pc' # "stage"
        /\ pc' \in {"migrate", "upgrade"} \cup Switching => pc \in {"migrate", "upgrade"} \cup Switching /\ build' = build
    BY <1>16 DEF MarkPending, At, Switching
  <2> QED BY <2>1, <2>2, LayersFrame DEF Closed
<1>17. CASE ReturnManifest
  <2>1. /\ manifest.trial /\ New /\ ~Closed /\ manifest' = tx.base
        /\ UNCHANGED <<tx, layers>> /\ pc' = "fail"
    BY <1>17 DEF ReturnManifest, Procedure, Transaction, New, Closed
  <2> QED BY <2>1 DEF LayersKept, Whole, Closed, Switching, New
<1>18. CASE FailTransaction
  <2>1. Same /\ (tx'.state = tx.state \/ ~Closed \/ Closed')
    BY <1>18, Writes
       DEF FailTransaction, At, Procedure, Transaction, Closed, New, Places, Working,
           Switching, Committing, Returning
  <2>2. /\ UNCHANGED <<manifest, layers>> /\ pc' # "stage"
        /\ pc' \in {"migrate", "upgrade"} \cup Switching => pc \in {"migrate", "upgrade"} \cup Switching /\ build' = build
    BY <1>18 DEF FailTransaction, At, Switching
  <2> QED BY <2>1, <2>2, LayersFrame DEF Closed
<1>19. CASE Prune
  <2>1. UNCHANGED <<manifest, tx>> /\ tx # None /\ tx.base = manifest
    BY <1>19 DEF Prune, Procedure, Transaction, New, Places, Returning
  <2>2. \E S : manifest.active \in S /\ layers' = Kept(S)
    <3>1. CASE layers' = Kept({manifest.active})
      BY <3>1
    <3>2. ASSUME NEW gs \in SUBSET (Existing \ {manifest.active}), layers' = Kept(Gens \ gs)
          PROVE  layers' = Kept((Gens \ gs) \cup {manifest.active})
      <4>1. \A g \in Gens : g \in Gens \ gs <=> g \in (Gens \ gs) \cup {manifest.active}
        BY <3>2
      <4> QED BY <3>2, <4>1, Zenon DEF Kept
    <3> QED BY <1>19, <3>1, <3>2 DEF Prune
  <2>3. manifest.active = 0 \/ layers'[manifest.active] = manifest.plan
    BY <2>2, WholeStays, Numbers DEF LayersKept
  <2>4. caller \in {"apply", "verify", "hot"}
    BY DEF TypeOK
  <2>5. pc' \notin {"stage"} \cup {"migrate", "upgrade"} \cup Switching
    BY <1>19, <2>4 DEF Prune, AfterRollback, Switching
  <2> QED BY <2>1, <2>3, <2>5 DEF LayersKept, Whole, Closed
<1>20. CASE Confirm
  <2>1. Same /\ (tx'.state = tx.state \/ Closed') /\ manifest'.active = manifest.active /\ manifest'.plan = manifest.plan
    BY <1>20, Writes, ConfirmEnds DEF Closed
  <2>2. UNCHANGED layers /\ pc' = "commit"
    BY <1>20 DEF Confirm
  <2> QED BY <2>1, <2>2 DEF LayersKept, Whole, Same, Closed, Switching
<1>21. CASE Commit
  <2>1. Same /\ (tx'.state = tx.state \/ ~Closed \/ Closed')
    BY <1>21, Writes
       DEF Commit, At, Procedure, Transaction, Closed, New, Places, Working, Switching,
           Committing, Returning
  <2>2. /\ UNCHANGED <<manifest, layers>> /\ pc' # "stage"
        /\ pc' \in {"migrate", "upgrade"} \cup Switching => pc \in {"migrate", "upgrade"} \cup Switching /\ build' = build
    BY <1>21 DEF Commit, At, Switching
  <2> QED BY <2>1, <2>2, LayersFrame DEF Closed
<1>22. CASE Sweep
  <2>1. Same /\ (tx'.state = tx.state \/ tx'.state = "cleanup_pending")
    BY <1>22, SweepWrites
  <2>2. UNCHANGED manifest /\ pc' = "archive" /\ Closed
    BY <1>22 DEF Sweep, Procedure
  <2>3. \E S : manifest.active \in S /\ layers' = Kept(S)
    <3>1. CASE layers' = Kept(Referenced \cup {manifest.active})
      BY <3>1
    <3>2. ASSUME NEW gs \in SUBSET (Existing \ (Referenced \cup {manifest.active})), layers' = Kept(Gens \ gs)
          PROVE  layers' = Kept((Gens \ gs) \cup {manifest.active})
      <4>1. \A g \in Gens : g \in Gens \ gs <=> g \in (Gens \ gs) \cup {manifest.active}
        BY <3>2
      <4> QED BY <3>2, <4>1, Zenon DEF Kept
    <3> QED BY <1>22, <3>1, <3>2 DEF Sweep
  <2>4. manifest.active = 0 \/ layers'[manifest.active] = manifest.plan
    BY <2>3, WholeStays, Numbers DEF LayersKept
  <2> QED BY <2>1, <2>2, <2>4 DEF LayersKept, Whole, Same, Closed, Switching
<1>23. CASE ArchiveCommitted
  <2>1. UNCHANGED <<manifest, layers>> /\ (tx' = None \/ tx' = tx)
    BY <1>23 DEF ArchiveCommitted
  <2>2. caller \in {"apply", "verify", "hot"}
    BY DEF TypeOK
  <2>3. pc' \notin {"stage"} \cup {"migrate", "upgrade"} \cup Switching
    BY <1>23, <2>2 DEF ArchiveCommitted, Switching
  <2> QED BY <2>1, <2>3, LayersFrame
<1>24. CASE UNCHANGED vars
  BY <1>24 DEF vars, files, control, LayersKept, Whole, Closed
<1> QED BY <1>1, <1>2, <1>3, <1>4, <1>5, <1>6, <1>7, <1>8, <1>9, <1>10,
           <1>11, <1>12, <1>13, <1>14, <1>15, <1>16, <1>17, <1>18, <1>19,
           <1>20, <1>21, <1>22, <1>23, <1>24
        DEF Next, Launcher, Procedures, Store

\* What a step must leave alone for Databases to stay.
LEMMA DatabasesFrame ==
    ASSUME Databases, UNCHANGED <<manifest, tx, db, backup>>, ~Migrating, pc # "return",
           pc' \notin {"return", "migrate", "upgrade", "clear", "fail"} \cup Switching
    PROVE  Databases'
  BY DEF Databases, New, Recovery

\* A committed transaction needs no backup.
LEMMA DatabasesClosed ==
    ASSUME Databases, UNCHANGED <<manifest, db>>, tx' = None, ~Migrating, ~Recovery,
           pc # "return", pc' \notin {"return", "migrate", "upgrade", "clear", "fail"} \cup Switching
    PROVE  Databases'
  BY DEF Databases, New, Recovery

\* Every step leaves the databases with the schema of the manifest, or a backup
\* for the migration that is under way.
LEMMA DatabasesStep ==
    ASSUME TypeOK, Places, Revisions, Drafts, Transaction, Procedure, LayersKept,
           Databases, NoWindow, [Next]_vars
    PROVE  Databases'
<1>1. CASE \/ (\E migrates, deferred \in BOOLEAN : BeginStage(migrates, deferred))
           \/ StageFails \/ StageDiscard \/ HotLoad \/ CancelSource \/ Restart
           \/ (\E needs \in BOOLEAN : StageSource(needs)) \/ ApplySource
           \/ SwitchSource \/ VerifyPasses \/ VerifyFails \/ FinishSource
  <2>1. /\ UNCHANGED <<manifest, tx, db, backup>>
        /\ phase # "boot" \/ pc \in {"source", "source_switch"}
        /\ pc # "return" /\ pc' \notin {"return", "migrate", "upgrade", "clear", "fail"} \cup Switching
    BY <1>1 DEF BeginStage, StageFails, StageDiscard, HotLoad, CancelSource,
            Restart, StageSource, ApplySource, SwitchSource, VerifyPasses,
            VerifyFails, FinishSource, At, StoreFree, Places, Working, Returning, Committing, files, control, Switching
  <2>2. ~Migrating
    BY <2>1 DEF Migrating, Switching
  <2> QED BY <2>1, <2>2, DatabasesFrame
<1>2. CASE ArchiveFirst
  <2>1. UNCHANGED <<manifest, db>> /\ tx' = None /\ phase = "run" /\ ~Recovery /\ pc' = "idle"
        /\ pc # "return"
    BY <1>2
       DEF ArchiveFirst, StoreFree, control, Places, Working, Switching, Committing,
           Returning, Databases, TypeOK
  <2>2. ~Migrating
    BY <2>1 DEF Migrating
  <2> QED BY <2>1, <2>2, DatabasesClosed DEF Switching
<1>3. CASE StageWrite
  <2>1. /\ Fresh(draft) /\ UNCHANGED <<manifest, db, backup>> /\ pc = "stage" /\ pc' = "discard" /\ phase # "boot"
        /\ tx # None => tx.state = "pending_restart"
    BY <1>3 DEF StageWrite, Drafts, Places, Working, Switching, Committing, Returning
  <2>2. /\ tx' \in Tx /\ draft \in Tx /\ tx'.state = draft.state /\ tx'.plan = draft.plan /\ tx'.rev = draft.rev
    BY <1>3, Writes
  <2>3. backup[tx'.rev] = None /\ tx'.state # "building" /\ ~manifest.trial
    BY <2>1, <2>2, Numbers DEF Fresh
  <2>4. db = manifest.plan.schema
    BY <2>1 DEF Databases, Recovery, Migrating
  <2> QED BY <2>1, <2>3, <2>4 DEF Databases, New, Switching, Recovery
<1>4. CASE BeginClear
  <2>1. /\ UNCHANGED <<manifest, tx, db>> /\ backup' = [r \in Revs |-> None] /\ pc' = "clear"
        /\ phase = "run" /\ ~Recovery /\ ~manifest.trial /\ pc = "idle"
    BY <1>4 DEF BeginClear, StoreFree, Procedure
  <2>2. tx # None /\ tx \in Tx /\ StateIs({"pending_restart", "failed"})
    BY <1>4, Numbers DEF BeginClear, StateIs, Pending
  <2>3. tx.state # "building"
    BY <2>2, PendingIs DEF StateIs, Verified
  <2>4. backup'[tx.rev] = None
    BY <2>1, <2>2, Numbers
  <2> QED BY <2>1, <2>2, <2>3, <2>4 DEF Databases, New, Switching, Recovery, Migrating
<1>5. CASE ClearWrite
  <2>1. UNCHANGED <<manifest, db>> /\ tx' = None /\ phase = "run" /\ ~Recovery /\ pc' = "idle"
        /\ pc # "return"
    BY <1>5
       DEF ClearWrite, StoreFree, control, Places, Working, Switching, Committing,
           Returning, Databases, TypeOK
  <2>2. ~Migrating
    BY <2>1 DEF Migrating
  <2> QED BY <2>1, <2>2, DatabasesClosed DEF Switching
<1>6. CASE BeginHot
  <2>1. /\ UNCHANGED <<manifest, db, backup>> /\ pc' = "save" /\ phase = "run" /\ ~Recovery /\ pc = "idle"
    BY <1>6 DEF BeginHot, StoreFree
  <2>2. /\ tx' \in Tx /\ tx'.state = "verification_pending" /\ tx'.rev = lastRev + 1 /\ lastRev + 1 \in Revs
        /\ tx'.plan.schema = manifest.plan.schema /\ ~tx'.migrates
    BY <1>6, HotDrafts
  <2>3. backup[tx'.rev] = None
    <3>1. ~(lastRev + 1 <= lastRev)
      BY Numbers
    <3> QED BY <2>2, <3>1 DEF Revisions
  <2>4. db = manifest.plan.schema
    BY <2>1 DEF Databases, Migrating
  <2> QED BY <2>1, <2>2, <2>3, <2>4 DEF Databases, Switching, Recovery
<1>7. CASE Merge
  <2>1. /\ UNCHANGED <<manifest, db, backup, phase, layers>> /\ pc' = "apply" /\ phase = "boot" /\ pc = "merge"
    BY <1>7 DEF Merge, At
  <2>2. CASE tx' = tx
    <3>1. ASSUME Migrating PROVE Migrating'
      <4>1. ~Asked /\ tx # None /\ tx.state = "building"
        BY <2>1, <3>1 DEF Migrating
      <4>2. ~StateIs({"pending_restart"})
        BY <4>1, PendingIs DEF StateIs, Verified
      <4>3. UNCHANGED src /\ round' \in {[NoRound EXCEPT !.ready = TRUE, !.source = b] : b \in BOOLEAN}
        BY <1>7, <4>1, <4>2, Zenon DEF Merge, Asked
      <4>4. round'.ready
        BY <4>3 DEF NoRound
      <4> QED BY <2>1, <2>2, <3>1, <4>3, <4>4 DEF Migrating, StagedBuild, Asked
    <3> QED BY <2>1, <2>2, <3>1 DEF Databases, New, Switching, Recovery
  <2>3. CASE tx' # tx
    <3>1. /\ tx = None \/ StateIs({"pending_restart"})
          /\ tx' \in Tx /\ tx'.state = "pending_restart"
          /\ tx = None => tx'.rev = lastRev + 1 /\ lastRev + 1 \in Revs
          /\ tx # None => tx'.rev = tx.rev
      BY <1>7, <2>3, MergeDrafts
    <3>2. tx # None => tx.state = "pending_restart" /\ Fresh(tx)
      BY <3>1, PendingIs DEF StateIs, Drafts
    <3>3. backup[tx'.rev] = None
      <4>1. CASE tx = None
        <5>1. ~(lastRev + 1 <= lastRev)
          BY Numbers
        <5> QED BY <3>1, <4>1, <5>1 DEF Revisions
      <4>2. CASE tx # None
        BY <3>1, <3>2, <4>2, Numbers DEF Fresh
      <4> QED BY <4>1, <4>2
    <3>4. db = manifest.plan.schema
      BY <2>1, <3>2 DEF Databases, Recovery, Migrating
    <3>5. ~manifest.trial
      BY <3>2 DEF Transaction, New, Fresh
    <3> QED BY <2>1, <3>1, <3>3, <3>4, <3>5 DEF Databases, New, Switching, Recovery
  <2> QED BY <2>2, <2>3
<1>8. CASE Apply
  <2>1. /\ UNCHANGED <<manifest, db, backup, layers, src, phase>> /\ phase = "boot" /\ pc = "apply"
        /\ pc' \in {"source", "confirm", "build"}
    BY <1>8 DEF Apply, At
  <2>2. CASE tx' = tx /\ pc' \in {"source", "confirm"}
    <3>1. ~Migrating
      <4>1. SUFFICES ASSUME Migrating PROVE FALSE
        OBVIOUS
      <4>2. round.ready /\ tx # None /\ tx.state = "building"
        BY <2>1, <4>1 DEF Migrating
      <4>3. Pending # None /\ Pending.state = "building"
        BY <4>2, PendingIs DEF Verified
      <4> QED BY <1>8, <2>2, <4>2, <4>3 DEF Apply, StateIs
    <3> QED BY <2>1, <2>2, <3>1, DatabasesFrame DEF Switching
  <2>3. CASE pc' = "build"
    <3>1. /\ Same /\ tx'.state = "building" /\ tx'.gen = tx.gen
          /\ StateIs({"pending_restart", "building"})
      BY <1>8, <2>3, ApplyWrites
    <3>2. tx # None /\ tx' # None /\ tx.state \in {"pending_restart", "building"}
      BY <3>1, PendingIs, Members DEF StateIs, Same
    <3>3. tx.state = "pending_restart" => ~New
      BY <3>2 DEF Transaction, New
    <3>4. Migrating => Migrating'
      BY <2>1, <2>3, <3>1, <3>2 DEF Migrating, StagedBuild, Asked, Same
    <3> QED BY <2>1, <2>3, <3>1, <3>2, <3>3, <3>4 DEF Databases, New, Switching, Recovery, Same
  <2> QED BY <1>8, <2>1, <2>2, <2>3, ApplyWrites
<1>9. CASE Build
  <2>1. /\ UNCHANGED <<manifest, tx, db, backup, src, phase>> /\ phase = "boot" /\ pc = "build"
        /\ tx # None /\ tx.state = "building" /\ pc' = (IF tx.migrates THEN "migrate" ELSE "save")
    BY <1>9 DEF Build, At, Places, Procedure, Working
  <2>2. Migrating => Migrating'
    <3>1. StagedBuild(tx) => layers' = layers
      BY <1>9 DEF Build
    <3> QED BY <2>1, <3>1 DEF Migrating, StagedBuild, Asked
  <2>3. ~tx.migrates => db = tx.plan.schema
    BY <2>1 DEF Databases, Recovery, Migrating, Transaction, New
  <2> QED BY <2>1, <2>2, <2>3 DEF Databases, New, Switching, Recovery
<1>10. CASE ApplyFails
  <2>1. /\ UNCHANGED <<manifest, db, backup>> /\ pc' = "source"
        /\ pc \in Working \cup Switching /\ caller = "apply"
    BY <1>10 DEF ApplyFails, Working, Switching
  <2>2. /\ Same /\ tx' # None /\ tx'.state = "failed" /\ tx.state = "building"
        /\ db = manifest.plan.schema
    BY <1>10, <2>1, Writes, Members DEF Same, Procedure
  <2> QED BY <2>1, <2>2 DEF Databases, New, Switching, Recovery, Same
<1>11. CASE MigrateBackup
  <2>1. /\ UNCHANGED <<manifest, layers, phase, build>> /\ phase = "boot" /\ tx # None /\ tx.state = "building"
        /\ tx.migrates /\ pc = "migrate" /\ pc' = "upgrade" /\ build # 0 /\ layers[build] = tx.plan
        /\ backup' = IF backup[tx.rev] # None THEN backup ELSE [backup EXCEPT ![tx.rev] = db]
    BY <1>11 DEF MigrateBackup, At, Places, Procedure, Working, Databases, LayersKept
  <2>2. Same /\ tx'.state = "building" /\ tx'.gen = build /\ tx' # None /\ tx.rev \in Revs
    BY <1>11, <2>1, Writes, Members, Numbers DEF Same
  <2>3. CASE backup[tx.rev] # None
    <3>1. backup' = backup
      BY <2>1, <2>3
    <3>2. Migrating'
      BY <2>1, <2>2, <2>3, <3>1 DEF Migrating, StagedBuild, Same
    <3> QED BY <2>1, <2>2, <2>3, <3>1, <3>2 DEF Databases, New, Switching, Recovery, Same
  <2>4. CASE backup[tx.rev] = None
    <3>1. ~New /\ manifest = tx.base
      BY <2>1, <2>4 DEF Databases, Transaction
    <3>2. db = tx.base.plan.schema
      BY <2>1, <2>4, <3>1 DEF Databases, Recovery, Migrating
    <3>3. db # None
      BY <2>1, <3>2, Numbers, Members
    <3>4. backup'[tx.rev] = db
      BY <2>1, <2>2, <2>4 DEF TypeOK, Backups
    <3>5. Migrating'
      BY <2>1, <2>2, <3>3, <3>4 DEF Migrating, StagedBuild, Same
    <3> QED BY <2>1, <2>2, <3>2, <3>3, <3>4, <3>5 DEF Databases, New, Switching, Recovery, Same
  <2> QED BY <2>3, <2>4
<1>12. CASE MigrateOk
  <2>1. /\ UNCHANGED <<manifest, tx, layers, backup, phase, build>> /\ phase = "boot" /\ tx # None
        /\ tx.state = "building" /\ tx.migrates /\ pc = "upgrade" /\ pc' = "save" /\ build # 0
        /\ layers[build] = tx.plan /\ db' = tx.plan.schema /\ backup[tx.rev] # None /\ tx.gen = build
    BY <1>12 DEF MigrateOk, At, Places, Procedure, Working, Databases, LayersKept
  <2>2. Migrating'
    BY <2>1 DEF Migrating, StagedBuild, Switching
  <2> QED BY <2>1, <2>2 DEF Databases, New, Switching
<1>13. CASE MigrateFails
  <2>1. /\ UNCHANGED <<manifest, backup>> /\ tx # None /\ manifest.active = tx.base.active
        /\ pc' = "source" /\ backup[tx.rev] # None
    BY <1>13 DEF MigrateFails, At, NoWindow, Places, Working, Databases
  <2>2. /\ Same /\ tx' # None
        /\ (tx'.state = "failed" /\ db' = backup[tx.rev]) \/ tx'.state = "recovery_required"
    BY <1>13, Writes, Members DEF Same
  <2>3. ~New /\ manifest = tx.base
    BY <2>1 DEF Transaction, New
  <2>4. backup[tx.rev] = tx.base.plan.schema
    BY <2>1 DEF Databases
  <2> QED BY <2>1, <2>2, <2>3, <2>4 DEF Databases, New, Switching, Recovery, Same
<1>14. CASE SaveRollback
  <2>1. /\ UNCHANGED <<manifest, tx, layers, backup, db, phase>>
        /\ pc \in Switching /\ pc' \in Switching /\ build' = build
    BY <1>14 DEF SaveRollback, Switching
  <2>2. Migrating => Migrating'
    BY <2>1 DEF Migrating, StagedBuild, Switching
  <2> QED BY <2>1, <2>2 DEF Databases, New, Switching, Recovery
<1>15. CASE MarkSaved
  <2>1. /\ UNCHANGED <<manifest, layers, backup, db, phase>>
        /\ pc \in Switching /\ pc' \in Switching /\ build' = build
    BY <1>15 DEF MarkSaved, Switching
  <2>2. Same /\ tx' # None /\ tx'.state = tx.state /\ tx'.gen = tx.gen
    BY <1>15, Writes, Members DEF Same
  <2>3. Migrating => Migrating'
    BY <2>1, <2>2 DEF Migrating, StagedBuild, Switching, Same
  <2> QED BY <2>1, <2>2, <2>3 DEF Databases, New, Switching, Recovery, Same
<1>16. CASE Switch
  <2>1. /\ UNCHANGED <<tx, backup, db>> /\ manifest'.plan = tx.plan /\ pc' \in {"load", "pending"}
        /\ pc \in Switching
    BY <1>16 DEF Switch, Switching
  <2> QED BY <2>1 DEF Databases, New, Switching, Recovery
<1>17. CASE MarkPending
  <2>1. /\ UNCHANGED <<manifest, backup, db>> /\ pc = "pending" /\ pc' = "source" /\ tx.state = "building"
    BY <1>17 DEF MarkPending, At, Procedure, Working
  <2>2. Same /\ tx' # None /\ tx'.state = "verification_pending"
    BY <1>17, Writes, Members DEF Same
  <2>3. db = manifest.plan.schema
    BY <2>1 DEF Databases, Recovery, Migrating, Switching
  <2> QED BY <2>1, <2>2, <2>3 DEF Databases, New, Switching, Recovery, Same
<1>18. CASE Decide
  <2>1. UNCHANGED <<manifest, db, backup>> /\ ~Migrating /\ pc # "return"
    BY <1>18 DEF Decide, At, Migrating, Switching
  <2>2. caller \in {"apply", "verify", "hot"}
    BY DEF TypeOK
  <2>3. pc' \notin {"return", "migrate", "upgrade", "clear", "fail"} \cup Switching
    BY <1>18, <2>2 DEF Decide, Switching
  <2>4. CASE tx' = None /\ Settled
    <3>1. ~Recovery
      BY <1>18, <2>4, SettledIs DEF Decide, At, Transaction, Recovery, New, Switching
    <3> QED BY <2>1, <2>3, <2>4, <3>1, DatabasesClosed
  <2>5. CASE tx' = tx
    BY <2>1, <2>3, <2>5, DatabasesFrame
  <2> QED BY <1>18, <2>4, <2>5 DEF Decide
<1>19. CASE RestoreDatabases
  <2>1. /\ UNCHANGED <<manifest, tx, backup, phase>> /\ pc = "check" /\ pc' = "return" /\ tx # None
        /\ manifest.trial /\ New /\ ~tx.rolledBack /\ ~Recovery
        /\ db' = IF backup[tx.rev] = None THEN db ELSE backup[tx.rev]
    BY <1>19 DEF RestoreDatabases, Procedure, Transaction, Recovery, New
  <2>2. db = tx.plan.schema /\ db = manifest.plan.schema
    BY <2>1 DEF Databases, Migrating, Switching, New
  <2>3. db' = tx.base.plan.schema
    BY <2>1, <2>2 DEF Databases, Transaction
  <2>4. phase # "boot" => backup[tx.rev] = None
    BY <2>1, TypeOK
       DEF Places, Procedure, Returning, Working, Switching, Committing, Databases, TypeOK
  <2> QED BY <2>1, <2>2, <2>3, <2>4 DEF Databases, New, Switching, Recovery
<1>20. CASE ReturnManifest
  <2>1. /\ manifest.trial /\ New /\ manifest' = tx.base /\ pc = "return"
        /\ UNCHANGED <<tx, backup, db>> /\ pc' = "fail" /\ ~Recovery
    BY <1>20 DEF ReturnManifest, Procedure, Transaction, New, Closed, Recovery
  <2>2. tx.plan # tx.base.plan
    BY <2>1, Numbers DEF Revisions, New
  <2> QED BY <2>1, <2>2 DEF Databases, New, Switching, Recovery
<1>21. CASE FailTransaction
  <2>1. /\ UNCHANGED <<manifest, backup, db>> /\ pc = "fail" /\ pc' = "prune" /\ ~New
    BY <1>21 DEF FailTransaction, Procedure
  <2>2. Same /\ tx' # None /\ tx'.state = "failed"
    BY <1>21, Writes, Members DEF Same
  <2>3. db = manifest.plan.schema
    BY <2>1 DEF Databases, Migrating, Switching
  <2> QED BY <2>1, <2>2, <2>3 DEF Databases, New, Switching, Recovery, Same
<1>22. CASE Prune
  <2>1. /\ UNCHANGED <<manifest, tx, db>> /\ pc = "prune" /\ tx # None /\ ~New /\ ~Recovery
        /\ backup' = backup \/ backup' = [r \in Revs |-> None]
    BY <1>22 DEF Prune, Procedure, Transaction, Places, Returning, Recovery
  <2>2. backup'[tx.rev] # None => backup[tx.rev] # None /\ backup'[tx.rev] = backup[tx.rev]
    BY <2>1, Numbers
  <2>3. caller \in {"apply", "verify", "hot"}
    BY DEF TypeOK
  <2>4. pc' \notin {"return", "migrate", "upgrade", "clear", "fail"} \cup Switching
    BY <1>22, <2>3 DEF Prune, AfterRollback, Switching
  <2>5. db = manifest.plan.schema
    BY <2>1 DEF Databases, Migrating, Switching
  <2> QED BY <2>1, <2>2, <2>4, <2>5 DEF Databases, New
<1>23. CASE UndoSource
  <2>1. UNCHANGED <<manifest, db, backup>> /\ ~Migrating /\ pc # "return"
    BY <1>23 DEF UndoSource, At, Migrating, Switching
  <2>2. caller \in {"apply", "verify", "hot"}
    BY DEF TypeOK
  <2>3. pc' \notin {"return", "migrate", "upgrade", "clear", "fail"} \cup Switching
    BY <1>23, <2>2 DEF UndoSource, Switching
  <2>4. CASE tx' = None /\ Settled
    <3>1. ~Recovery
      BY <1>23, <2>4, SettledIs DEF UndoSource, At, Transaction, Recovery, New, Switching
    <3> QED BY <2>1, <2>3, <2>4, <3>1, DatabasesClosed
  <2>5. CASE tx' = tx
    BY <2>1, <2>3, <2>5, DatabasesFrame
  <2> QED BY <1>23, <2>4, <2>5 DEF UndoSource
<1>24. CASE Confirm
  <2>1. /\ UNCHANGED <<backup, db>> /\ pc = "confirm" /\ pc' = "commit" /\ New /\ ~Recovery
    BY <1>24 DEF Confirm, Procedure, Committing, Transaction, Recovery, New
  <2>2. /\ Same /\ tx' # None /\ tx'.state \in {tx.state, "cleanup_pending"}
        /\ manifest'.plan = manifest.plan /\ ~manifest'.trial
    BY <1>24, Writes, ConfirmEnds, Members DEF Same
  <2>3. db = manifest.plan.schema
    BY <2>1 DEF Databases, Migrating, Switching
  <2> QED BY <2>1, <2>2, <2>3 DEF Databases, New, Switching, Recovery, Same
<1>25. CASE Commit
  <2>1. /\ UNCHANGED <<manifest, backup, db>> /\ pc = "commit" /\ pc' = "sweep" /\ New /\ ~Recovery /\ ~manifest.trial
    BY <1>25 DEF Commit, Procedure, Committing, Transaction, Recovery, New
  <2>2. Same /\ tx' # None /\ tx'.state = "committed"
    BY <1>25, Writes, Members DEF Same
  <2>3. db = manifest.plan.schema
    BY <2>1 DEF Databases, Migrating, Switching
  <2> QED BY <2>1, <2>2, <2>3 DEF Databases, New, Switching, Recovery, Same
<1>26. CASE Sweep
  <2>1. /\ UNCHANGED <<manifest, db>> /\ backup' = [r \in Revs |-> None] /\ pc = "sweep" /\ pc' = "archive"
        /\ ~manifest.trial /\ Closed /\ tx # None
    BY <1>26 DEF Sweep, Procedure, Places, Committing
  <2>2. Same /\ tx' # None /\ tx'.state \in {tx.state, "cleanup_pending"} /\ tx.rev \in Revs
    BY <1>26, <2>1, SweepWrites, Members, Numbers DEF Same
  <2>3. db = manifest.plan.schema
    BY <2>1 DEF Databases, Migrating, Switching, Recovery, Closed
  <2> QED BY <2>1, <2>2, <2>3 DEF Databases, New, Switching, Recovery, Same, Closed
<1>27. CASE ArchiveCommitted
  <2>1. UNCHANGED <<manifest, db, backup>> /\ ~Migrating /\ pc # "return"
    BY <1>27 DEF ArchiveCommitted, At, Migrating, Switching
  <2>2. caller \in {"apply", "verify", "hot"}
    BY DEF TypeOK
  <2>3. pc' \notin {"return", "migrate", "upgrade", "clear", "fail"} \cup Switching
    BY <1>27, <2>2 DEF ArchiveCommitted, Switching
  <2>4. CASE tx' = None /\ Settled
    <3>1. ~Recovery
      BY <1>27, <2>4, SettledIs DEF ArchiveCommitted, At, Transaction, Recovery, New, Switching
    <3> QED BY <2>1, <2>3, <2>4, <3>1, DatabasesClosed
  <2>5. CASE tx' = tx
    BY <2>1, <2>3, <2>5, DatabasesFrame
  <2> QED BY <1>27, <2>4, <2>5 DEF ArchiveCommitted
<1>28. CASE Crash
  <2>1. /\ UNCHANGED <<manifest, tx, db, backup, layers, src>> /\ pc' = "merge" /\ phase' = "boot"
        /\ Window = "none"
    BY <1>28 DEF Crash, NoWindow, files
  <2>2. pc \notin {"return", "fail"}
    BY <2>1 DEF Window
  <2>3. Migrating => Migrating'
    <3>1. SUFFICES ASSUME Migrating PROVE ~Asked
      BY <2>1 DEF Migrating, StagedBuild, Asked
    <3>2. CASE pc \in {"merge", "apply", "build", "migrate"}
      BY <3>1, <3>2 DEF Migrating
    <3>3. CASE pc \in {"upgrade"} \cup Switching
      <4>1. caller = "apply" /\ tx.migrates
        BY <3>1, <3>3 DEF Migrating, Places, Working, Switching, Committing, Returning
      <4> QED BY <2>1, <3>3, <4>1 DEF Window, Asked, Switching
    <3> QED BY <3>1, <3>2, <3>3 DEF Migrating
  <2> QED BY <2>1, <2>2, <2>3 DEF Databases, New, Switching, Recovery
<1>29. CASE UNCHANGED vars
  BY <1>29 DEF vars, files, control, Databases, New, Recovery, Migrating, StagedBuild, Asked
<1> QED BY <1>1, <1>2, <1>3, <1>4, <1>5, <1>6, <1>7, <1>8, <1>9, <1>10,
           <1>11, <1>12, <1>13, <1>14, <1>15, <1>16, <1>17, <1>18, <1>19,
           <1>20, <1>21, <1>22, <1>23, <1>24, <1>25, <1>26, <1>27, <1>28,
           <1>29
        DEF Next, Launcher, Procedures, Store

\* A step beside the launcher's round does not disturb the source operation,
LEMMA SourcesQuiet ==
    ASSUME Sources, src' = src, phase' # "boot", src.state # "applying" \/ tx' = tx,
           phase = phase' \/ src.state # "applying",
           pc' \notin {"source_switch", "apply", "source", "decide"}
    PROVE  Sources'
  BY DEF Sources, Places, Working, Switching, Committing, Returning, Recovery

\* nor does one that builds, switches or commits a layer.
LEMMA SourcesOn ==
    ASSUME Sources, UNCHANGED <<src, phase, round>>,
           \/ pc \in Working \cup Switching /\ pc' \in Working \cup Switching \cup {"load"}
           \/ pc \in Committing /\ pc' \in Committing,
           tx # None, ~Recovery, tx' # None, tx'.plan = tx.plan,
           tx'.state \in {tx.state, "committed", "cleanup_pending"}, tx.state # "pending_restart"
    PROVE  Sources'
  BY DEF Sources, Places, Working, Switching, Committing, Returning, Asked, Recovery

\* Every step keeps the source operation behind the layer it needs.
LEMMA SourcesStep ==
    ASSUME TypeOK, Places, Drafts, Transaction, Procedure, Databases, Sources, Round, [Next]_vars
    PROVE  Sources'
<1>1. CASE \/ HotLoad \/ VerifyPasses
  <2>1. UNCHANGED <<src, tx, phase>> /\ phase # "boot" /\ pc' \notin {"source_switch", "apply", "source", "decide"}
    BY <1>1 DEF HotLoad, VerifyPasses, files, Places, Working, Switching, Committing, Returning
  <2> QED BY <2>1, SourcesQuiet
<1>2. CASE ArchiveFirst
  <2>1. /\ UNCHANGED <<src, phase>> /\ phase = "run" /\ ~Recovery /\ pc' \in {"idle", "stage", "clear", "save"}
    BY <1>2 DEF ArchiveFirst, StoreFree, control
  <2>2. src.state # "applying"
    BY <2>1 DEF Sources
  <2> QED BY <2>1, <2>2, SourcesQuiet
<1>3. ASSUME NEW migrates \in BOOLEAN, NEW deferred \in BOOLEAN, BeginStage(migrates, deferred)
      PROVE  Sources'
  <2>1. /\ UNCHANGED <<src, phase>> /\ phase = "run" /\ ~Recovery /\ pc' \in {"idle", "stage", "clear", "save"}
    BY <1>3 DEF BeginStage, StoreFree, control
  <2>2. src.state # "applying"
    BY <2>1 DEF Sources
  <2> QED BY <2>1, <2>2, SourcesQuiet
<1>4. CASE StageWrite
  <2>1. /\ UNCHANGED <<src, phase>> /\ phase = "run" /\ ~Recovery /\ pc' \in {"discard", "idle"}
    BY <1>4, TypeOK
       DEF StageWrite, Places, Working, Switching, Committing, Returning, Drafts, Databases,
           Recovery, TypeOK
  <2>2. src.state # "applying"
    BY <2>1 DEF Sources
  <2> QED BY <2>1, <2>2, SourcesQuiet
<1>5. CASE StageFails
  <2>1. /\ UNCHANGED <<src, phase>> /\ phase = "run" /\ ~Recovery /\ pc' \in {"discard", "idle"}
    BY <1>5, TypeOK
       DEF StageFails, Places, Working, Switching, Committing, Returning, Drafts, Databases,
           Recovery, TypeOK
  <2>2. src.state # "applying"
    BY <2>1 DEF Sources
  <2> QED BY <2>1, <2>2, SourcesQuiet
<1>6. CASE StageDiscard
  <2>1. /\ UNCHANGED <<src, phase>> /\ phase = "run" /\ ~Recovery /\ pc' \in {"discard", "idle"}
    BY <1>6, TypeOK
       DEF StageDiscard, Places, Working, Switching, Committing, Returning, Drafts,
           Databases, Recovery, TypeOK
  <2>2. src.state # "applying"
    BY <2>1 DEF Sources
  <2> QED BY <2>1, <2>2, SourcesQuiet
<1>7. CASE BeginClear
  <2>1. /\ UNCHANGED <<src, phase>> /\ phase = "run" /\ ~Recovery /\ pc' \in {"idle", "stage", "clear", "save"}
    BY <1>7 DEF BeginClear, StoreFree, control
  <2>2. src.state # "applying"
    BY <2>1 DEF Sources
  <2> QED BY <2>1, <2>2, SourcesQuiet
<1>8. CASE ClearWrite
  <2>1. /\ UNCHANGED <<src, phase>> /\ phase = "run" /\ ~Recovery /\ pc' \in {"discard", "idle"}
    BY <1>8, TypeOK
       DEF ClearWrite, Places, Working, Switching, Committing, Returning, Drafts, Databases,
           Recovery, TypeOK
  <2>2. src.state # "applying"
    BY <2>1 DEF Sources
  <2> QED BY <2>1, <2>2, SourcesQuiet
<1>9. CASE BeginHot
  <2>1. /\ UNCHANGED <<src, phase>> /\ phase = "run" /\ ~Recovery /\ pc' \in {"idle", "stage", "clear", "save"}
    BY <1>9 DEF BeginHot, StoreFree, control
  <2>2. src.state # "applying"
    BY <2>1 DEF Sources
  <2> QED BY <2>1, <2>2, SourcesQuiet
<1>10. CASE CancelSource
  <2>1. /\ UNCHANGED <<tx, phase>> /\ phase = "run" /\ pc' = "idle" /\ src.live = "old" /\ src \in Source
        /\ src'.state \in {"pending_restart", "none"} /\ src'.live = src.live
    BY <1>10 DEF CancelSource, StoreFree, control, Sources, TypeOK, Source
  <2> QED BY <2>1, Members DEF Sources, Places, Working, Switching, Committing, Returning
<1>11. CASE Restart
  <2>1. /\ UNCHANGED <<tx, src>> /\ phase = "run" /\ pc' = "merge"
    BY <1>11 DEF Restart, files
  <2> QED BY <2>1 DEF Sources, Places, Working, Switching, Committing, Returning, Recovery
<1>12. ASSUME NEW needs \in BOOLEAN, StageSource(needs)
      PROVE  Sources'
  <2>1. /\ UNCHANGED <<tx, phase>> /\ phase = "run" /\ pc' = "idle" /\ src.live = "old" /\ src \in Source
        /\ src'.state \in {"pending_restart", "none"} /\ src'.live = src.live
    BY <1>12 DEF StageSource, StoreFree, control, Sources, TypeOK, Source
  <2> QED BY <2>1, Members DEF Sources, Places, Working, Switching, Committing, Returning
<1>13. CASE Merge
  <2>1. pc' = "apply" /\ phase' = "boot" /\ phase = "boot" /\ pc = "merge"
    BY <1>13 DEF Merge, At
  <2>2. CASE /\ Asked /\ src' = src /\ round'.ready /\ tx' # None
             /\ tx'.state = "pending_restart" /\ tx'.plan.src
    BY <2>1, <2>2 DEF Sources, Places, Working, Switching, Committing, Returning, Asked
  <2>3. CASE Asked /\ src'.state = "failed" /\ src'.live = src.live /\ src'.needs = src.needs
    BY <2>1, <2>3 DEF Sources, Places, Working, Switching, Committing, Returning, Asked
  <2>4. CASE tx' = tx /\ src' = src /\ ~Asked /\ round'.ready
    BY <2>1, <2>4
       DEF Sources, Places, Working, Switching, Committing, Returning, Asked, Recovery
  <2> QED BY <1>13, <2>2, <2>3, <2>4, MergeDrafts, Members
<1>14. CASE Apply
  <2>1. /\ UNCHANGED <<src, phase, manifest>> /\ phase = "boot" /\ pc = "apply"
        /\ pc' \in {"source", "confirm", "build"} /\ round \in Rounds
    BY <1>14 DEF Apply, At, TypeOK
  <2>2. (round'.fresh <=> StateIs({"pending_restart"})) /\ round'.ready = round.ready
    <3> DEFINE b == StateIs({"pending_restart"})
    <3>1. round' = [round EXCEPT !.fresh = b]
      BY <1>14 DEF Apply
    <3> HIDE DEF b
    <3>2. round'.fresh = b /\ round'.ready = round.ready
      BY <2>1, <3>1 DEF Rounds
    <3> QED BY <3>2 DEF b
  <2>3. StateIs({"pending_restart"}) <=> tx # None /\ tx.state = "pending_restart"
    BY PendingIs DEF StateIs, Verified, Pending
  <2>4. CASE pc' \in {"source", "confirm"} /\ tx' = tx
    <3>1. ~(round.ready /\ tx # None /\ tx.state = "pending_restart")
      BY <1>14, <2>3, <2>4, PendingIs DEF Apply, StateIs, Verified, Pending
    <3> QED BY <2>1, <2>2, <2>3, <2>4, <3>1
               DEF Sources, Places, Working, Switching, Committing, Returning, Asked,
                   Recovery
  <2>5. CASE pc' = "build"
    <3>1. Same /\ tx'.state = "building" /\ round.ready
      BY <1>14, <2>5, ApplyWrites
    <3>2. tx # None /\ tx' # None /\ ~Recovery
      BY <1>14, <2>5, <3>1, ApplyWrites, PendingIs, Members DEF Same, StateIs, Recovery
    <3> QED BY <2>1, <2>2, <2>3, <2>5, <3>1, <3>2
               DEF Sources, Places, Working, Switching, Committing, Returning, Asked,
                   Recovery, Same
  <2> QED BY <1>14, <2>4, <2>5, ApplyWrites
<1>15. CASE Build
  <2>1. /\ UNCHANGED <<src, phase, round>> /\ tx # None /\ tx.state # "pending_restart" /\ ~Recovery
        /\ pc \in Working \cup Switching /\ pc' \in Working \cup Switching \cup {"load"}
    BY <1>15
       DEF Build, At, Procedure, Places, Working, Switching, Committing, Returning, Recovery
  <2>2. tx' # None /\ tx'.plan = tx.plan /\ tx'.state = tx.state
    BY <1>15, <2>1, Members DEF Build, Same
  <2> QED BY <2>1, <2>2, SourcesOn
<1>16. CASE ApplyFails
  <2>1. /\ UNCHANGED <<src, phase, round, manifest>> /\ phase = "boot" /\ pc' = "source"
        /\ pc \in Working \cup Switching /\ ~Recovery
    BY <1>16 DEF ApplyFails, Procedure, Working, Switching, Recovery
  <2>2. Same /\ tx' # None /\ tx'.state = "failed"
    BY <1>16, Writes, Members DEF Same
  <2> QED BY <2>1, <2>2
             DEF Sources, Places, Working, Switching, Committing, Returning, Asked, Recovery
<1>17. CASE MigrateBackup
  <2>1. /\ UNCHANGED <<src, phase, round>> /\ tx # None /\ tx.state # "pending_restart" /\ ~Recovery
        /\ pc \in Working \cup Switching /\ pc' \in Working \cup Switching \cup {"load"}
    BY <1>17
       DEF MigrateBackup, At, Procedure, Places, Working, Switching, Committing, Returning,
           Recovery
  <2>2. tx' # None /\ tx'.plan = tx.plan /\ tx'.state = tx.state
    BY <1>17, <2>1, Writes, Members DEF MigrateBackup, Same
  <2> QED BY <2>1, <2>2, SourcesOn
<1>18. CASE MigrateOk
  <2>1. /\ UNCHANGED <<src, phase, round>> /\ tx # None /\ tx.state # "pending_restart" /\ ~Recovery
        /\ pc \in Working \cup Switching /\ pc' \in Working \cup Switching \cup {"load"}
    BY <1>18
       DEF MigrateOk, At, Procedure, Places, Working, Switching, Committing, Returning,
           Recovery
  <2>2. tx' # None /\ tx'.plan = tx.plan /\ tx'.state = tx.state
    BY <1>18, <2>1, Members DEF MigrateOk, Same
  <2> QED BY <2>1, <2>2, SourcesOn
<1>19. CASE MigrateFails
  <2>1. /\ UNCHANGED <<src, phase, round, manifest>> /\ phase = "boot" /\ pc = "upgrade" /\ pc' = "source"
        /\ ~Recovery
    BY <1>19 DEF MigrateFails, At, Procedure, Working, Recovery
  <2>2. Same /\ tx' # None /\ tx'.state \in {"failed", "recovery_required"}
    BY <1>19, Writes, Members DEF Same
  <2> QED BY <2>1, <2>2
             DEF Sources, Places, Working, Switching, Committing, Returning, Asked, Recovery
<1>20. CASE SaveRollback
  <2>1. /\ UNCHANGED <<src, phase, round>> /\ tx # None /\ tx.state # "pending_restart" /\ ~Recovery
        /\ pc \in Working \cup Switching /\ pc' \in Working \cup Switching \cup {"load"}
    BY <1>20
       DEF SaveRollback, At, Procedure, Places, Working, Switching, Committing, Returning,
           Recovery
  <2>2. tx' # None /\ tx'.plan = tx.plan /\ tx'.state = tx.state
    BY <1>20, <2>1, Members DEF SaveRollback, Same
  <2> QED BY <2>1, <2>2, SourcesOn
<1>21. CASE MarkSaved
  <2>1. /\ UNCHANGED <<src, phase, round>> /\ tx # None /\ tx.state # "pending_restart" /\ ~Recovery
        /\ pc \in Working \cup Switching /\ pc' \in Working \cup Switching \cup {"load"}
    BY <1>21
       DEF MarkSaved, At, Procedure, Places, Working, Switching, Committing, Returning,
           Recovery
  <2>2. tx' # None /\ tx'.plan = tx.plan /\ tx'.state = tx.state
    BY <1>21, <2>1, Writes, Members DEF MarkSaved, Same
  <2> QED BY <2>1, <2>2, SourcesOn
<1>22. CASE Switch
  <2>1. /\ UNCHANGED <<src, phase, round>> /\ tx # None /\ tx.state # "pending_restart" /\ ~Recovery
        /\ pc \in Working \cup Switching /\ pc' \in Working \cup Switching \cup {"load"}
    BY <1>22
       DEF Switch, At, Procedure, Places, Working, Switching, Committing, Returning,
           Recovery
  <2>2. tx' # None /\ tx'.plan = tx.plan /\ tx'.state = tx.state
    BY <1>22, <2>1, Members DEF Switch, Same
  <2> QED BY <2>1, <2>2, SourcesOn
<1>23. CASE MarkPending
  <2>1. /\ UNCHANGED <<src, phase, manifest>> /\ phase = "boot" /\ pc = "pending" /\ pc' = "source"
        /\ manifest.plan = tx.plan /\ ~Recovery /\ tx # None
    BY <1>23 DEF MarkPending, At, Procedure, Transaction, New, Working, Recovery
  <2>2. Same /\ tx' # None /\ tx'.state = "verification_pending"
    BY <1>23, Writes, Members DEF Same
  <2>3. round'.ready = round.ready /\ round'.fresh = round.fresh
    BY <1>23 DEF MarkPending, TypeOK, Rounds
  <2> QED BY <2>1, <2>2, <2>3
             DEF Sources, Places, Working, Switching, Committing, Returning, Asked,
                 Recovery, New, Same
<1>24. CASE ApplySource
  <2>1. /\ UNCHANGED <<tx, phase, round, manifest>> /\ phase = "boot" /\ pc = "source" /\ src \in Source
        /\ pc' \in {"decide", "source_switch"}
    BY <1>24 DEF ApplySource, At, TypeOK
  <2>2. DepsFailed <=> round.fresh /\ tx # None /\ tx.state \in {"failed", "recovery_required"}
    BY PendingIs DEF DepsFailed, StateIs, Verified, Pending
  <2>3. CASE pc' = "decide" /\ src' = src
    <3>1. /\ ~SourceRuns \/ src.state \notin {"pending_restart", "applying"}
          /\ ~(DepsFailed /\ src.state = "pending_restart")
      BY <1>24, <2>1, <2>3 DEF ApplySource, FailSource, Source
    <3> QED BY <2>1, <2>2, <2>3, <3>1
               DEF Sources, SourceRuns, Places, Working, Switching, Committing, Returning,
                   Asked, Recovery, New
  <2>4. CASE src'.state = "failed" /\ src'.live = "old" /\ pc' = "decide"
    BY <2>1, <2>4, Members DEF Sources, Places, Working, Switching, Committing, Returning, Asked
  <2>5. CASE /\ SourceRuns /\ src.state = "pending_restart" /\ pc' = "source_switch"
             /\ src' = [src EXCEPT !.state = "applying", !.live = Torn]
    <3>1. src'.state = "applying" /\ src'.live = Torn /\ src'.needs = src.needs
      BY <2>1, <2>5 DEF Source
    <3> QED BY <2>1, <2>2, <2>5, <3>1
               DEF Sources, SourceRuns, Places, Working, Switching, Committing, Returning,
                   Asked, Recovery, New
  <2>6. CASE src' = [src EXCEPT !.state = "failed"] /\ src.state = "pending_restart" /\ pc' = "decide"
    BY <2>1, <2>4, <2>6 DEF Source, Sources
  <2>7. CASE src' = [src EXCEPT !.state = "failed", !.live = "old"] /\ pc' = "decide"
    BY <2>1, <2>4, <2>7 DEF Source
  <2> QED BY <1>24, <2>3, <2>5, <2>6, <2>7 DEF ApplySource, FailSource
<1>25. CASE SwitchSource
  <2>1. /\ UNCHANGED <<tx, phase, manifest>> /\ src \in Source /\ pc' \in {"decide", "check"}
    BY <1>25 DEF SwitchSource, TypeOK
  <2>2. \/ src'.state = "verification_pending" /\ src'.live = "new"
        \/ src'.state = "failed" /\ src'.live = "old"
    BY <1>25, <2>1 DEF SwitchSource, Source
  <2> QED BY <2>1, <2>2, Members
             DEF Sources, Places, Working, Switching, Committing, Returning, Asked
<1>26. CASE Decide
  <2>1. UNCHANGED src /\ pc = "decide" /\ pc' = "idle" /\ phase' \in {"verify", "run"}
    BY <1>26 DEF Decide, At
  <2>2. CASE tx' = tx
    BY <2>1, <2>2 DEF Sources, Places, Working, Switching, Committing, Returning, Recovery
  <2>3. CASE tx' = None /\ Settled
    <3>1. ~Recovery
      BY <2>1, <2>3, SettledIs DEF Transaction, Recovery, New, Switching
    <3> QED BY <2>1, <2>3, <3>1 DEF Sources, Places, Working, Switching, Committing, Returning
  <2> QED BY <1>26, <2>2, <2>3 DEF Decide
<1>27. CASE VerifyFails
  <2>1. /\ UNCHANGED <<src, tx>> /\ phase = "verify" /\ ~Recovery /\ pc' \in {"check", "source_undo"}
    BY <1>27 DEF VerifyFails, files, Round
  <2> QED BY <2>1 DEF Sources, Places, Working, Switching, Committing, Returning
<1>28. CASE RestoreDatabases
  <2>1. UNCHANGED <<src, phase>> /\ pc \in Returning /\ pc' \in Returning
    BY <1>28 DEF RestoreDatabases, Returning
  <2>2. ~Recovery
    BY <1>28 DEF RestoreDatabases, Procedure, Transaction, Databases, New, Recovery
  <2>3. src.state # "applying"
    BY <2>1, <2>2 DEF Sources
  <2> QED BY <2>1, <2>3 DEF Sources, Places, Working, Switching, Committing, Returning
<1>29. CASE ReturnManifest
  <2>1. UNCHANGED <<src, phase>> /\ pc \in Returning /\ pc' \in Returning
    BY <1>29 DEF ReturnManifest, Returning
  <2>2. ~Recovery
    BY <1>29 DEF ReturnManifest, Procedure, Transaction, Databases, New, Recovery
  <2>3. src.state # "applying"
    BY <2>1, <2>2 DEF Sources
  <2> QED BY <2>1, <2>3 DEF Sources, Places, Working, Switching, Committing, Returning
<1>30. CASE FailTransaction
  <2>1. UNCHANGED <<src, phase>> /\ pc \in Returning /\ pc' \in Returning
    BY <1>30 DEF FailTransaction, Returning
  <2>2. ~Recovery
    BY <1>30 DEF FailTransaction, Procedure, Transaction, Databases, New, Recovery
  <2>3. src.state # "applying"
    BY <2>1, <2>2 DEF Sources
  <2> QED BY <2>1, <2>3 DEF Sources, Places, Working, Switching, Committing, Returning
<1>31. CASE Prune
  <2>1. UNCHANGED <<src, phase>> /\ pc = "prune" /\ ~Recovery /\ caller \in {"apply", "verify", "hot"}
    BY <1>31 DEF Prune, Procedure, Transaction, Recovery, TypeOK
  <2>2. src.state # "applying"
    BY <2>1 DEF Sources, Returning
  <2>3. pc' \in {"decide", "source_undo", "idle"} /\ (pc' = "decide" => caller = "apply")
    BY <1>31, <2>1 DEF Prune, AfterRollback
  <2>4. pc' = "decide" => src.state = "failed"
    BY <2>1, <2>3, TypeOK DEF Round, Places, Working, Switching, Committing, Returning, TypeOK
  <2> QED BY <2>1, <2>2, <2>3, <2>4
             DEF Sources, Places, Working, Switching, Committing, Returning, Asked
<1>32. CASE UndoSource
  <2>1. /\ phase' = phase /\ phase = "boot" /\ pc = "source_undo" /\ pc' = "merge" /\ src \in Source
        /\ \/ src' = src
           \/ src'.state = "failed" /\ src'.live = "old"
    BY <1>32 DEF UndoSource, At, TypeOK, Source
  <2>2. CASE tx' = tx
    BY <2>1, <2>2, Members
       DEF Sources, Places, Working, Switching, Committing, Returning, Recovery
  <2>3. CASE tx' = None /\ Settled
    <3>1. ~Recovery
      BY <2>1, <2>3, SettledIs DEF Transaction, Recovery, New, Switching
    <3> QED BY <2>1, <2>3, <3>1, Members
               DEF Sources, Places, Working, Switching, Committing, Returning
  <2> QED BY <1>32, <2>2, <2>3 DEF UndoSource
<1>33. CASE Confirm
  <2>1. /\ UNCHANGED <<src, phase, round>> /\ tx # None /\ New /\ ~Recovery
        /\ pc \in Committing /\ pc' \in Committing
    BY <1>33
       DEF Confirm, Procedure, Places, Working, Switching, Committing, Returning,
           Transaction, Recovery, New
  <2>2. tx' # None /\ tx'.plan = tx.plan /\ tx'.state \in {tx.state, "committed", "cleanup_pending"}
    BY <1>33, <2>1, Writes, Members DEF Same
  <2>3. tx.state # "pending_restart"
    BY <2>1 DEF Transaction
  <2> QED BY <2>1, <2>2, <2>3, SourcesOn DEF Recovery
<1>34. CASE Commit
  <2>1. /\ UNCHANGED <<src, phase, round>> /\ tx # None /\ New /\ ~Recovery
        /\ pc \in Committing /\ pc' \in Committing
    BY <1>34
       DEF Commit, Procedure, Places, Working, Switching, Committing, Returning,
           Transaction, Recovery, New
  <2>2. tx' # None /\ tx'.plan = tx.plan /\ tx'.state \in {tx.state, "committed", "cleanup_pending"}
    BY <1>34, <2>1, Writes, Members DEF Same
  <2>3. tx.state # "pending_restart"
    BY <2>1 DEF Transaction
  <2> QED BY <2>1, <2>2, <2>3, SourcesOn DEF Recovery
<1>35. CASE Sweep
  <2>1. /\ UNCHANGED <<src, phase, round>> /\ tx # None /\ New /\ ~Recovery
        /\ pc \in Committing /\ pc' \in Committing
    BY <1>35
       DEF Sweep, Procedure, Places, Working, Switching, Committing, Returning, Transaction,
           Recovery, New
  <2>2. tx' # None /\ tx'.plan = tx.plan /\ tx'.state \in {tx.state, "committed", "cleanup_pending"}
    BY <1>35, <2>1, SweepWrites, Members DEF Same
  <2>3. tx.state # "pending_restart"
    BY <2>1 DEF Transaction
  <2> QED BY <2>1, <2>2, <2>3, SourcesOn DEF Recovery
<1>36. CASE ArchiveCommitted
  <2>1. /\ UNCHANGED <<src, phase, round>> /\ pc = "archive" /\ caller \in {"apply", "verify", "hot"}
        /\ (tx' = tx \/ tx' = None) /\ Closed /\ ~Recovery
    BY <1>36 DEF ArchiveCommitted, Procedure, Committing, TypeOK, Closed, Recovery
  <2>2. pc' \in {"source", "source_done", "idle"} /\ (pc' = "source" => caller = "apply")
    BY <1>36, <2>1 DEF ArchiveCommitted
  <2>3. pc' = "source" => phase = "boot"
    BY <2>1, <2>2, TypeOK DEF Places, Working, Switching, Committing, Returning, TypeOK
  <2> QED BY <2>1, <2>2, <2>3
             DEF Sources, Places, Working, Switching, Committing, Returning, Asked, Closed
<1>37. CASE FinishSource
  <2>1. /\ UNCHANGED tx /\ phase = "verify" /\ pc' = "idle" /\ phase' = "run" /\ src \in Source
    BY <1>37, TypeOK DEF FinishSource, Places, Working, Switching, Committing, Returning, TypeOK
  <2>2. CASE src' = src
    BY <2>1, <2>2 DEF Sources, Places, Working, Switching, Committing, Returning, Recovery
  <2>3. CASE round.verifySource /\ src' = [src EXCEPT !.state = "none"]
    <3>1. src.state = "verification_pending"
      BY <2>1, <2>3 DEF Round
    <3>2. src'.state = "none" /\ src'.live = "new"
      BY <2>1, <2>3, <3>1 DEF Sources, Source
    <3> QED BY <2>1, <3>2, Members
               DEF Sources, Places, Working, Switching, Committing, Returning
  <2> QED BY <1>37, <2>2, <2>3 DEF FinishSource
<1>38. CASE Crash
  <2>1. /\ UNCHANGED <<src, tx>> /\ pc' = "merge" /\ phase' = "boot"
    BY <1>38 DEF Crash, files
  <2> QED BY <2>1 DEF Sources, Places, Working, Switching, Committing, Returning, Recovery
<1>39. CASE UNCHANGED vars
  BY <1>39
     DEF vars, files, control, Sources, Places, Working, Switching, Committing, Returning,
         Asked, Recovery, New
<1> QED BY <1>1, <1>2, <1>3, <1>4, <1>5, <1>6, <1>7, <1>8, <1>9, <1>10,
           <1>11, <1>12, <1>13, <1>14, <1>15, <1>16, <1>17, <1>18, <1>19,
           <1>20, <1>21, <1>22, <1>23, <1>24, <1>25, <1>26, <1>27, <1>28,
           <1>29, <1>30, <1>31, <1>32, <1>33, <1>34, <1>35, <1>36, <1>37,
           <1>38, <1>39
        DEF Next, Launcher, Procedures, Store

\* What a step must leave alone for Packages to stay.
LEMMA PackagesFrame ==
    ASSUME Packages, UNCHANGED <<manifest, tx, src, round>>,
           phase' = phase \/ (phase = "run" /\ phase' = "boot"),
           {pc, pc'} \cap {"fail", "prune", "source_undo"} = {},
           phase' = "verify" /\ pc' \in {"idle", "source_done"} => pc = "idle"
    PROVE  Packages'
  BY DEF Packages, Needs, Undoing, Recovery, New, Closed, Same

\* No step takes the packages away from new source.
LEMMA PackagesStep ==
    ASSUME TypeOK, Places, Drafts, Transaction, Procedure, Databases, Sources, Packages, Round, NoWindow, [Next]_vars
    PROVE  Packages'
<1>1. CASE ArchiveFirst
  <2>1. /\ UNCHANGED <<manifest, src>> /\ tx' = None /\ phase = "run" /\ phase' = "run" /\ ~Recovery
    BY <1>1 DEF ArchiveFirst, StoreFree
  <2> QED BY <2>1 DEF Packages, Needs, Undoing, New, Recovery
<1>2. ASSUME NEW migrates \in BOOLEAN, NEW deferred \in BOOLEAN, BeginStage(migrates, deferred)
      PROVE  Packages'
  <2>1. /\ UNCHANGED <<manifest, tx, src, round>>
        /\ \/ phase' = phase
           \/ phase = "run" /\ phase' = "boot"
        /\ {pc, pc'} \cap {"fail", "prune", "source_undo"} = {}
    BY <1>2 DEF BeginStage, StoreFree
  <2>2. phase' = "verify" /\ pc' \in {"idle", "source_done"} => pc = "idle"
    BY <1>2, <2>1, TypeOK
       DEF BeginStage, Places, Working, Switching, Committing, Returning, TypeOK
  <2> QED BY <2>1, <2>2, PackagesFrame
<1>3. CASE StageWrite
  <2>1. /\ UNCHANGED <<manifest, src, phase>> /\ phase = "run" /\ pc = "stage"
    BY <1>3, TypeOK DEF StageWrite, Places, Working, Switching, Committing, Returning, TypeOK
  <2>2. ~Recovery /\ Fresh(draft)
    BY <2>1 DEF Drafts, Fresh, Recovery
  <2>3. tx' # None /\ tx'.plan = draft.plan /\ tx'.base = manifest /\ ~tx'.rolledBack
    BY <1>3, <2>2, Writes, Members DEF Fresh
  <2> QED BY <2>1, <2>2, <2>3 DEF Packages, Needs, Undoing, Fresh, Recovery
<1>4. CASE StageFails
  <2>1. /\ UNCHANGED <<manifest, tx, src, round>>
        /\ \/ phase' = phase
           \/ phase = "run" /\ phase' = "boot"
        /\ {pc, pc'} \cap {"fail", "prune", "source_undo"} = {}
    BY <1>4 DEF StageFails
  <2>2. phase' = "verify" /\ pc' \in {"idle", "source_done"} => pc = "idle"
    BY <1>4, <2>1, TypeOK
       DEF StageFails, Places, Working, Switching, Committing, Returning, TypeOK
  <2> QED BY <2>1, <2>2, PackagesFrame
<1>5. CASE StageDiscard
  <2>1. /\ UNCHANGED <<manifest, tx, src, round>>
        /\ \/ phase' = phase
           \/ phase = "run" /\ phase' = "boot"
        /\ {pc, pc'} \cap {"fail", "prune", "source_undo"} = {}
    BY <1>5 DEF StageDiscard
  <2>2. phase' = "verify" /\ pc' \in {"idle", "source_done"} => pc = "idle"
    BY <1>5, <2>1, TypeOK
       DEF StageDiscard, Places, Working, Switching, Committing, Returning, TypeOK
  <2> QED BY <2>1, <2>2, PackagesFrame
<1>6. CASE BeginClear
  <2>1. /\ UNCHANGED <<manifest, tx, src, round>>
        /\ \/ phase' = phase
           \/ phase = "run" /\ phase' = "boot"
        /\ {pc, pc'} \cap {"fail", "prune", "source_undo"} = {}
    BY <1>6 DEF BeginClear, StoreFree
  <2>2. phase' = "verify" /\ pc' \in {"idle", "source_done"} => pc = "idle"
    BY <1>6, <2>1, TypeOK
       DEF BeginClear, Places, Working, Switching, Committing, Returning, TypeOK
  <2> QED BY <2>1, <2>2, PackagesFrame
<1>7. CASE ClearWrite
  <2>1. /\ UNCHANGED <<manifest, src, phase>> /\ tx' = None /\ phase = "run" /\ ~Recovery
    BY <1>7, TypeOK
       DEF ClearWrite, Places, Working, Switching, Committing, Returning, Databases, TypeOK
  <2> QED BY <2>1 DEF Packages, Needs, Undoing, New, Recovery
<1>8. CASE BeginHot
  <2>1. /\ UNCHANGED <<manifest, src, phase>> /\ phase = "run" /\ ~Recovery
    BY <1>8 DEF BeginHot, StoreFree
  <2>2. tx' # None /\ tx'.plan.src = manifest.plan.src /\ tx'.base = manifest
    BY <1>8, HotDrafts, Members
  <2> QED BY <2>1, <2>2 DEF Packages, Needs, Undoing, Recovery
<1>9. CASE HotLoad
  <2>1. /\ UNCHANGED <<manifest, tx, src, round>>
        /\ \/ phase' = phase
           \/ phase = "run" /\ phase' = "boot"
        /\ {pc, pc'} \cap {"fail", "prune", "source_undo"} = {}
    BY <1>9 DEF HotLoad, files
  <2>2. phase' = "verify" /\ pc' \in {"idle", "source_done"} => pc = "idle"
    BY <1>9, <2>1, TypeOK DEF HotLoad, Places, Working, Switching, Committing, Returning, TypeOK
  <2> QED BY <2>1, <2>2, PackagesFrame
<1>10. CASE CancelSource
  <2>1. src.live = "old" /\ src'.live = src.live /\ phase' = "run"
    BY <1>10 DEF CancelSource, StoreFree, Sources, TypeOK, Source
  <2> QED BY <2>1 DEF Packages, Needs
<1>11. CASE Restart
  <2>1. /\ UNCHANGED <<manifest, tx, src, round>>
        /\ \/ phase' = phase
           \/ phase = "run" /\ phase' = "boot"
        /\ {pc, pc'} \cap {"fail", "prune", "source_undo"} = {}
    BY <1>11 DEF Restart, files
  <2>2. phase' = "verify" /\ pc' \in {"idle", "source_done"} => pc = "idle"
    BY <1>11, <2>1, TypeOK
       DEF Restart, Places, Working, Switching, Committing, Returning, TypeOK
  <2> QED BY <2>1, <2>2, PackagesFrame
<1>12. ASSUME NEW needs \in BOOLEAN, StageSource(needs)
      PROVE  Packages'
  <2>1. src.live = "old" /\ src'.live = src.live /\ phase' = "run"
    BY <1>12 DEF StageSource, StoreFree, Sources, TypeOK, Source
  <2> QED BY <2>1 DEF Packages, Needs
<1>13. CASE Merge
  <2>1. manifest' = manifest /\ pc = "merge" /\ pc' = "apply" /\ phase = "boot" /\ phase' = "boot"
    BY <1>13 DEF Merge, At
  <2>2. CASE Asked
    <3>1. src'.live = "old"
      BY <1>13, <2>2, MergeDrafts DEF Sources, Asked
    <3> QED BY <2>1, <3>1 DEF Packages, Needs
  <2>3. CASE ~Asked
    <3>1. tx' = tx /\ src' = src
      BY <1>13, <2>3, MergeDrafts
    <3> QED BY <2>1, <3>1 DEF Packages, Needs, Undoing, Recovery, New, Closed
  <2> QED BY <2>2, <2>3
<1>14. CASE Apply
  <2>1. /\ UNCHANGED <<manifest, src>> /\ pc = "apply" /\ phase = "boot" /\ phase' = "boot"
        /\ pc' \in {"source", "confirm", "build"}
    BY <1>14 DEF Apply, At
  <2>2. CASE tx' = tx
    BY <2>1, <2>2 DEF Packages, Needs, Undoing, Recovery, New, Closed, Same
  <2>3. CASE /\ Same /\ tx'.state = "building" /\ tx'.rolledBack = tx.rolledBack
             /\ StateIs({"pending_restart", "building"})
    <3>1. tx.state \in {"pending_restart", "building"} /\ tx # None /\ tx' # None
      BY <2>3, PendingIs, Members DEF StateIs, Same
    <3> QED BY <2>1, <2>3, <3>1 DEF Packages, Needs, Undoing, Recovery, New, Closed, Same
  <2> QED BY <1>14, <2>2, <2>3, ApplyWrites
<1>15. CASE Build
  <2>1. /\ UNCHANGED <<manifest, tx, src, round>>
        /\ \/ phase' = phase
           \/ phase = "run" /\ phase' = "boot"
        /\ {pc, pc'} \cap {"fail", "prune", "source_undo"} = {}
    BY <1>15 DEF Build, At
  <2>2. phase' = "verify" /\ pc' \in {"idle", "source_done"} => pc = "idle"
    BY <1>15, <2>1, TypeOK DEF Build, Places, Working, Switching, Committing, Returning, TypeOK
  <2> QED BY <2>1, <2>2, PackagesFrame
<1>16. CASE ApplyFails
  <2>1. /\ UNCHANGED <<manifest, src>> /\ phase = "boot" /\ phase' = "boot" /\ pc' = "source"
        /\ pc \in Working \cup Switching /\ tx.state = "building"
    BY <1>16 DEF ApplyFails, Working, Switching, Procedure
  <2>2. Same /\ tx' # None /\ tx'.state \in {"failed", "recovery_required"} /\ ~tx.rolledBack
    BY <1>16, <2>1, Writes, Members DEF Same, Transaction
  <2> QED BY <2>1, <2>2 DEF Packages, Needs, Undoing, Recovery, New, Closed, Same, Working, Switching
<1>17. CASE MigrateBackup
  <2>1. /\ UNCHANGED <<manifest, src, phase>> /\ pc \in {"migrate", "mark"} /\ pc' \in {"upgrade", "switch"}
    BY <1>17 DEF MigrateBackup, At
  <2>2. Same /\ tx' # None /\ tx'.state = tx.state /\ tx'.rolledBack = tx.rolledBack
    BY <1>17, <2>1, Writes, Members DEF Same
  <2> QED BY <2>1, <2>2 DEF Packages, Needs, Undoing, Recovery, New, Closed, Same
<1>18. CASE MigrateOk
  <2>1. /\ UNCHANGED <<manifest, tx, src, round>>
        /\ \/ phase' = phase
           \/ phase = "run" /\ phase' = "boot"
        /\ {pc, pc'} \cap {"fail", "prune", "source_undo"} = {}
    BY <1>18 DEF MigrateOk, At
  <2>2. phase' = "verify" /\ pc' \in {"idle", "source_done"} => pc = "idle"
    BY <1>18, <2>1, TypeOK
       DEF MigrateOk, Places, Working, Switching, Committing, Returning, TypeOK
  <2> QED BY <2>1, <2>2, PackagesFrame
<1>19. CASE MigrateFails
  <2>1. /\ UNCHANGED <<manifest, src>> /\ phase = "boot" /\ phase' = "boot" /\ pc \in Working /\ pc' = "source"
        /\ tx.state = "building"
    BY <1>19 DEF MigrateFails, At, Working, Procedure
  <2>2. Same /\ tx' # None /\ tx'.state \in {"failed", "recovery_required"} /\ ~tx.rolledBack
    BY <1>19, <2>1, Writes, Members DEF Same, Transaction
  <2> QED BY <2>1, <2>2 DEF Packages, Needs, Undoing, Recovery, New, Closed, Same, Working
<1>20. CASE SaveRollback
  <2>1. /\ UNCHANGED <<manifest, tx, src, round>>
        /\ \/ phase' = phase
           \/ phase = "run" /\ phase' = "boot"
        /\ {pc, pc'} \cap {"fail", "prune", "source_undo"} = {}
    BY <1>20 DEF SaveRollback
  <2>2. phase' = "verify" /\ pc' \in {"idle", "source_done"} => pc = "idle"
    BY <1>20, <2>1, TypeOK
       DEF SaveRollback, Places, Working, Switching, Committing, Returning, TypeOK
  <2> QED BY <2>1, <2>2, PackagesFrame
<1>21. CASE MarkSaved
  <2>1. /\ UNCHANGED <<manifest, src, phase>> /\ pc \in {"migrate", "mark"} /\ pc' \in {"upgrade", "switch"}
    BY <1>21 DEF MarkSaved, At
  <2>2. Same /\ tx' # None /\ tx'.state = tx.state /\ tx'.rolledBack = tx.rolledBack
    BY <1>21, <2>1, Writes, Members DEF Same
  <2> QED BY <2>1, <2>2 DEF Packages, Needs, Undoing, Recovery, New, Closed, Same
<1>22. CASE Switch
  <2>1. /\ UNCHANGED <<tx, src, phase>> /\ pc = "switch" /\ pc' \in {"load", "pending"}
        /\ manifest'.plan = tx.plan /\ tx # None
    BY <1>22 DEF Switch, Places, Switching
  <2>2. tx.state \in {"building", "verification_pending"} /\ ~tx.rolledBack /\ ~Recovery
    BY <2>1 DEF Procedure, Switching, Transaction, Recovery
  <2>3. phase = "boot" => tx.state = "building"
    BY <2>1 DEF Procedure, Places, Working, Switching, Committing, Returning
  <2>4. phase # "verify"
    BY <2>1 DEF Places, Working, Switching, Committing, Returning
  <2> QED BY <2>1, <2>2, <2>3, <2>4
             DEF Packages, Needs, Undoing, Recovery, New, Closed, Same, TypeOK
<1>23. CASE MarkPending
  <2>1. /\ UNCHANGED <<manifest, src>> /\ phase = "boot" /\ phase' = "boot" /\ pc = "pending" /\ pc' = "source"
        /\ tx.state = "building"
    BY <1>23 DEF MarkPending, At, Working, Procedure
  <2>2. Same /\ tx' # None /\ tx'.state = "verification_pending" /\ tx'.rolledBack = tx.rolledBack
    BY <1>23, <2>1, Writes, Members DEF Same
  <2> QED BY <2>1, <2>2 DEF Packages, Needs, Undoing, Recovery, New, Closed, Same
<1>24. CASE ApplySource
  <2>1. /\ UNCHANGED <<manifest, tx>> /\ phase = "boot" /\ phase' = "boot" /\ pc = "source"
        /\ pc' \in {"decide", "source_switch"} /\ src \in Source
    BY <1>24 DEF ApplySource, At, TypeOK
  <2>2. \/ src' = src
        \/ src'.live \in {"old", Torn}
    BY <1>24, <2>1 DEF ApplySource, FailSource, Source, Sources
  <2> QED BY <2>1, <2>2, Members DEF Packages, Needs, Undoing, Recovery, New, Closed, Same
<1>25. CASE SwitchSource
  <2>1. /\ UNCHANGED <<manifest, tx>> /\ phase = "boot" /\ phase' = "boot" /\ pc = "source_switch"
        /\ pc' \in {"decide", "check"} /\ src \in Source
    BY <1>25 DEF SwitchSource, At, TypeOK
  <2>2. \/ src'.live = "old"
        \/ src'.live = "new" /\ src'.state = "verification_pending" /\ src'.needs = src.needs
    BY <1>25, <2>1 DEF SwitchSource, Source
  <2> QED BY <2>1, <2>2 DEF Packages, Needs, Undoing, Recovery, New, Closed, Same, Sources
<1>26. CASE Decide
  <2>1. /\ UNCHANGED <<manifest, src>> /\ phase = "boot" /\ pc = "decide" /\ pc' = "idle"
    BY <1>26 DEF Decide, At
  <2>2. /\ phase' \in {"verify", "run"}
        /\ phase' = "run" /\ src.state = "verification_pending" => Recovery
    BY <1>26, DecideVerifies
  <2>3. CASE tx' = tx /\ ~Settled
    <3>1. New /\ ~manifest.trial => tx.state # "verification_pending"
      BY <2>3, PendingIs DEF Settled, Transaction, New, Verified
    <3> QED BY <2>1, <2>2, <2>3, <3>1 DEF Packages, Needs, Undoing, Recovery, New, Closed, Same
  <2>4. CASE tx' = None /\ Settled
    <3>1. ~Recovery
      BY <2>1, <2>4, SettledIs DEF Transaction, Recovery, New, Switching
    <3> QED BY <2>1, <2>2, <2>4, <3>1 DEF Packages, Needs, Undoing, Recovery, New, Closed, Same
  <2> QED BY <1>26, <2>3, <2>4 DEF Decide
<1>27. CASE VerifyPasses
  <2>1. /\ UNCHANGED <<manifest, tx, src, phase>> /\ phase = "verify" /\ pc = "idle"
    BY <1>27 DEF VerifyPasses, files
  <2> QED BY <2>1 DEF Packages, Needs, Undoing, Recovery, New, Closed, Same
<1>28. CASE VerifyFails
  <2>1. /\ UNCHANGED <<manifest, tx, src, round>> /\ phase = "verify" /\ phase' = "boot"
        /\ \/ pc' = "check"
           \/ pc' = "source_undo" /\ ~round.verifyDeps
    BY <1>28 DEF VerifyFails, files
  <2> QED BY <2>1 DEF Packages, Needs, Undoing, Recovery, New, Closed, Same
<1>29. CASE RestoreDatabases
  <2>1. /\ UNCHANGED <<manifest, tx, src, round>>
        /\ \/ phase' = phase
           \/ phase = "run" /\ phase' = "boot"
        /\ {pc, pc'} \cap {"fail", "prune", "source_undo"} = {}
    BY <1>29 DEF RestoreDatabases
  <2>2. phase' = "verify" /\ pc' \in {"idle", "source_done"} => pc = "idle"
    BY <1>29, <2>1, TypeOK
       DEF RestoreDatabases, Places, Working, Switching, Committing, Returning, TypeOK
  <2> QED BY <2>1, <2>2, PackagesFrame
<1>30. CASE ReturnManifest
  <2>1. /\ UNCHANGED <<tx, src, round, phase>> /\ pc = "return" /\ pc' = "fail" /\ tx # None
        /\ manifest.trial /\ New
    BY <1>30 DEF ReturnManifest, Places, Returning, Procedure, Transaction
  <2>2. /\ ~tx.rolledBack /\ ~Closed /\ tx.state # "recovery_required" /\ manifest' = tx.base
    BY <1>30, <2>1 DEF Transaction, ReturnManifest
  <2>3. Needs => src.state \in {"none", "verification_pending"}
    BY Members DEF Needs, Sources, TypeOK, Source, SourceStates
  <2>4. Needs /\ src.state = "verification_pending" => Undoing'
    <3>1. ASSUME Needs, src.state = "verification_pending"
          PROVE  phase = "boot" /\ round.verifyDeps /\ round.verifySource
      <4>1. phase = "boot"
        BY <2>1, <3>1, TypeOK
           DEF Places, Working, Switching, Committing, Returning, Packages, TypeOK
      <4>2. caller = "verify"
        BY <2>1, <3>1, <4>1 DEF Places, Working, Switching, Committing, Returning, Round
      <4> QED BY <2>1, <3>1, <4>1, <4>2 DEF Round, Returning
    <3> QED BY <2>1, <3>1 DEF Undoing
  <2>5. phase # "verify"
    BY <2>1 DEF Places, Working, Switching, Committing, Returning
  <2>6. ~Recovery /\ ~Undoing
    BY <2>1, <2>2 DEF Recovery, Undoing
  <2>7. Needs /\ src.state = "none" => manifest'.plan.src
    BY <2>1, <2>2, <2>6 DEF Packages
  <2> HIDE DEF Undoing
  <2>8. (Needs => tx.plan.src) /\ (Needs /\ src.state = "none" => tx.base.plan.src)
        /\ (Needs /\ src.state = "verification_pending" => phase # "run")
    BY <2>1, <2>2, <2>6 DEF Packages
  <2> QED BY <2>1, <2>2, <2>3, <2>4, <2>5, <2>7, <2>8 DEF Packages, Needs
<1>31. CASE FailTransaction
  <2>1. /\ UNCHANGED <<manifest, src, round, phase>> /\ pc = "fail" /\ pc' = "prune" /\ ~Recovery /\ tx # None /\ ~New /\ ~Closed
    BY <1>31 DEF FailTransaction, Databases, Procedure, Places, Returning, Transaction
  <2>2. Same /\ tx' # None /\ tx'.state = "failed" /\ tx'.rolledBack
    BY <1>31, Writes, Members DEF Same
  <2> QED BY <2>1, <2>2 DEF Packages, Needs, Undoing, Recovery, New, Closed, Same
<1>32. CASE Prune
  <2>1. /\ UNCHANGED <<manifest, tx, src, round, phase>> /\ pc = "prune" /\ caller \in {"apply", "verify", "hot"}
        /\ tx # None /\ tx.rolledBack
    BY <1>32 DEF Prune, TypeOK, Places, Returning, Procedure
  <2>2. /\ pc' \in {"decide", "source_undo", "idle"} /\ (pc' = "decide" => caller = "apply")
        /\ pc' = "idle" => caller = "hot"
    BY <1>32, <2>1 DEF Prune, AfterRollback
  <2>3. pc' = "decide" \/ pc' = "idle" => ~Undoing
    <3>1. ASSUME phase = "boot", pc' = "decide" PROVE src.state = "failed"
      BY <2>1, <2>2, <3>1 DEF Round, Returning
    <3>2. ASSUME phase = "boot" PROVE caller # "hot"
      BY <2>1, <3>2 DEF Places, Working, Switching, Committing, Returning
    <3> QED BY <2>1, <2>2, <3>1, <3>2 DEF Undoing
  <2>4. phase # "verify"
    BY <2>1 DEF Places, Working, Switching, Committing, Returning
  <2> QED BY <2>1, <2>2, <2>3, <2>4 DEF Packages, Needs, Undoing, Recovery, New, Closed, Same
<1>33. CASE UndoSource
  <2>1. /\ UNCHANGED <<manifest, round>> /\ phase = "boot" /\ phase' = "boot" /\ pc = "source_undo" /\ pc' = "merge" /\ src \in Source
        /\ \/ round.verifySource /\ src'.live = "old"
           \/ src' = src /\ ~round.verifySource /\ ~Undoing
    BY <1>33 DEF UndoSource, At, TypeOK, Source, Undoing
  <2>2. CASE tx' = tx
    BY <2>1, <2>2, Members DEF Packages, Needs, Undoing, Recovery, New, Closed, Same
  <2>3. CASE tx' = None /\ Settled
    <3>1. ~Recovery
      BY <2>1, <2>3, SettledIs DEF Transaction, Recovery, New, Switching
    <3> QED BY <2>1, <2>3, <3>1, Members
               DEF Packages, Needs, Undoing, Recovery, New, Closed, Same
  <2> QED BY <1>33, <2>2, <2>3 DEF UndoSource
<1>34. CASE Confirm
  <2>1. /\ UNCHANGED <<src, phase, round>> /\ New /\ tx # None /\ pc \in Committing /\ pc' \in Committing
        /\ manifest'.plan = manifest.plan
    BY <1>34, ConfirmEnds DEF Confirm, Procedure, Committing, New
  <2>2. Same /\ tx' # None /\ tx'.state \in {tx.state, "committed", "cleanup_pending"} /\ tx'.rolledBack = tx.rolledBack
    BY <1>34, Writes, Members DEF Same
  <2>3. ~Recovery
    BY <2>1 DEF Transaction, Recovery
  <2> QED BY <2>1, <2>2, <2>3
             DEF Packages, Needs, Undoing, Recovery, New, Closed, Same, Committing
<1>35. CASE Commit
  <2>1. /\ UNCHANGED <<src, phase, round>> /\ New /\ tx # None /\ pc \in Committing /\ pc' \in Committing
        /\ manifest'.plan = manifest.plan
    BY <1>35, ConfirmEnds DEF Commit, Procedure, Committing, New
  <2>2. Same /\ tx' # None /\ tx'.state \in {tx.state, "committed", "cleanup_pending"} /\ tx'.rolledBack = tx.rolledBack
    BY <1>35, Writes, Members DEF Same
  <2>3. ~Recovery
    BY <2>1 DEF Transaction, Recovery
  <2> QED BY <2>1, <2>2, <2>3
             DEF Packages, Needs, Undoing, Recovery, New, Closed, Same, Committing
<1>36. CASE Sweep
  <2>1. /\ UNCHANGED <<src, phase, round>> /\ New /\ tx # None /\ pc \in Committing /\ pc' \in Committing
        /\ manifest'.plan = manifest.plan
    BY <1>36, ConfirmEnds DEF Sweep, Procedure, Committing, New
  <2>2. Same /\ tx' # None /\ tx'.state \in {tx.state, "committed", "cleanup_pending"} /\ tx'.rolledBack = tx.rolledBack
    BY <1>36, SweepWrites, Members DEF Same
  <2>3. ~Recovery
    BY <2>1 DEF Transaction, Recovery
  <2> QED BY <2>1, <2>2, <2>3
             DEF Packages, Needs, Undoing, Recovery, New, Closed, Same, Committing
<1>37. CASE ArchiveCommitted
  <2>1. /\ UNCHANGED <<manifest, src, phase>> /\ pc = "archive" /\ Closed /\ ~Recovery
        /\ tx' = tx \/ tx' = None
    BY <1>37 DEF ArchiveCommitted, Procedure, Committing, Closed, Recovery
  <2>2. caller \in {"apply", "verify", "hot"}
    BY DEF TypeOK
  <2>3. pc' \in {"source", "source_done", "idle"}
    BY <1>37, <2>2 DEF ArchiveCommitted
  <2> QED BY <2>1, <2>3 DEF Packages, Needs, Undoing, Recovery, New, Closed, Same
<1>38. CASE FinishSource
  <2>1. /\ UNCHANGED <<manifest, tx>> /\ phase = "verify" /\ phase' = "run" /\ pc = "source_done" /\ pc' = "idle"
        /\ src \in Source /\ ~manifest.trial
    BY <1>38, TypeOK
       DEF FinishSource, Places, Working, Switching, Committing, Returning, TypeOK,
           Procedure
  <2>2. round.verifySource <=> src.state = "verification_pending"
    BY <2>1 DEF Round
  <2>3. CASE src' = src /\ ~round.verifySource
    BY <2>1, <2>2, <2>3 DEF Packages, Needs, Undoing, Recovery, New, Closed, Same
  <2>4. CASE round.verifySource /\ src' = [src EXCEPT !.state = "none"]
    <3>1. src'.state = "none" /\ src'.live = src.live /\ src'.needs = src.needs /\ src.state = "verification_pending"
      BY <2>1, <2>2, <2>4, Members DEF Source, SourceStates
    <3>2. Needs /\ tx # None => Closed
      BY <2>1, <3>1 DEF Packages, Undoing
    <3> QED BY <2>1, <3>1, <3>2 DEF Packages, Needs, Undoing, Recovery, New, Closed, Same
  <2> QED BY <1>38, <2>3, <2>4 DEF FinishSource
<1>39. CASE Crash
  <2>1. /\ UNCHANGED <<manifest, tx, src>> /\ phase' = "boot" /\ pc' = "merge" /\ Window = "none"
    BY <1>39 DEF Crash, files, NoWindow
  <2>2. ~Undoing
    BY <2>1 DEF Window, Undoing, Places, Working, Switching, Committing, Returning
  <2> QED BY <2>1, <2>2 DEF Packages, Needs, Undoing, Recovery, New, Closed, Same
<1>40. CASE UNCHANGED vars
  BY <1>40 DEF vars, files, control, Packages, Needs, Undoing, Recovery, New, Closed, Same
<1> QED BY <1>1, <1>2, <1>3, <1>4, <1>5, <1>6, <1>7, <1>8, <1>9, <1>10,
           <1>11, <1>12, <1>13, <1>14, <1>15, <1>16, <1>17, <1>18, <1>19,
           <1>20, <1>21, <1>22, <1>23, <1>24, <1>25, <1>26, <1>27, <1>28,
           <1>29, <1>30, <1>31, <1>32, <1>33, <1>34, <1>35, <1>36, <1>37,
           <1>38, <1>39, <1>40
        DEF Next, Launcher, Procedures, Store

\* While a worker runs there is nothing to verify,
LEMMA RoundRun ==
    ASSUME phase' = "run", pc' \notin {"source", "source_switch"}
    PROVE  Round'
  BY DEF Round

\* nothing of this round is applied before it is switched to.
LEMMA RoundWork ==
    ASSUME Round, phase = "boot", UNCHANGED <<phase, caller, round>>, pc \in Working \cup Switching,
           pc' \in {"build", "migrate", "upgrade", "pending", "source"} \cup Switching
    PROVE  Round'
  BY DEF Round, Places, Working, Switching, Committing, Returning

\* Every step keeps what the launcher remembers true.
LEMMA RoundStep ==
    ASSUME TypeOK, Places, Procedure, Round, [Next]_vars
    PROVE  Round'
<1> USE DEF Round
<1>1. CASE \/ ArchiveFirst
           \/ (\E migrates, deferred \in BOOLEAN : BeginStage(migrates, deferred))
           \/ StageWrite \/ StageFails \/ StageDiscard \/ BeginClear
           \/ ClearWrite \/ BeginHot \/ HotLoad
           \/ (\E needs \in BOOLEAN : StageSource(needs)) \/ CancelSource
  <2>1. phase' = "run" /\ pc' \notin {"source", "source_switch"}
    BY <1>1, TypeOK DEF ArchiveFirst, BeginStage, StageWrite, StageFails, StageDiscard,
            BeginClear, ClearWrite, BeginHot, HotLoad, StageSource, CancelSource, StoreFree, control, TypeOK, Places, Working, Switching, Committing, Returning
  <2> QED BY <2>1, RoundRun
<1>2. CASE Restart
  <2>1. phase' = "boot" /\ pc' = "merge"
    BY <1>2 DEF Restart
  <2> QED BY <2>1 DEF Places, Working, Switching, Committing, Returning
<1>3. CASE Merge
  <2>1. /\ phase' = "boot" /\ pc' = "apply" /\ caller' = "apply"
    BY <1>3 DEF Merge, At
  <2>2. ~round'.applied
    <3>1. \/ round' = [NoRound EXCEPT !.source = TRUE]
          \/ \E b : round' = [NoRound EXCEPT !.ready = TRUE, !.source = b]
      BY <1>3 DEF Merge
    <3> QED BY <3>1 DEF NoRound
  <2> QED BY <2>1, <2>2 DEF Returning
<1>4. CASE Apply
  <2>1. /\ phase' = "boot" /\ pc' \in {"source", "confirm", "build"} /\ caller' = "apply"
    BY <1>4 DEF Apply, At, Places, Returning
  <2>2. ~round'.applied
    <3> DEFINE b == StateIs({"pending_restart"})
    <3>1. round' = [round EXCEPT !.fresh = b] /\ ~round.applied
      BY <1>4 DEF Apply, At
    <3> HIDE DEF b
    <3> QED BY <3>1 DEF TypeOK, Rounds
  <2> QED BY <2>1, <2>2 DEF Returning
<1>5. CASE Build
  <2>1. /\ UNCHANGED <<phase, caller, round>> /\ phase = "boot" /\ pc \in Working
        /\ pc' \in {"build", "migrate", "upgrade"} \cup Switching
    BY <1>5 DEF Build, At, Working, Switching
  <2> QED BY <2>1, RoundWork
<1>6. CASE ApplyFails
  <2>1. /\ UNCHANGED <<phase, caller, round>> /\ phase = "boot" /\ pc' = "source"
        /\ pc \in Working \cup Switching
    BY <1>6 DEF ApplyFails, Working, Switching
  <2> QED BY <2>1, RoundWork
<1>7. CASE MigrateBackup
  <2>1. /\ UNCHANGED <<phase, caller, round>> /\ phase = "boot" /\ pc \in Working
        /\ pc' \in {"build", "migrate", "upgrade"} \cup Switching
    BY <1>7 DEF MigrateBackup, At, Working, Switching
  <2> QED BY <2>1, RoundWork
<1>8. CASE MigrateOk
  <2>1. /\ UNCHANGED <<phase, caller, round>> /\ phase = "boot" /\ pc \in Working
        /\ pc' \in {"build", "migrate", "upgrade"} \cup Switching
    BY <1>8 DEF MigrateOk, At, Working, Switching
  <2> QED BY <2>1, RoundWork
<1>9. CASE MigrateFails
  <2>1. /\ UNCHANGED <<phase, caller, round>> /\ phase = "boot" /\ pc \in Working /\ pc' = "source"
    BY <1>9 DEF MigrateFails, At, Working
  <2> QED BY <2>1, RoundWork
<1>10. CASE SaveRollback
  <2>1. /\ UNCHANGED <<phase, caller, round>> /\ pc \in Switching
        /\ pc' \in {"pending", "load"} \cup Switching /\ (pc' = "load" => caller = "hot")
    BY <1>10, TypeOK DEF SaveRollback, Switching, TypeOK
  <2>2. CASE phase = "run"
    BY <2>1, <2>2, RoundRun DEF Switching
  <2>3. CASE phase = "boot"
    BY <2>1, <2>3, RoundWork DEF Places, Working, Switching, Committing, Returning
  <2> QED BY <2>1, <2>2, <2>3 DEF TypeOK, Places, Working, Switching, Committing, Returning
<1>11. CASE MarkSaved
  <2>1. /\ UNCHANGED <<phase, caller, round>> /\ pc \in Switching
        /\ pc' \in {"pending", "load"} \cup Switching /\ (pc' = "load" => caller = "hot")
    BY <1>11, TypeOK DEF MarkSaved, Switching, TypeOK
  <2>2. CASE phase = "run"
    BY <2>1, <2>2, RoundRun DEF Switching
  <2>3. CASE phase = "boot"
    BY <2>1, <2>3, RoundWork DEF Places, Working, Switching, Committing, Returning
  <2> QED BY <2>1, <2>2, <2>3 DEF TypeOK, Places, Working, Switching, Committing, Returning
<1>12. CASE Switch
  <2>1. /\ UNCHANGED <<phase, caller, round>> /\ pc \in Switching
        /\ pc' \in {"pending", "load"} \cup Switching /\ (pc' = "load" => caller = "hot")
    BY <1>12, TypeOK DEF Switch, Switching, TypeOK
  <2>2. CASE phase = "run"
    BY <2>1, <2>2, RoundRun DEF Switching
  <2>3. CASE phase = "boot"
    BY <2>1, <2>3, RoundWork DEF Places, Working, Switching, Committing, Returning
  <2> QED BY <2>1, <2>2, <2>3 DEF TypeOK, Places, Working, Switching, Committing, Returning
<1>13. CASE MarkPending
  <2>1. /\ phase' = "boot" /\ pc' = "source" /\ manifest' = manifest /\ manifest.trial
    BY <1>13 DEF MarkPending, At, Procedure
  <2> QED BY <2>1 DEF Returning, Working, Switching, Committing
<1>14. CASE ApplySource
  <2>1. /\ phase' = "boot" /\ pc = "source" /\ pc' \in {"decide", "source_switch"}
        /\ UNCHANGED <<manifest, round>>
    BY <1>14 DEF ApplySource, At
  <2> QED BY <2>1 DEF Places, Working, Switching, Committing, Returning
<1>15. CASE SwitchSource
  <2>1. /\ phase' = "boot" /\ pc' \in {"decide", "check"} /\ caller' = "apply" /\ src \in Source
    BY <1>15, TypeOK
       DEF SwitchSource, At, Places, Working, Switching, Committing, Returning, TypeOK
  <2>2. pc' = "check" => src'.state = "failed"
    BY <1>15, <2>1 DEF SwitchSource, Source
  <2> QED BY <2>1, <2>2 DEF Places, Working, Switching, Committing, Returning
<1>16. CASE Decide
  <2>1. UNCHANGED <<manifest, src>> /\ pc' = "idle" /\ (tx' = tx \/ tx' = None)
    BY <1>16 DEF Decide
  <2>2. /\ phase' \in {"verify", "run"} /\ (phase' = "verify" => round'.verifyDeps \/ round'.verifySource)
        /\ round'.verifyDeps <=> manifest.trial /\ ~Recovery
        /\ round'.verifySource <=> src.state = "verification_pending" /\ ~Recovery
    BY <1>16, DecideVerifies
  <2> QED BY <2>1, <2>2 DEF Places, Working, Switching, Committing, Returning, Recovery
<1>17. CASE VerifyPasses
  <2>1. UNCHANGED <<tx, src, round, phase>> /\ phase = "verify" /\ pc' \in {"confirm", "source_done"}
    BY <1>17 DEF VerifyPasses, files
  <2> QED BY <2>1 DEF Places, Working, Switching, Committing, Returning, Recovery
<1>18. CASE VerifyFails
  <2>1. /\ UNCHANGED <<src, round>> /\ phase = "verify" /\ pc' \in {"check", "source_undo"}
        /\ pc' = "check" => round.verifyDeps
        /\ caller' = "verify" /\ phase' = "boot"
    BY <1>18 DEF VerifyFails, files
  <2> QED BY <2>1 DEF Places, Working, Switching, Committing, Returning
<1>19. CASE RestoreDatabases
  <2>1. UNCHANGED <<src, round, phase, caller>> /\ pc \in Returning /\ pc' \in Returning
    BY <1>19 DEF RestoreDatabases, Returning
  <2> QED BY <2>1 DEF Places, Working, Switching, Committing, Returning
<1>20. CASE ReturnManifest
  <2>1. UNCHANGED <<src, round, phase, caller>> /\ pc \in Returning /\ pc' \in Returning
    BY <1>20 DEF ReturnManifest, Returning
  <2> QED BY <2>1 DEF Places, Working, Switching, Committing, Returning
<1>21. CASE FailTransaction
  <2>1. UNCHANGED <<src, round, phase, caller>> /\ pc \in Returning /\ pc' \in Returning
    BY <1>21 DEF FailTransaction, Returning
  <2> QED BY <2>1 DEF Places, Working, Switching, Committing, Returning
<1>22. CASE Prune
  <2>1. UNCHANGED <<src, round, phase, caller>> /\ pc = "prune" /\ caller \in {"apply", "verify", "hot"}
    BY <1>22 DEF Prune, TypeOK
  <2>2. pc' \in {"decide", "source_undo", "idle"} /\ (pc' = "source_undo" => caller = "verify")
    BY <1>22, <2>1 DEF Prune, AfterRollback
  <2> QED BY <2>1, <2>2 DEF Places, Working, Switching, Committing, Returning
<1>23. CASE UndoSource
  <2>1. phase' = "boot" /\ pc' = "merge"
    BY <1>23 DEF UndoSource, At
  <2> QED BY <2>1 DEF Places, Working, Switching, Committing, Returning
<1>24. CASE Confirm
  <2>1. UNCHANGED <<src, round, phase, caller>> /\ pc \in Committing /\ pc' \in Committing
    BY <1>24 DEF Confirm, Committing
  <2>2. Recovery' => Recovery
    BY <1>24, Writes, Members DEF Recovery, Same
  <2> QED BY <2>1, <2>2 DEF Places, Working, Switching, Committing, Returning
<1>25. CASE Commit
  <2>1. UNCHANGED <<src, round, phase, caller>> /\ pc \in Committing /\ pc' \in Committing
    BY <1>25 DEF Commit, Committing
  <2>2. Recovery' => Recovery
    BY <1>25, Writes, Members DEF Recovery, Same
  <2> QED BY <2>1, <2>2 DEF Places, Working, Switching, Committing, Returning
<1>26. CASE Sweep
  <2>1. UNCHANGED <<src, round, phase, caller>> /\ pc \in Committing /\ pc' \in Committing
    BY <1>26 DEF Sweep, Committing
  <2>2. Recovery' => Recovery
    BY <1>26, SweepWrites, Members DEF Recovery, Same
  <2> QED BY <2>1, <2>2 DEF Places, Working, Switching, Committing, Returning
<1>27. CASE ArchiveCommitted
  <2>1. /\ UNCHANGED <<src, round, phase, caller>> /\ pc = "archive" /\ caller \in {"apply", "verify", "hot"}
        /\ tx' = tx \/ tx' = None
    BY <1>27 DEF ArchiveCommitted, TypeOK
  <2>2. pc' = CASE caller = "apply" -> "source" [] caller = "verify" -> "source_done" [] caller = "hot" -> "idle"
    BY <1>27 DEF ArchiveCommitted
  <2>3. CASE caller = "hot"
    BY <2>1, <2>2, <2>3, RoundRun, TypeOK
       DEF Places, Working, Switching, Committing, Returning, TypeOK
  <2>4. CASE caller = "verify"
    <3>1. pc' = "source_done" /\ caller' = "verify"
      BY <2>1, <2>2, <2>4
    <3> QED BY <2>1, <3>1 DEF Places, Working, Switching, Committing, Returning, Recovery
  <2>5. CASE caller = "apply"
    <3>1. pc' = "source" /\ phase = "boot" /\ caller' = "apply"
      BY <2>1, <2>2, <2>5, TypeOK DEF Places, Working, Switching, Committing, Returning, TypeOK
    <3> QED BY <2>1, <3>1 DEF Places, Working, Switching, Committing, Returning
  <2> QED BY <2>1, <2>3, <2>4, <2>5
<1>28. CASE FinishSource
  <2> QED BY <1>28, RoundRun DEF FinishSource
<1>29. CASE Crash
  <2>1. phase' = "boot" /\ pc' = "merge"
    BY <1>29 DEF Crash
  <2> QED BY <2>1 DEF Places, Working, Switching, Committing, Returning
<1>30. CASE UNCHANGED vars
  BY <1>30 DEF vars, files, control, Places, Working, Switching, Committing, Returning, Recovery
<1> QED BY <1>1, <1>2, <1>3, <1>4, <1>5, <1>6, <1>7, <1>8, <1>9, <1>10,
           <1>11, <1>12, <1>13, <1>14, <1>15, <1>16, <1>17, <1>18, <1>19,
           <1>20, <1>21, <1>22, <1>23, <1>24, <1>25, <1>26, <1>27, <1>28,
           <1>29, <1>30
        DEF Next, Launcher, Procedures, Store

-----------------------------------------------------------------------------
Inv == /\ TypeOK /\ Places /\ Revisions /\ Drafts /\ Transaction /\ Procedure
       /\ LayersKept /\ Databases /\ Sources /\ Packages /\ Round

\* Nothing is pending at first.
LEMMA InitInv == Init => Inv
<1> SUFFICES ASSUME Init PROVE Inv
  OBVIOUS
<1>1. TypeOK
  <2>1. manifest \in Manifest
    BY Members DEF Init, Manifest, Plan
  <2>2. layers \in Layers /\ backup \in Backups /\ record \in Records
    BY DEF Init, Layers, Backups, Records
  <2>3. src \in Source
    BY DEF Init, Source, SourceStates
  <2>4. round \in Rounds
    BY RoundIs DEF Init
  <2>5. crashes \in 0..MaxCrashes /\ lastRev \in 0..MaxRevs /\ build \in 0..MaxGen
    BY ConstantsAssumption DEF Init, ConstantsAssumption
  <2> QED BY <2>1, <2>2, <2>3, <2>4, <2>5, Members DEF Init, TypeOK
<1>2. /\ tx = None /\ phase = "boot" /\ pc = "merge" /\ build = 0
      /\ ~manifest.trial /\ manifest.active = 0 /\ manifest.plan.rev = 0 /\ manifest.plan.schema = db
      /\ src.state = "none" /\ src.live = "old" /\ lastRev = 0
      /\ \A r \in Revs : record[r] = "none" /\ backup[r] = None
  BY DEF Init
<1>3. Places /\ Drafts /\ Transaction /\ Procedure /\ LayersKept /\ Databases
  BY <1>2 DEF Places, Drafts, Transaction, Procedure, LayersKept, Databases, Whole,
              New, Recovery, Working, Switching, Committing, Returning
<1>4. Revisions
  BY <1>2 DEF Revisions, Verdict
<1>5. Sources /\ Packages /\ Round
  BY <1>2, Members DEF Sources, Packages, Round, Asked, Needs, Recovery, Undoing, New,
              Working, Switching, Committing, Returning
<1> QED BY <1>1, <1>3, <1>4, <1>5 DEF Inv

\* The layers, the databases, the verdicts, the source tree and the launcher's
\* round stay consistent whatever order the steps and the crashes come in.
THEOREM Invariance ==
    ASSUME NoWindow
    PROVE  Spec => []Inv
<1>1. Inv /\ [Next]_vars => Inv'
  BY TypeStep, PlacesStep, RevisionsStep, DraftsStep, TransactionStep, ProcedureStep,
     LayersKeptStep, DatabasesStep, SourcesStep, PackagesStep, RoundStep DEF Inv
<1> QED BY <1>1, InitInv, PTL DEF Spec

\* The layer the manifest names is on disk and whole, and during a trial so is
\* the one before it, with its databases or their backup (LayersAreThere):
\* prune_generations, discard_generation and the crashes between the writes of
\* commit_generation never take what a rollback needs.
THEOREM LayersStay ==
    ASSUME NoWindow
    PROVE  Spec => []LayersAreThere
<1>1. ASSUME Inv PROVE LayersAreThere
  <2>1. SUFFICES ASSUME manifest.trial
                 PROVE  /\ tx # None /\ rollback # None
                        /\ rollback.active = tx.base.active /\ rollback.plan = tx.base.plan
                        /\ Whole(rollback)
                        /\ rollback.plan.schema \in {db, backup[tx.rev]}
    BY <1>1 DEF LayersAreThere, Inv, LayersKept
  <2>2. New /\ tx # None /\ ~Closed /\ tx.saved
    BY <1>1, <2>1 DEF Inv, Transaction, New
  <2>3. rollback = tx.base /\ rollback # None
    BY <1>1, <2>2, Numbers, Members DEF Inv, Transaction
  <2>4. Whole(rollback)
    BY <1>1, <2>2, <2>3 DEF Inv, LayersKept
  <2>5. CASE tx.migrates
    BY <1>1, <2>1, <2>2, <2>3, <2>4, <2>5 DEF Inv, Databases
  <2>6. CASE ~tx.migrates
    <3>1. manifest.plan.schema = tx.base.plan.schema /\ ~Recovery
      BY <1>1, <2>2, <2>6 DEF Inv, Transaction, New, Recovery
    <3> QED BY <1>1, <2>1, <2>2, <2>3, <2>4, <2>6, <3>1 DEF Inv, Databases, Migrating
  <2> QED BY <2>2, <2>3, <2>4, <2>5, <2>6
<1> QED BY <1>1, Invariance, PTL

\* A worker that serves finds the databases with the schema its plugins expect
\* (SchemaFits), after a migration that failed or was killed with the launcher
\* and after a rollback.
THEOREM SchemaStays ==
    ASSUME NoWindow
    PROVE  Spec => []SchemaFits
<1>1. Inv => SchemaFits
  BY DEF Inv, Databases, Migrating, SchemaFits
<1> QED BY <1>1, Invariance, PTL

\* No worker runs beside half switched source, nor new source without the
\* packages it asked the dependency transaction for (SourceHasItsPackages):
\* the two transactions of a round succeed and fail together.
THEOREM PackagesStay ==
    ASSUME NoWindow
    PROVE  Spec => []SourceHasItsPackages
<1>1. Inv => SourceHasItsPackages
  BY DEF Inv, Sources, Packages, Needs, Undoing, SourceHasItsPackages
<1> QED BY <1>1, Invariance, PTL

\* What archive_settled recorded is never contradicted by the manifest
\* (VerdictsStand): a revision archived as failed does not come back, one
\* archived as committed is not lost.
THEOREM VerdictsHold ==
    ASSUME NoWindow
    PROVE  Spec => []VerdictsStand
<1>1. Inv => VerdictsStand
  BY VerdictNow DEF Inv, Verdict, VerdictsStand
<1> QED BY <1>1, Invariance, PTL

\* A worker that serves has nothing on trial (TrialIsSeen): the launcher
\* verifies whatever the manifest says is on trial, also what a round before a
\* crash has applied.
THEOREM TrialsAreSeen ==
    ASSUME NoWindow
    PROVE  Spec => []TrialIsSeen
<1>1. ASSUME Inv PROVE TrialIsSeen
  <2>1. SUFFICES ASSUME phase = "run", pc = "idle", ~Recovery
                 PROVE  ~manifest.trial /\ ~StateIs({"verification_pending"})
    BY DEF TrialIsSeen
  <2>2. ~manifest.trial
    BY <1>1, <2>1 DEF Inv, Procedure
  <2>3. ASSUME StateIs({"verification_pending"}) PROVE FALSE
    <3>1. tx # None /\ tx.state = "verification_pending" /\ ~Verified(tx)
      BY <1>1, <2>3, PendingIs DEF Inv, StateIs, Pending
    <3>2. New
      BY <1>1, <2>1, <3>1 DEF Inv, Transaction, Switching
    <3> QED BY <1>1, <2>2, <3>1, <3>2 DEF Inv, Transaction, Verified
  <2> QED BY <2>2, <2>3
<1> QED BY <1>1, Invariance, PTL

=============================================================================
