----------------------------- MODULE SideEffects -----------------------------
(* What a command costs the user who gives it: a place among the messages   *)
(* that are handled at once, a use of the plugin's limits, and gold.        *)
(*                                                                          *)
(* An event passes the admission gate of auth_dispatch.handle_event; its    *)
(* matchers then run side by side.  Before a matcher runs, auth() reserves  *)
(* the limits in memory and the gold in the database; after it has run,     *)
(* _unblock_after_matcher commits or rolls back; whatever is still reserved *)
(* when the event ends is rolled back by _release_pending_side_effects.     *)
(* All events here are of one user, all matchers of one plugin: that is     *)
(* where they share limits, gold, and the bookkeeping of their event.       *)
EXTENDS Integers, FiniteSets

CONSTANTS
    Events,     \* messages of the user
    Matchers,   \* matchers of the plugin, each in one event
    EventOf,    \* the event of a matcher
    Passive,    \* events that hold a place in the admission gate
    Slots,      \* EVENT_ADMISSION_LIMIT
    Price,      \* cost_gold of the plugin
    Gold,       \* what the user has at first
    MaxCount,   \* max_count of the plugin's daily limit
    HasBlock,   \* whether the plugin has a block limit
    Faults,     \* what may go wrong, see Outcomes, MayBeOld and Abandoned
    MaxDay,     \* bound on the day
    None

ASSUME SideEffectsAssumption ==
    /\ IsFiniteSet(Events) /\ IsFiniteSet(Matchers)
    /\ EventOf \in [Matchers -> Events]
    /\ Passive \subseteq Events
    /\ Slots \in Nat \ {0} /\ Price \in Nat \ {0} /\ Gold \in Nat
    /\ MaxCount \in Nat \ {0} /\ MaxDay \in Nat
    /\ HasBlock \in BOOLEAN
    /\ None \notin Matchers

VARIABLES
    event,    \* [Events -> ...] how far an event is
    slot,     \* [Events -> ...] its place: none, held, given back
    free,     \* value of the semaphore
    pc,       \* [Matchers -> ...] how far a matcher is
    lock,     \* [Events -> ...] holder of module_locks[module]
    owner,    \* [Events -> ...] owner of commits[module]
    settled,  \* [Events -> BOOLEAN] module \in settled
    denied,   \* [Events -> BOOLEAN] auth_results[module] is a refusal
    kept,     \* [Matchers -> ...] the matcher's SideEffectCommit
    limiter,  \* the limiters of the plugin: count, today, blocked
    gold,     \* UserConsole.gold
    fee,      \* [Matchers -> ...] AssetOperation.state
    ran,      \* [Matchers -> ...] how its handler ended (history)
    overtaken,  \* cut short, and another call was let in since (history)
    day

vars == <<event, slot, free, pc, lock, owner, settled, denied, kept, limiter,
          gold, fee, ran, overtaken, day>>

gate == <<slot, free>>
auths == <<lock, owner, settled, denied>>
money == <<gold, fee>>

States == {"none", "reserved", "committed", "released"}
NoCommit == [gold |-> "none", limit |-> "none", old |-> 0, day |-> 0]

Init ==
    /\ event = [e \in Events |-> "new"] /\ slot = [e \in Events |-> "none"]
    /\ free = Slots
    /\ pc = [m \in Matchers |-> "new"]
    /\ lock = [e \in Events |-> None] /\ owner = [e \in Events |-> None]
    /\ settled = [e \in Events |-> FALSE] /\ denied = [e \in Events |-> FALSE]
    /\ kept = [m \in Matchers |-> NoCommit]
    /\ limiter = [count |-> 0, today |-> 0, blocked |-> FALSE]
    /\ gold = Gold /\ fee = [m \in Matchers |-> "none"]
    /\ ran = [m \in Matchers |-> "no"] /\ overtaken = {} /\ day = 0

-----------------------------------------------------------------------------
(* The admission gate.                                                     *)

\* The message asks for a place; commands and other events need none.
Arrive(e) ==
    /\ event[e] = "new"
    /\ event' = [event EXCEPT ![e] = IF e \in Passive THEN "waiting" ELSE "open"]
    /\ UNCHANGED <<gate, pc, auths, kept, limiter, money, ran, overtaken, day>>

Admit(e) ==
    /\ event[e] = "waiting" /\ free > 0
    /\ event' = [event EXCEPT ![e] = "open"]
    /\ slot' = [slot EXCEPT ![e] = "held"] /\ free' = free - 1
    /\ UNCHANGED <<pc, auths, kept, limiter, money, ran, overtaken, day>>

\* release(): only the first call gives the place back.
GiveBack(e) ==
    /\ slot' = [slot EXCEPT ![e] = IF @ = "held" THEN "given" ELSE @]
    /\ free' = IF slot[e] = "held" THEN free + 1 ELSE free

\* Slip: the place is held until the handlers have ended.
SlotStays(e) ==
    /\ slot[e] = "held" /\ event[e] = "closed"
    /\ GiveBack(e)
    /\ UNCHANGED <<event, pc, auths, kept, limiter, money, ran, overtaken, day>>

\* call_later(EVENT_ADMISSION_SECONDS, release)
SlotTimeout(e) ==
    /\ slot[e] = "held"
    /\ GiveBack(e)
    /\ UNCHANGED <<event, pc, auths, kept, limiter, money, ran, overtaken, day>>

-----------------------------------------------------------------------------
(* The limits.                                                             *)

\* Slip: the day is not noted.
CheckedUndated(old) ==
    [limiter EXCEPT !.count = IF limiter.today = day THEN @ ELSE 0,
                    !.blocked = @ /\ ~old]

\* The limiters as their check() leaves them: a new day clears the count, a
\* block of more than 30 seconds is no block.
Checked(old) ==
    [limiter EXCEPT !.count = IF limiter.today = day THEN @ ELSE 0,
                    !.today = day,
                    !.blocked = @ /\ ~old]

MayPass(l) == ~l.blocked /\ l.count < MaxCount

\* Slip: the block ends whoever set it.
AfterRefusalUnblocked(l) == [l EXCEPT !.blocked = FALSE]

\* LimitManager.reserve, refused half way: its own releases, so the block of
\* somebody else stays.
AfterRefusal(l) == l

Taken(l) == [l EXCEPT !.blocked = HasBlock, !.count = @ + 1]

\* A handler may run for more than 30 seconds.
MayBeOld == IF <<"handler", "slow">> \in Faults THEN BOOLEAN ELSE {FALSE}

\* LimitReservation.release puts back what the reservation found.
Restored(l, c) ==
    IF c.limit = "reserved" THEN [l EXCEPT !.count = c.old, !.blocked = FALSE] ELSE l

\* LimitManager.unblock, at the end of every finish().
Unblocked(l) == [l EXCEPT !.blocked = FALSE]

NewDay ==
    /\ day < MaxDay /\ day' = day + 1
    /\ UNCHANGED <<event, gate, pc, auths, kept, limiter, money, ran, overtaken>>

-----------------------------------------------------------------------------
(* auth(): under the event's lock of the module.                           *)

\* What a transaction on the account may come to: done, not done, or done
\* without the caller learning of it (the timeout of asset_call).
Outcomes(op) ==
    {"ok"} \cup {o \in {"failed", "lost"} : <<op, o>> \in Faults}

Lock(e, m) == lock' = [lock EXCEPT ![e] = m]
Goto(m, p) == pc' = [pc EXCEPT ![m] = p]

\* A refusal is remembered for the other matchers of the event, until the
\* revision of the caches changes; where the module has a reservation or has
\* paid, the matcher runs on that.
Covered(e) == owner[e] # None \/ settled[e]

Auth(m) ==
    LET e == EventOf[m] IN
    /\ event[e] = "open" /\ pc[m] = "new" /\ lock[e] = None
    /\ \/ denied[e] /\ Goto(m, "done") /\ UNCHANGED <<lock, denied>>
       \/ /\ denied' = [denied EXCEPT ![e] = FALSE]
          /\ IF Covered(e)
               THEN Goto(m, "run") /\ UNCHANGED lock
               ELSE Goto(m, "limit") /\ Lock(e, m)
    /\ UNCHANGED <<event, gate, owner, settled, kept, limiter, money, ran, overtaken, day>>

\* SkipPluginException: what is reserved goes back, the refusal is kept.
Refused(m) ==
    LET e == EventOf[m] IN
    /\ denied' = [denied EXCEPT ![e] = TRUE]
    /\ Lock(e, None) /\ Goto(m, "done")

LimitTaken(m, l) ==
    /\ MayPass(l)
    /\ limiter' = Taken(l)
    /\ kept' = [kept EXCEPT ![m] = [NoCommit EXCEPT
                    !.limit = "reserved", !.old = l.count, !.day = day]]
    /\ overtaken' = overtaken \cup {n \in Matchers : pc[n] = "cut"}
    /\ Goto(m, "gold") /\ UNCHANGED <<lock, denied>>

LimitRefused(m, l) ==
    /\ ~MayPass(l)
    /\ limiter' = AfterRefusal(l)
    /\ Refused(m) /\ UNCHANGED <<kept, overtaken>>

ReserveLimit(m) ==
    /\ pc[m] = "limit"
    /\ \E old \in MayBeOld :
         LimitTaken(m, Checked(old)) \/ LimitRefused(m, Checked(old))
    /\ UNCHANGED <<event, gate, owner, settled, money, ran, day>>

\* The permissions forbid it, before anything is reserved.
PolicyDenies(m) ==
    /\ pc[m] = "limit"
    /\ Refused(m)
    /\ UNCHANGED <<event, gate, owner, settled, kept, limiter, money, ran, overtaken, day>>

Withdraw(m) == gold' = gold - Price /\ fee' = [fee EXCEPT ![m] = "reserved"]

\* rollback_all of auth(): the limits only, there is no gold to give back.
AuthRollback(m) ==
    /\ limiter' = Restored(limiter, kept[m])
    /\ kept' = [kept EXCEPT ![m].limit = "released"]

GoldTaken(m) ==
    LET e == EventOf[m] IN
    /\ gold >= Price /\ Withdraw(m)
    /\ kept' = [kept EXCEPT ![m].gold = "reserved"]
    /\ owner' = [owner EXCEPT ![e] = m]
    /\ Lock(e, None) /\ Goto(m, "run") /\ UNCHANGED <<limiter, denied>>

GoldShort(m) ==
    /\ gold < Price
    /\ AuthRollback(m) /\ Refused(m) /\ UNCHANGED <<money, owner>>

GoldFails(m, o) ==
    /\ IF o = "lost" /\ gold >= Price THEN Withdraw(m) ELSE UNCHANGED money
    /\ AuthRollback(m) /\ Lock(EventOf[m], None) /\ Goto(m, "done")
    /\ UNCHANGED <<owner, denied>>

ReserveGold(m) ==
    /\ pc[m] = "gold"
    /\ \/ GoldTaken(m)
       \/ GoldShort(m)
       \/ \E o \in Outcomes("reserve") \ {"ok"} : GoldFails(m, o)
    /\ UNCHANGED <<event, gate, settled, ran, overtaken, day>>

-----------------------------------------------------------------------------
(* The end of a matcher.                                                   *)

\* Slip: what a failed handler used is paid.
EndRunPaid(m) ==
    /\ pc[m] = "run"
    /\ \E how \in {"ok", "error"} :
         /\ ran' = [ran EXCEPT ![m] = how]
         /\ Goto(m, IF owner[EventOf[m]] # m THEN "done" ELSE "commit")
    /\ UNCHANGED <<event, gate, auths, kept, limiter, money, overtaken, day>>

\* The handler returns or raises; only the owner of the reservation settles.
EndRun(m) ==
    /\ pc[m] = "run"
    /\ \E how \in {"ok", "error"} :
         /\ ran' = [ran EXCEPT ![m] = how]
         /\ Goto(m, IF owner[EventOf[m]] # m THEN "done"
                    ELSE IF how = "ok" THEN "commit" ELSE "rollback")
    /\ UNCHANGED <<event, gate, auths, kept, limiter, money, overtaken, day>>

\* The matcher is cancelled, or another preprocessor refuses it after auth():
\* no postprocessor runs.  A withdrawal under way may happen all the same.
Abandoned(m) ==
    LET e == EventOf[m] IN
    /\ <<"matcher", "cancelled">> \in Faults
    /\ pc[m] \in {"limit", "gold", "run"}
    /\ Goto(m, "done")
    /\ lock' = [lock EXCEPT ![e] = IF @ = m THEN None ELSE @]
    /\ \/ UNCHANGED money
       \/ /\ pc[m] = "gold" /\ gold >= Price
          /\ "lost" \in Outcomes("reserve")
          /\ Withdraw(m)
    /\ UNCHANGED <<event, gate, owner, settled, denied, kept, limiter, ran, overtaken, day>>

\* Slip: the refund does not look at the state of the record.
DecideBlindly(m, action) ==
    /\ fee' = [fee EXCEPT ![m] = IF @ = "reserved" THEN action ELSE @]
    /\ gold' = IF action = "released" THEN gold + Price ELSE gold

\* GoldReservation._finish: decides the fee if it is still open.
Decide(m, action) ==
    /\ fee' = [fee EXCEPT ![m] = IF @ = "reserved" THEN action ELSE @]
    /\ gold' = IF fee[m] = "reserved" /\ action = "released"
                 THEN gold + Price ELSE gold

Disown(e) == owner' = [owner EXCEPT ![e] = None]

CommitDone(m) ==
    LET e == EventOf[m] IN
    /\ Decide(m, "committed")
    /\ kept' = [kept EXCEPT ![m].gold = "committed", ![m].limit = "committed"]
    /\ limiter' = Unblocked(limiter)
    /\ settled' = [settled EXCEPT ![e] = TRUE]
    /\ Disown(e) /\ Goto(m, "done")

CommitFails(m, o) ==
    /\ IF o = "failed" THEN UNCHANGED money ELSE Decide(m, "committed")
    /\ Goto(m, "rollback") /\ UNCHANGED <<kept, limiter, settled, owner>>

\* finish(commit=True): the gold, then the limits, which cannot fail.
Commit(m) ==
    /\ pc[m] = "commit"
    /\ \/ CommitDone(m)
       \/ \E o \in Outcomes("commit") \ {"ok"} : CommitFails(m, o)
    /\ UNCHANGED <<event, gate, lock, denied, ran, overtaken, day>>

\* rollback_all: gold that cannot be given back stays reserved, the limits go
\* back all the same; the block ends whatever happened.
RollbackWith(m, o) ==
    /\ IF o = "failed" \/ kept[m].gold # "reserved" THEN UNCHANGED money
       ELSE Decide(m, "released")
    /\ kept' = [kept EXCEPT
         ![m].gold = IF @ = "reserved" /\ o = "ok" THEN "released" ELSE @,
         ![m].limit = IF @ = "reserved" THEN "released" ELSE @]
    /\ limiter' = Unblocked(Restored(limiter, kept[m]))

RollbackAll(m) == \E o \in Outcomes("release") : RollbackWith(m, o)

Rollback(m) ==
    /\ pc[m] = "rollback"
    /\ \E o \in Outcomes("release") :
         RollbackWith(m, o) /\ Goto(m, IF o = "ok" THEN "done" ELSE "cut")
    /\ Disown(EventOf[m])
    /\ UNCHANGED <<event, gate, lock, settled, denied, ran, overtaken, day>>

\* Cancelled while the commit awaits the gold: that may be decided or not,
\* nothing is rolled back, the block ends all the same and the reservations
\* stay.
CommitCut(m) ==
    /\ pc[m] = "commit"
    /\ UNCHANGED money \/ Decide(m, "committed")
    /\ limiter' = Unblocked(limiter) /\ UNCHANGED kept

\* Cancelled while the rollback awaits the gold, after the limits.
RollbackCut(m) ==
    /\ pc[m] = "rollback"
    /\ \E o \in {"failed", "lost"} : RollbackWith(m, o)

\* finish() is cancelled: CancelledError is no Exception, and its finally and
\* that of _unblock_after_matcher run.
FinishCut(m) ==
    /\ <<"matcher", "cancelled">> \in Faults
    /\ CommitCut(m) \/ RollbackCut(m)
    /\ Disown(EventOf[m]) /\ Goto(m, "cut")
    /\ UNCHANGED <<event, gate, lock, settled, denied, ran, overtaken, day>>

-----------------------------------------------------------------------------
(* The end of an event.                                                    *)

\* A matcher that was cut short is one whose finish() left something reserved.
Ended(m) == pc[m] \in {"done", "cut"}

MatchersOf(e) == {m \in Matchers : EventOf[m] = e}
Pending(m) == kept[m].gold = "reserved" \/ kept[m].limit = "reserved"

\* The matchers that were selected have ended.
EndMatchers(e) ==
    /\ event[e] = "open"
    /\ \A m \in MatchersOf(e) : pc[m] = "new" \/ Ended(m)
    /\ event' = [event EXCEPT ![e] = "ending"]
    /\ UNCHANGED <<gate, pc, auths, kept, limiter, money, ran, overtaken, day>>

\* _release_pending_side_effects: one attempt for every commit.
EndRelease(m) ==
    /\ event[EventOf[m]] = "ending" /\ Ended(m) /\ Pending(m)
    /\ RollbackAll(m) /\ Goto(m, "ended")
    /\ UNCHANGED <<event, gate, auths, ran, overtaken, day>>

\* Slip: nothing is rolled back.
EndEventAtOnce(e) ==
    /\ event[e] = "ending"
    /\ event' = [event EXCEPT ![e] = "closed"]
    /\ GiveBack(e)
    /\ UNCHANGED <<pc, auths, kept, limiter, money, ran, overtaken, day>>

EndEvent(e) ==
    /\ event[e] = "ending"
    /\ \A m \in MatchersOf(e) : Ended(m) => ~Pending(m)
    /\ event' = [event EXCEPT ![e] = "closed"]
    /\ GiveBack(e)
    /\ UNCHANGED <<pc, auths, kept, limiter, money, ran, overtaken, day>>

Next ==
    \/ \E e \in Events : Arrive(e) \/ Admit(e) \/ SlotTimeout(e)
                         \/ EndMatchers(e) \/ EndEvent(e)
    \/ \E m \in Matchers : Auth(m) \/ PolicyDenies(m) \/ ReserveLimit(m)
                           \/ ReserveGold(m) \/ EndRun(m) \/ Abandoned(m)
                           \/ Commit(m) \/ Rollback(m) \/ FinishCut(m)
                           \/ EndRelease(m)
    \/ NewDay

Spec == Init /\ [][Next]_vars

\* The event loop wakes who waits for a place and runs its timers; that
\* handlers, transactions or events end is not assumed.
FairSpec ==
    /\ Spec
    /\ \A e \in Events : WF_vars(Admit(e)) /\ WF_vars(SlotTimeout(e))

-----------------------------------------------------------------------------
Steps == {"new", "limit", "gold", "run", "commit", "rollback", "done", "cut",
          "ended"}
Commits == [gold : States, limit : States, old : Nat, day : Nat]
Limiters == [count : Nat, today : Nat, blocked : BOOLEAN]

TypeOK ==
    /\ event \in [Events -> {"new", "waiting", "open", "ending", "closed"}]
    /\ slot \in [Events -> {"none", "held", "given"}]
    /\ free \in Nat
    /\ pc \in [Matchers -> Steps]
    /\ lock \in [Events -> Matchers \cup {None}]
    /\ owner \in [Events -> Matchers \cup {None}]
    /\ settled \in [Events -> BOOLEAN] /\ denied \in [Events -> BOOLEAN]
    /\ kept \in [Matchers -> Commits]
    /\ limiter \in Limiters
    /\ gold \in Nat
    /\ fee \in [Matchers -> States]
    /\ ran \in [Matchers -> {"no", "ok", "error"}]
    /\ overtaken \subseteq Matchers
    /\ day \in Nat

\* The account and the fees agree: nothing is charged or given back twice,
\* however a commit or a refund whose answer was lost is repeated
\* (GoldReservation._finish).
GoldConserved ==
    gold + Price * Cardinality({m \in Matchers : fee[m] \in {"reserved", "committed"}})
      = Gold

\* "Already reserved or committed in this event: not reserved again" (auth):
\* one event pays a plugin once, however many of its matchers run.
OneChargePerEvent ==
    \A e \in Events :
      Cardinality({m \in MatchersOf(e) : fee[m] \in {"reserved", "committed"}}) <= 1

\* What a call that was cut short has reserved is put back at the end of its
\* event over the call let in since: the late release of finish().
LateRelease == \E m \in overtaken : pc[m] = "ended"

\* The block limit: the user has one call of the plugin under way, whichever
\* of its reservations were rolled back, abandoned, cut short or repeated
\* before, until a late release lifts the block of a later call.
OneAtATime ==
    HasBlock /\ ~LateRelease =>
      Cardinality({m \in Matchers : kept[m].limit = "reserved"} \ overtaken) <= 1

\* CountLimiter: no more calls in a day than the limit allows, those under way
\* and those cut short included, until a late release puts the count back to
\* what it was before a later call.
CountWithinLimit ==
    ~LateRelease => \A d \in 0..MaxDay :
      Cardinality({m \in Matchers : /\ kept[m].limit \in {"reserved", "committed"}
                                    /\ kept[m].day = d}) <= MaxCount

\* An event leaves no reservation behind, neither in memory nor in the database,
\* and who has paid has been served (_release_pending_side_effects,
\* _unblock_after_matcher).
NothingLeftBehind ==
    \A m \in Matchers : event[EventOf[m]] = "closed" =>
        /\ kept[m].limit # "reserved" /\ fee[m] # "reserved"
        /\ fee[m] = "committed" => ran[m] = "ok"

\* The gate's places are neither lost nor multiplied (_admit_event).
PlacesAgree == free + Cardinality({e \in Events : slot[e] = "held"}) = Slots

\* A message gets its turn although handlers before it may hang.
MessagesAdmitted == \A e \in Events : event[e] = "waiting" ~> event[e] = "open"
=============================================================================
