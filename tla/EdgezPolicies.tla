---------------------------- MODULE EdgezPolicies ----------------------------
(***************************************************************************)
(* The inline policies of the EdgeZ mesh: the hold on scans                *)
(* (edgez_scan_policy.h), the one scan at a time (edgez_scan_request.h),   *)
(* the attempts to forward a frame (edgez_forward_policy.h) and the        *)
(* recovery of unknown peers (edgez_mesh_recovery_policy.h).  Ticks wrap   *)
(* round: they are compared by the sign of their difference.               *)
(***************************************************************************)
EXTENDS Integers, FiniteSetsExt

CONSTANTS
  Wrap,       (* 2^32, or a smaller even number                            *)
  Durations,  (* of holds                                                  *)
  Cooldown,   (* cooldown_ms                                               *)
  Callers,    (* calls that defer or submit scans, each one at a time      *)
  Peers,      (* transmitters of frames                                    *)
  Capacity    (* peer_capacity                                             *)

(* A hold ends less than INT32_MAX ticks ahead, as edgez_scan_policy.h     *)
(* asks; a cooldown is positive as a signed number.                        *)
ASSUME WrapAssumption ==
  /\ Wrap \in Nat /\ Wrap > 2 /\ Wrap % 2 = 0
  /\ Durations \subseteq 0..(Wrap \div 2 - 2) /\ Cooldown \in 1..(Wrap \div 2 - 1)
  /\ Capacity \in Nat \ {0} /\ "none" \notin Peers

VARIABLES
  now,        (* the tick counter                                          *)
  deadline,   (* of the hold                                               *)
  defer,      (* per caller, a deferral in progress: [at, now, current,    *)
              (* proposed]                                                 *)
  ends,       (* history: per caller, ticks until the hold it was granted  *)
              (* ends; 0 when a swap by a stale clock has cut it short     *)
  lapsed,     (* history: the deadline is half the range back, or was      *)
  busy,       (* of the scan request                                       *)
  submit,     (* per caller: idle, enqueue, taken, refused, late           *)
  queued,     (* callers whose scan has been queued and is not over        *)
  uncovered,  (* history: callers whose scan busy does not stand for, as   *)
              (* it was cleared for another's                              *)
  fwd,        (* a frame: [attempt, status, attempts, retries, delivered]  *)
  peers,      (* the slots: [addr, retry_after, valid]                     *)
  cooling,    (* history: per peer, ticks until it may be recovered again  *)
  aged        (* history: slots whose tick is half the range back, or was  *)

holdVars == <<deadline, defer, ends, lapsed>>
requestVars == <<busy, submit, queued, uncovered>>
recoveryVars == <<peers, cooling, aged>>
policyVars == <<now, holdVars, requestVars, fwd, recoveryVars>>

Half == Wrap \div 2

(* (int32_t)(a - b)                                                        *)
Signed(d) == LET m == d % Wrap IN IF m >= Half THEN m - Wrap ELSE m

(* Ticks from now to a tick.                                               *)
To(tick) == Signed(tick - now)

Larger(a, b) == IF a >= b THEN a ELSE b

Slots == 1..Capacity

Idle == [at |-> "idle", now |-> 0, current |-> 0, proposed |-> 0]

PolicyInit ==
  /\ now = 0 /\ deadline = 0 /\ lapsed = FALSE
  /\ defer = [c \in Callers |-> Idle] /\ ends = [c \in Callers |-> 0]
  /\ busy = FALSE /\ submit = [c \in Callers |-> "idle"] /\ queued = {} /\ uncovered = {}
  /\ fwd = [attempt |-> 0, status |-> "none", attempts |-> 0, retries |-> 0, delivered |-> 0]
  /\ peers = [i \in Slots |-> [addr |-> "none", retry_after |-> 0, valid |-> FALSE]]
  /\ cooling = [p \in Peers |-> 0] /\ aged = {}

Decrement(f) == [x \in DOMAIN f |-> IF f[x] > 0 THEN f[x] - 1 ELSE 0]

(* Time runs freely, round and round, past deadlines that nobody renews    *)
(* and peers that nobody hears of.  The one bound: a call of               *)
(* edgez_scan_defer lasts less than half the range, 24 days.               *)
Tick ==
  /\ \A c \in Callers : defer[c].at # "idle" => To(defer[c].now) > 1 - Half
  /\ now' = (now + 1) % Wrap
  /\ ends' = Decrement(ends) /\ cooling' = Decrement(cooling)
  /\ lapsed' = (lapsed \/ To(deadline) = -Half)
  /\ aged' = aged \union {i \in Slots : peers[i].valid /\ To(peers[i].retry_after) = 1 - Half}
  /\ UNCHANGED <<deadline, defer, requestVars, fwd, peers>>

(***************************************************************************)
(* edgez_scan_defer: the caller's clock is read before, the rest is a loop *)
(* around a compare-and-swap that may fail for no reason.  Its condition   *)
(* reads no shared state and is tested along with the look that precedes.  *)
(***************************************************************************)
OnlyScan == UNCHANGED <<now, requestVars, fwd, recoveryVars>>

DeferStart(c, duration) ==
  /\ defer[c].at = "idle"
  /\ defer' = [defer EXCEPT ![c] = [at |-> "load", now |-> now, current |-> 0,
                                    proposed |-> (now + duration) % Wrap]]
  /\ UNCHANGED <<deadline, ends, lapsed>> /\ OnlyScan

Later(d) == Signed(d.current - d.now) <= 0 \/ Signed(d.proposed - d.current) > 0

(* The call returns: its hold is granted, the others' are what is left.    *)
Granted(c, left) ==
  /\ ends' = [left EXCEPT ![c] = Larger(@, To(defer[c].proposed))]
  /\ defer' = [defer EXCEPT ![c] = Idle]

(* The deadline is looked at, by the load or by a swap that fails.         *)
DeferLook(c) ==
  LET d == [defer[c] EXCEPT !.at = "try", !.current = deadline] IN
  /\ \/ Later(d) /\ defer' = [defer EXCEPT ![c] = d] /\ UNCHANGED ends
     \/ ~Later(d) /\ Granted(c, ends)
  /\ UNCHANGED <<deadline, lapsed>>

DeferLoad(c) == defer[c].at = "load" /\ DeferLook(c) /\ OnlyScan

(* The deadline swapped out is half the range or more ahead of the clock   *)
(* that the caller has read, and compares as one that has passed.          *)
Stale(c) == To(deadline) - To(defer[c].now) >= Half

LeftBy(c) ==
  [b \in Callers |-> IF Stale(c) /\ ends[b] > To(defer[c].proposed) THEN 0 ELSE ends[b]]

DeferSwap(c) ==
  /\ deadline' = defer[c].proposed /\ lapsed' = FALSE
  /\ Granted(c, LeftBy(c))

(* Mutant: the deadline is stored, not swapped.                            *)
DeferStore(c) ==
  defer[c].at = "try" /\ (DeferSwap(c) \/ DeferLook(c)) /\ OnlyScan

DeferTry(c) ==
  /\ defer[c].at = "try"
  /\ \/ deadline = defer[c].current /\ DeferSwap(c)
     \/ DeferLook(c)
  /\ OnlyScan

ScanHeld(authorized_peers) == authorized_peers # 0 \/ Signed(deadline - now) > 0

(***************************************************************************)
(* edgez_scan_submit.  Completion and abort clear busy of a scan that has  *)
(* been queued, possibly before the call that queued it has returned; an   *)
(* enqueue whose scan has been aborted may still fail, and clears busy     *)
(* once more.  A caller submits again when its scan is over.               *)
(***************************************************************************)
OnlySubmit == UNCHANGED <<now, holdVars, fwd, recoveryVars>>

SubmitStep(c, from, to) == submit[c] = from /\ submit' = [submit EXCEPT ![c] = to]

(* Callers that have a scan, queued or being queued.                       *)
Active == queued \union {c \in Callers : submit[c] \in {"enqueue", "refused"}}

Clear(c) ==
  /\ busy' = FALSE
  /\ uncovered' = IF c \in Active \ uncovered THEN uncovered
                  ELSE (uncovered \union Active) \ {c}

(* Mutant: busy is set whatever it was.                                    *)
SubmitUnasked(c) ==
  /\ SubmitStep(c, "idle", "enqueue") /\ c \notin queued /\ busy' = TRUE
  /\ UNCHANGED <<queued, uncovered>> /\ OnlySubmit

Submit(c) ==
  /\ ~busy /\ busy' = TRUE
  /\ SubmitStep(c, "idle", "enqueue") /\ c \notin queued
  /\ UNCHANGED <<queued, uncovered>> /\ OnlySubmit

Enqueue(c) ==
  /\ \/ SubmitStep(c, "enqueue", "taken") /\ queued' = queued \union {c}
     \/ SubmitStep(c, "enqueue", "refused") /\ UNCHANGED queued
  /\ UNCHANGED <<busy, uncovered>> /\ OnlySubmit

Completion(c) ==
  /\ c \in queued /\ queued' = queued \ {c} /\ Clear(c)
  /\ UNCHANGED submit /\ OnlySubmit

EnqueueReturns(c) ==
  /\ \/ SubmitStep(c, "taken", "idle")
     \/ SubmitStep(c, "taken", "late") /\ c \notin queued
  /\ UNCHANGED <<busy, queued, uncovered>> /\ OnlySubmit

Refused(c) ==
  /\ SubmitStep(c, "refused", "idle") \/ SubmitStep(c, "late", "idle")
  /\ Clear(c)
  /\ UNCHANGED queued /\ OnlySubmit

(***************************************************************************)
(* edgez_forward_run, one attempt at a time                                *)
(***************************************************************************)
OnlyForward ==
  UNCHANGED <<now, deadline, defer, ends, lapsed, busy, submit, queued, uncovered,
              peers, cooling, aged>>

ForwardStart ==
  /\ fwd.status # "running"
  /\ fwd' = [attempt |-> 0, status |-> "running", attempts |-> 0, retries |-> 0, delivered |-> 0]
  /\ OnlyForward

Attempt ==
  /\ fwd.status = "running"
  /\ \/ fwd' = [fwd EXCEPT !.status = "UNAUTHORIZED"]
     \/ \E status \in {"OK", "FAILED", "RETRY"} :
          fwd' = [fwd EXCEPT
                    !.attempts = @ + 1, !.attempt = @ + 1,
                    !.delivered = IF status = "OK" THEN @ + 1 ELSE @,
                    !.retries = IF status = "RETRY" /\ fwd.attempt # 2 THEN @ + 1 ELSE @,
                    !.status = IF status = "RETRY" /\ fwd.attempt # 2 THEN "running" ELSE status]
  /\ OnlyForward

(***************************************************************************)
(* edgez_mesh_should_recover_unknown_peer.  Slots are filled in order, so  *)
(* that no valid one follows one that is not.  Frames that are not         *)
(* protected data frames of a mesh peer change nothing.                    *)
(***************************************************************************)
OnlyRecovery == UNCHANGED <<now, holdVars, requestVars, fwd>>

Known(p) == {i \in Slots : peers[i].valid /\ peers[i].addr = p}
Free == {i \in Slots : ~peers[i].valid}

Refuses(i) == Signed(now - peers[i].retry_after) < 0

(* The loop's slot: each slot is compared with the one chosen so far.      *)
Oldest ==
  LET slot[i \in Slots] ==
        IF i > 1 /\ Signed(peers[i].retry_after - peers[slot[i - 1]].retry_after) >= 0
          THEN slot[i - 1] ELSE i
  IN slot[Capacity]

SlotFor(p) == IF Known(p) # {} THEN Min(Known(p)) ELSE IF Free # {} THEN Min(Free) ELSE Oldest

Recover(p) ==
  LET slot == SlotFor(p) IN
  /\ \A i \in Known(p) : ~Refuses(i)
  /\ peers' = [peers EXCEPT ![slot] =
                 [addr |-> p, retry_after |-> (now + Cooldown) % Wrap, valid |-> TRUE]]
  /\ cooling' = [q \in Peers |-> IF q = p THEN Cooldown
                                ELSE IF q = peers[slot].addr THEN 0 ELSE cooling[q]]
  /\ aged' = aged \ {slot}
  /\ OnlyRecovery

HoldNext ==
  \/ Tick
  \/ \E c \in Callers :
       \/ \E d \in Durations : DeferStart(c, d)
       \/ DeferLoad(c) \/ DeferTry(c)

RequestNext ==
  \E c \in Callers :
    Submit(c) \/ Enqueue(c) \/ EnqueueReturns(c) \/ Refused(c) \/ Completion(c)

ForwardNext == ForwardStart \/ Attempt

RecoveryNext == Tick \/ \E p \in Peers : Recover(p)

PolicySpec ==
  PolicyInit /\ [][HoldNext \/ RequestNext \/ ForwardNext \/ RecoveryNext]_policyVars

(***************************************************************************)
(* A hold that edgez_scan_defer has granted holds until its end, however   *)
(* many callers defer at once, unless a swap by a clock half the range     *)
(* behind the deadline has cut it short; and none holds that nobody was    *)
(* granted, until the deadline is so old that it seems to lie ahead.       *)
(***************************************************************************)
HoldKept ==
  /\ \A c \in Callers : ends[c] > 0 => ScanHeld(0)
  /\ ScanHeld(0) /\ ~lapsed => \E c \in Callers : ends[c] >= To(deadline)

(* The comment on edgez_scan_defer: "CAS prevents a shorter concurrent     *)
(* request from overwriting a longer hold" (edgez_scan_policy.h:12).       *)
LongerHoldKept ==
  [][now' = now /\ ScanHeld(0) /\ ~lapsed => To(deadline)' >= To(deadline)]_policyVars

(* busy stands for exactly one scan, queued or being queued; a second one  *)
(* runs only beside one that busy was cleared for by another's failure.    *)
OneScan ==
  IF busy THEN \E c \in Callers : Active \ uncovered = {c} ELSE Active \subseteq uncovered

(* A frame is sent on once at most, in three attempts at most.             *)
ForwardedOnce ==
  /\ fwd.attempts <= 3 /\ (fwd.delivered = IF fwd.status = "OK" THEN 1 ELSE 0)
  /\ fwd.status = "RETRY" => fwd.attempts = 3

(* A peer has one slot.  It is refused while it cools down and has not     *)
(* been evicted, and no longer, unless its tick has aged.                  *)
CooldownKept ==
  /\ \A i, j \in Slots :
       peers[i].valid /\ peers[j].valid /\ peers[i].addr = peers[j].addr => i = j
  /\ \A p \in Peers : cooling[p] > 0 => \E i \in Known(p) : Refuses(i)
  /\ \A p \in Peers : \A i \in Known(p) \ aged : Refuses(i) => cooling[p] > 0

(* What the other policies promise their callers, whatever the             *)
(* interleaving and wherever the tick counter wraps round.                 *)
PoliciesKept == OneScan /\ ForwardedOnce /\ CooldownKept
=============================================================================
