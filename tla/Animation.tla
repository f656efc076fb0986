----------------------------- MODULE Animation -----------------------------
(***************************************************************************)
(* The animations of animation.c: a table of slots that anim_tick advances *)
(* one after the other, calling out after each step, to on_update and then *)
(* to on_complete.  What is called may start and stop animations itself,   *)
(* in the very slot whose step is being taken, so that anim_tick is a      *)
(* state machine here: `phase' says where it is, `at' at which slot.       *)
(*                                                                         *)
(* An animation is its number, in the order of starts; userdata, which the *)
(* callbacks are given, is that number.  Every animation has an on_update; *)
(* one that does nothing stands for NULL.  start and end are left out:     *)
(* `current' is the eased share of the way between them, in parts of which *)
(* ONE(duration) make the whole: the easings are polynomials of degree two *)
(* in elapsed / duration with coefficients in 1 / 64, so that every share  *)
(* is a whole number of those parts, for every duration.  The rounding of  *)
(* the code's floats is left out.                                          *)
(*                                                                         *)
(* Nothing in the repository calls anim_tick: that somebody goes on doing  *)
(* so, and that callbacks return, is the fairness of FairSpec.             *)
(*                                                                         *)
(* Bound: MAX_STARTS animations are ever started.                          *)
(***************************************************************************)
EXTENDS Integers, FiniteSets, FiniteSetsExt

CONSTANTS ANIM_MAX,    \* 64
          WIDTH,       \* values of a uint32_t
          Kinds,       \* the animations that are started: the duration,
                       \* the easing, and whether it has an on_complete
          Deltas,      \* the delta_ms of a tick
          MAX_STARTS

AnimationAssumption == /\ ANIM_MAX \in Nat \ {0}
                       /\ \A k \in Kinds : k.ms \in Nat /\ k.reports \in BOOLEAN
                       /\ Deltas \subseteq Nat \ {0}
                       /\ \A k \in Kinds, d \in Deltas : k.ms + d < WIDTH
                       /\ MAX_STARTS \in Nat

VARIABLES anims,     \* g_anims
          phase,     \* "idle", "loop", "update" or "complete"
          at,        \* the tick's i
          delta,     \* the tick's delta_ms
          started,   \* how many animations have been started
          step,      \* the animation whose step is taken
          ended,     \* those with an on_complete that took their last step
          halted,    \* those stopped in the on_update call of their slot
          replaced,  \* those whose on_update started another in their slot
          reported   \* those on_complete was called for

history == <<started, ended, halted, replaced, reported>>
vars == <<anims, phase, at, delta, step, history>>

Slot == 0 .. ANIM_MAX - 1

Sq(n) == n * n

(* The whole way, of an animation that takes d milliseconds.               *)
ONE(d) == 64 * Sq(d)

Unused == [active |-> FALSE, duration |-> 0, elapsed |-> 0, easing |-> "linear",
           current |-> 0, on_complete |-> FALSE, userdata |-> 0]

anim_init == anims = [i \in Slot |-> Unused]

Init == /\ anim_init
        /\ phase = "idle" /\ at = ANIM_MAX /\ delta = 0 /\ step = 0
        /\ started = 0
        /\ ended = {} /\ halted = {} /\ replaced = {} /\ reported = {}

-----------------------------------------------------------------------------
(* After e of d milliseconds.  2.75 t is 22 e / 8 d, so that the pieces    *)
(* begin at 8, 16 and 20 d of 22 e; 7.5625 t t is 22 e squared, of ONE.    *)
Bounce(e, d) ==
  LET n == 22 * e
  IN  CASE n < 8 * d -> Sq(n)
        [] 8 * d <= n /\ n < 16 * d -> Sq(n - 12 * d) + 48 * Sq(d)
        [] 16 * d <= n /\ n < 20 * d -> Sq(n - 18 * d) + 60 * Sq(d)
        [] n >= 20 * d -> Sq(n - 21 * d) + 63 * Sq(d)

anim_ease(e, d, easing) ==
  CASE easing = "in" -> 64 * Sq(e)
    [] easing = "out" -> ONE(d) - 64 * Sq(d - e)
    [] easing = "in_out" /\ 2 * e < d -> 128 * Sq(e)
    [] easing = "in_out" /\ 2 * e >= d -> ONE(d) - 128 * Sq(d - e)
    [] easing = "bounce" -> Bounce(e, d)
    [] OTHER -> 64 * (e * d)

FirstInactive(i) == ~anims[i].active /\ \A j \in Slot : j < i => anims[j].active

(* With every slot active the call returns -1 and changes nothing.         *)
anim_start(kind) ==
  /\ started < MAX_STARTS
  /\ \E i \in Slot :
       /\ FirstInactive(i)
       /\ anims' = [anims EXCEPT ![i] =
            [active |-> TRUE, duration |-> kind.ms, elapsed |-> 0, easing |-> kind.easing,
             current |-> 0, on_complete |-> kind.reports, userdata |-> started + 1]]
       /\ replaced' = IF phase = "update" /\ i = at THEN replaced \cup {step} ELSE replaced
  /\ started' = started + 1
  /\ UNCHANGED <<phase, at, delta, step, ended, halted, reported>>

(* By the slot's number, whoever has it by now.                            *)
anim_stop(id) ==
  /\ id \in Slot
  /\ anims' = [anims EXCEPT ![id].active = FALSE]
  /\ halted' = IF phase = "update" /\ anims[id].active /\ id = at
               THEN halted \cup {anims[id].userdata} ELSE halted
  /\ UNCHANGED <<phase, at, delta, step, started, ended, replaced, reported>>

(* What an application does outside a tick, and a callback inside one.     *)
Call == /\ phase \in {"idle", "update", "complete"}
        /\ \/ \E kind \in Kinds : anim_start(kind)
           \/ \E id \in Slot : anim_stop(id)

-----------------------------------------------------------------------------
anim_tick(ms) == /\ phase = "idle"
                 /\ phase' = "loop" /\ at' = 0 /\ delta' = ms
                 /\ UNCHANGED <<anims, step, history>>

NextSlot == phase' = "loop" /\ at' = at + 1

Skip == /\ phase = "loop" /\ at < ANIM_MAX
        /\ ~anims[at].active
        /\ NextSlot
        /\ UNCHANGED <<anims, delta, step, history>>

(* Mutant: the time of this tick only.                                     *)
NotAdded(a) == delta % WIDTH

Elapsed(a) == (a.elapsed + delta) % WIDTH

(* t >= 1, of the quotient elapsed / duration, which may be one by zero.   *)
Finished(a) == Elapsed(a) >= a.duration

Time(a) == IF Finished(a) THEN a.duration ELSE Elapsed(a)

Advanced(a) == [a EXCEPT !.elapsed = Elapsed(a),
                         !.active = ~Finished(a),
                         !.current = anim_ease(Time(a), a.duration, a.easing)]

(* A step up to the call of on_update.                                     *)
Advance == /\ phase = "loop" /\ at < ANIM_MAX
           /\ anims[at].active
           /\ anims' = [anims EXCEPT ![at] = Advanced(anims[at])]
           /\ step' = anims[at].userdata
           /\ ended' = IF Finished(anims[at]) /\ anims[at].on_complete
                       THEN ended \cup {anims[at].userdata} ELSE ended
           /\ phase' = "update"
           /\ UNCHANGED <<at, delta, started, halted, replaced, reported>>

(* Mutant: on_complete is called for what was active before on_update.     *)
ReportsAll(a) == a.on_complete

(* The slot is read again after on_update.                                 *)
Reports(a) == ~a.active /\ a.on_complete

(* on_update returns; on_complete is called, or the next slot is taken.    *)
UpdateReturns ==
  /\ phase = "update"
  /\ IF Reports(anims[at])
       THEN phase' = "complete" /\ reported' = reported \cup {anims[at].userdata} /\ UNCHANGED at
       ELSE NextSlot /\ UNCHANGED reported
  /\ UNCHANGED <<anims, delta, step, started, ended, halted, replaced>>

CompleteReturns == phase = "complete" /\ NextSlot /\ UNCHANGED <<anims, delta, step, history>>

TickReturns == /\ phase = "loop" /\ at = ANIM_MAX
               /\ phase' = "idle"
               /\ UNCHANGED <<anims, at, delta, step, history>>

Tick == \/ \E ms \in Deltas : anim_tick(ms)
        \/ Skip \/ Advance \/ UpdateReturns \/ CompleteReturns \/ TickReturns

Next == Call \/ Tick

Spec == Init /\ [][Next]_vars

FairSpec == Spec /\ WF_vars(Tick)

-----------------------------------------------------------------------------
(* on_complete is for the animations that reached their end, and for those *)
(* their own on_update stopped; being stopped from elsewhere is silent.    *)
(* Between ticks every animation that reached its end and has an           *)
(* on_complete was reported, but for one reason: its last on_update        *)
(* started another in its slot.  Who is reported at its end stands exactly *)
(* there, whatever the easing and however far the tick went past it, and   *)
(* no value on the way leaves the way.                                     *)
EndsAreReported ==
  /\ reported \subseteq ended \cup halted
  /\ phase = "idle" => ended \subseteq reported \cup replaced
  /\ phase = "complete" /\ anims[at].userdata \in ended
       => anims[at].current = ONE(anims[at].duration)
  /\ \A i \in Slot : anims[i].current \in 0 .. ONE(anims[i].duration)

(* While ticks go on, every animation comes to its end or is stopped.      *)
EveryAnimationEnds ==
  \A i \in Slot : anims[i].active ~> ~anims[i].active
=============================================================================
