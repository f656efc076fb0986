------------------------------- MODULE MCLive -------------------------------
(* What must eventually happen, in the four parts that promise it, side by *)
(* side: `part' says which of them a behaviour is about.                   *)
(*                                                                         *)
(* scheduler  two processes, one of higher priority, and three slots       *)
(* keyboard   a ring of three cells, two keys held at once, of every       *)
(*            modifier, a key with a character and one without             *)
(* timer      a low half of three values, so that it carries during        *)
(*            sleeps, and sleeps of none, of one, of some ticks and of a   *)
(*            product that wraps                                           *)
(* animation  two slots and animations of the code's 200 and 250 ms, that  *)
(*            take some ticks, and one over after a tick; of four easings, *)
(*            with and without an on_complete                              *)
EXTENDS Keyboard, TLC

CONSTANTS HALF, HZ, WIDTH, Ms, MAX_TICKS,
          p1, p2, NULL, QSIZE, TIME_SLICE,
          ANIM_MAX, Kinds, Deltas, MAX_STARTS

VARIABLES part,
          lo, hi, sleeper, loaded, end, need, asked, start, torn, late,
          mode, queue, qhead, qtail, count, current, state, slice,
          anims, phase, at, delta, started, step, ended, halted, replaced, reported

MCKinds == {[ms |-> 0, easing |-> "out", reports |-> TRUE],
            [ms |-> 200, easing |-> "in_out", reports |-> TRUE],
            [ms |-> 200, easing |-> "in", reports |-> FALSE],
            [ms |-> 250, easing |-> "bounce", reports |-> TRUE]}

T == INSTANCE Timer WITH pc <- sleeper, part <- loaded

P == INSTANCE Scheduler WITH Proc <- {p1, p2}, Priority <- p1 :> 5 @@ p2 :> 1,
                             head <- qhead, tail <- qtail

A == INSTANCE Animation

ASSUME LiveAssumption == T!TimerAssumption /\ A!AnimationAssumption

timerVars == <<lo, hi, sleeper, loaded, end, need, asked, start, torn, late>>
schedulerVars == <<mode, queue, qhead, qtail, count, current, state, slice>>
animationVars == <<anims, phase, at, delta, started, step, ended, halted, replaced, reported>>
liveVars == <<part, vars, timerVars, schedulerVars, animationVars>>

LiveInit == /\ part \in {"scheduler", "keyboard", "timer", "animation"}
            /\ Init /\ T!Init /\ A!Init
            /\ P!Init
            /\ part # "scheduler" => mode = "RR" /\ current = NULL

OfScheduler(action) == /\ part = "scheduler" /\ action
                       /\ UNCHANGED <<part, vars, timerVars, animationVars>>
OfKeyboard(action) == /\ part = "keyboard" /\ action
                      /\ UNCHANGED <<part, timerVars, schedulerVars, animationVars>>
OfTimer(action) == /\ part = "timer" /\ action
                   /\ UNCHANGED <<part, vars, schedulerVars, animationVars>>
OfAnimation(action) == /\ part = "animation" /\ action
                       /\ UNCHANGED <<part, vars, timerVars, schedulerVars>>

LiveNext == \/ OfScheduler(P!Next)
            \/ OfKeyboard(Next)
            \/ OfTimer(T!Next)
            \/ OfAnimation(A!Next)

(* The fairness of each part, in the behaviours that are about it: the     *)
(* processor of the sleeper and of the reader, which comes back for more,  *)
(* and of whoever calls anim_tick, which goes on calling it.  Nothing is   *)
(* assumed of the calls of scheduler_tick and of the timer's handlers: the *)
(* properties that need them have them as a premise.  A behaviour stays    *)
(* with its part, so that the fairness of an action of each is that of     *)
(* their disjunction.                                                      *)
GoesOn == \/ OfKeyboard(keyboard_getchar)
          \/ OfTimer(T!Sleeper)
          \/ OfAnimation(A!Tick)

LiveSpec == LiveInit /\ [][LiveNext]_liveVars /\ WF_liveVars(GoesOn)

(* The properties of the parts, on their variables here.                   *)
NoStarvationRR == P!NoStarvationRR
TopPriorityWins == P!TopPriorityWins
SleepLongEnough == T!SleepLongEnough
SleepReturns == T!SleepReturns
EndsAreReported == A!EndsAreReported
EveryAnimationEnds == A!EveryAnimationEnds
=============================================================================
