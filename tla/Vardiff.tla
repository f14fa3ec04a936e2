------------------------------ MODULE Vardiff -------------------------------
(***************************************************************************)
(* Variable share difficulty (wcash-pool-core, vardiff.rs) for a miner of  *)
(* steady hash power.  The controller counts accepted shares over a        *)
(* window; a window that is too short or too long moves the target by the  *)
(* measured ratio, within a factor and the targets' bounds.  A new target  *)
(* applies to the next job only, and shares of an older one are ignored.   *)
(* A periodic tick eases the target of a miner whose window ran too long.  *)
(*                                                                         *)
(* A target is a number, larger is easier; module TargetScaling has the    *)
(* arithmetic on limbs.  The miner finds a share every Power / target      *)
(* units of time: with the driver's clock it is the environment here.      *)
(***************************************************************************)
EXTENDS Naturals

CONSTANTS
    SampleIntervals,  \* VardiffConfig::sample_intervals
    Window,           \* sample_window_ms, the expected length of a sample
    Hysteresis,       \* hysteresis_bps, here over BasisPoints
    BasisPoints,
    Factor,           \* maximum_adjustment_factor
    Hardest, Easiest, \* TargetBounds
    Initial,          \* initial targets
    Powers,           \* hash powers of the miner
    TickEvery,        \* VARDIFF_TICK_INTERVAL
    JobEvery          \* the longest time between two jobs

VardiffAssumption ==
    /\ Hardest \in 1 .. Easiest
    /\ Initial \subseteq Hardest .. Easiest
    /\ Factor \in Nat \ {0} /\ Window \in Nat \ {0}
    /\ 0 < Hysteresis /\ Hysteresis < BasisPoints

VARIABLES
    target,    \* binding.target
    window,    \* now - window_start, or None
    observed,  \* observed_intervals
    announced, \* the target of the job that the miner works on
    current,   \* whether that job carries the controller's present revision
    power,     \* the miner's hash power
    since      \* time since the last share, the last tick and the last job

vars == <<target, window, observed, announced, current, power, since>>

None == Window * Factor * 2   \* no window; longer than any that is measured

Min(a, b) == IF a < b THEN a ELSE b
Max(a, b) == IF a > b THEN a ELSE b
Clamp(value, low, high) == Max(low, Min(value, high))

\* scale_target, multiply_target and divide_target.
Scaled(elapsed) == Max(1, (target * elapsed) \div Window)
Multiplied == target * Factor
Divided == Max(1, target \div Factor)

Distance(a, b) == IF a < b THEN b - a ELSE a - b
InsideHysteresis(elapsed) == Distance(elapsed, Window) * BasisPoints <= Window * Hysteresis
\* A tick that asks for the end of the window only.
TooLongAtOnce(elapsed) == elapsed > Window

TooLong(elapsed) == elapsed > Window /\ ~InsideHysteresis(elapsed)

Interval(t) == (power + t - 1) \div t

Init ==
    /\ target \in Initial
    /\ window = None /\ observed = 0
    /\ announced = target /\ current = TRUE
    /\ power \in Powers
    /\ since = [share |-> 0, tick |-> 0, job |-> 0]

\* A change gives the binding a new revision, and the sample starts again.
Retarget(next) ==
    /\ target' = next
    /\ window' = 0 /\ observed' = 0
    /\ current' = (current /\ next = target)

CountsShare == current

SampledTarget(elapsed) ==
    Clamp(Clamp(Scaled(elapsed), Divided, Multiplied), Hardest, Easiest)

\* observe_share of the share that the miner has just found.
Share ==
    /\ since.share >= Interval(announced)
    /\ since' = [since EXCEPT !.share = 0]
    /\ \/ /\ ~CountsShare
          /\ UNCHANGED <<target, window, observed, current>>
       \/ /\ CountsShare /\ window = None
          /\ window' = 0
          /\ UNCHANGED <<target, observed, current>>
       \/ /\ CountsShare /\ window # None /\ observed + 1 < SampleIntervals
          /\ observed' = observed + 1
          /\ UNCHANGED <<target, window, current>>
       \/ /\ CountsShare /\ window # None /\ observed + 1 >= SampleIntervals
          /\ Retarget(IF InsideHysteresis(window) THEN target ELSE SampledTarget(window))
    /\ UNCHANGED <<announced, power>>

TickedTarget(elapsed) ==
    Clamp(Clamp(Scaled(elapsed), target, Multiplied), Hardest, Easiest)

\* tick: evidence only that the miner is too slow.
Tick ==
    /\ since.tick = TickEvery
    /\ since' = [since EXCEPT !.tick = 0]
    /\ \/ /\ window = None
          /\ window' = 0
          /\ UNCHANGED <<target, observed, current>>
       \/ /\ window # None /\ ~TooLong(window)
          /\ UNCHANGED <<target, window, observed, current>>
       \/ /\ window # None /\ TooLong(window)
          /\ Retarget(TickedTarget(window))
    /\ UNCHANGED <<announced, power>>

\* A new job carries the controller's binding (announce_generation).
NewJob ==
    /\ since.job > 0
    /\ since' = [since EXCEPT !.job = 0]
    /\ announced' = target /\ current' = TRUE
    /\ UNCHANGED <<target, window, observed, power>>

\* External: time passes when nothing is due.
Pass ==
    /\ since.share < Interval(announced)
    /\ since.tick < TickEvery
    /\ since.job < JobEvery
    /\ since' = [since EXCEPT !.share = @ + 1, !.tick = @ + 1, !.job = @ + 1]
    /\ window' = IF window = None THEN None ELSE window + 1
    /\ UNCHANGED <<target, observed, announced, current, power>>

Next == Share \/ Tick \/ NewJob \/ Pass

Spec == Init /\ [][Next]_vars

-----------------------------------------------------------------------------
\* The pace of the present target, and the ends of the range that excuse it.
Paced ==
    LET sample == SampleIntervals * Interval(target)
    IN  \/ InsideHysteresis(sample)
        \/ target = Easiest /\ sample > Window
        \/ target = Hardest /\ sample < Window

(* Difficulty settles: a miner of steady power ends up with one target for *)
(* good, at which its shares come at the wanted pace or which is the end   *)
(* of the allowed range on the side the pace calls for, however jobs,      *)
(* ticks and shares of an older target fall.                               *)
SteadyMinerSettles == <>[]Paced /\ <>[][target' = target]_vars
=============================================================================
