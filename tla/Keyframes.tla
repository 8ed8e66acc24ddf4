------------------------------ MODULE Keyframes ------------------------------
(* What a positions file says: samples of where a UAV was at some times, and *)
(* its position between them by linear interpolation.  The reference that    *)
(* the Rust parser (position_parser.rs) is compared with.  Positions have    *)
(* one coordinate, and a position between samples is a fraction.             *)
EXTENDS Integers, FiniteSets

Fraction(n, d) == [num |-> n, den |-> d]
Whole(p) == Fraction(p, 1)
Same(x, y) == x.num * y.den = y.num * x.den
AtMost(x, y) == x.num * y.den <= y.num * x.den

(* util::map (a.time, b.time, t, a.pos, b.pos) *)
Between(a, b, t) ==
  Fraction(a.pos * (b.time - a.time) + (b.pos - a.pos) * (t - a.time), b.time - a.time)

(* The latest of the samples not after t, and the earliest not before t. *)
LatestBefore(S, t) == {s \in S : s.time <= t /\ \A r \in S : r.time <= t => r.time <= s.time}
EarliestAfter(S, t) == {s \in S : s.time >= t /\ \A r \in S : r.time >= t => r.time >= s.time}

(* The position at t given the samples S of one UAV, at most one per time:   *)
(* interpolated inside, the nearest sample outside.                          *)
Interpolates(S, t, x) ==
  \/ \E s \in LatestBefore(S, t) :
       \/ EarliestAfter(S, t) = {} /\ Same(x, Whole(s.pos))
       \/ s.time = t /\ Same(x, Whole(s.pos))
       \/ \E r \in EarliestAfter(S, t) : r.time > s.time /\ Same(x, Between(s, r, t))
  \/ LatestBefore(S, t) = {} /\ \E r \in EarliestAfter(S, t) : Same(x, Whole(r.pos))
=============================================================================
