----------------------------- MODULE MCObjects -----------------------------
(* Small games for the runs of Objects: what each of them creates. *)
EXTENDS Objects

CONSTANTS
  c1, c2, d1, d2, p1, pcm, y1, y2, i1, i2, x1, tap, s1, s2, a1, a2, t1, t2, q1, first, second,
  tune, song, fade, loop, done, gen, ring1, ring2, ring3,
  b1, b2, b3, v1, v2, f1, m1, m2, r1, r2, r3, r4, g1, g3

LineOf == [t \in Taps |-> x1]

AllParameters ==
  {<<c1, "volume">>, <<c1, "pan">>, <<d1, "pan">>, <<p1, "rate">>, <<y1, "frequency">>,
   <<y1, "amplitude">>, <<x1, "mix">>, <<tap, "delay">>, <<y1, "parameter">>}

Routing == {c1, c2, d1, p1, pcm, x1, tap, y1, Output(c1)}
Submix == {c1, c2, d1, p1, Output(c1), Output(c2), Output(d1)}
Levelling == {c1, d1, Level(c1, "dry"), Level(d1, "wet"), s1, Output(c1)}
Modulation == {p1, c1, s1, s2, x1}
Shaping == {x1, tap, y1, s1, s2}
Sampling == {p1, a1, a2, c1, s1}
Music == {i1, i2, y1, t1, t2, q1}
Voicing == {i1, i2, y1, y2, c1, d1, t1}
Playing == {Routing, Submix, Levelling, Modulation, Shaping, Sampling, Music, Voicing}

GeneratorParameters == {<<y1, "parameter">>}

(* A game with two wrappers of the default channel. *)
Wrappers == {{c1, d1, d2, Output(c1), Output(d1), Output(d2)}}

OfGuest == [g \in {g1, g3} |-> IF g = g1 THEN r1 ELSE r3]

(* What the table and the font lend: see Frame and Glyph of Display. *)
frame == <<"frame", t1>>
glyph == <<"glyph", f1>>

Masking == {b1, b2, v1, v2, p1}
Sharing == {b1, b2, b3, v1}
Lending == {b1, v1, t1, frame, f1, glyph, r3}
Tiling == {t1, m1, m2, r3, r4}
Borrowing == {b1, t1, frame, m1, r3, g3}
Listing == {r1, r2, g1}
Drawing == {Masking, Sharing, Lending, Tiling, Borrowing, Listing}

(* A player that fades and loops, and a sequence. *)
CallbacksOf == [p \in {tune, song} |-> IF p = tune THEN {fade, loop} ELSE {done}]
=============================================================================
