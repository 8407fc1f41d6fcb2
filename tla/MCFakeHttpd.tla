----------------------------- MODULE MCFakeHttpd -----------------------------
(* A small instance of FakeHttpd for TLC: two workers, so that one can take *)
(* the imp while the other is arming its requests.                          *)
EXTENDS FakeHttpd, TLC

CONSTANTS w1, w2

MCWorkers == {w1, w2}
=============================================================================
