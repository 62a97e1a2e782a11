----------------------------- MODULE MCPixelLoop -----------------------------
(* Samplers for PixelLoop: see MCPixelLoop.cfg.                            *)
EXTENDS PixelLoopProps

Stratified(xs, ys, jitter, tables) ==
  [stratified |-> TRUE, xs |-> xs, ys |-> ys, jitter |-> jitter, tables |-> tables]
Independent(count) ==
  [stratified |-> FALSE, xs |-> count, ys |-> 1, jitter |-> TRUE, tables |-> 0]

MCSamplers ==
  {Independent(1), Stratified(1, 1, TRUE, 2),
   Stratified(2, 1, TRUE, 2), Stratified(1, 2, FALSE, 1), Independent(2)}
=============================================================================
