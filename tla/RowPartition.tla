---------------------------- MODULE RowPartition ----------------------------
(***************************************************************************)
(* Which worker thread serves a row: send_job computes                     *)
(*   (int)((row_id % lockTableSize_) /                                     *)
(*         ((float)lockTableSize_ / (arg.num_threads - 1))),               *)
(* here with exact fractions in place of floats.  Rounding can move a row  *)
(* at the border of two partitions to the other one; it still depends on   *)
(* row_id % lockTableSize_ alone.                                          *)
(***************************************************************************)
EXTENDS Naturals

ThreadOf(row, lockTableSize, lockThreads) ==
  ((row % lockTableSize) * lockThreads) \div lockTableSize
=============================================================================
