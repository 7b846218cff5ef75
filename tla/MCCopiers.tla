----------------------------- MODULE MCCopiers -----------------------------
(* Sources of up to four bytes, with null bytes anywhere; targets that do  *)
(* not exist or are empty, shorter or longer than the source.  Batch is 2: *)
(* runs of null bytes begin, end and lie across the ends of a buffer.      *)
EXTENDS Copiers

CONSTANTS a, old

MCBytes == {a, old, NUL}
MCSources == SeqOf({a, NUL}, 4)
MCTargets == {<<>>, <<old>>, <<old, old, old, old, old>>}
=============================================================================
