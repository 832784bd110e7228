-------------------------- MODULE MCCachedSession --------------------------
(* Instances of CachedSession for TLC: ids and values are model values.      *)
EXTENDS CachedSession, TLC

CONSTANTS s1, s2, i1, i2, i3, a, b
\* seen is read by ReadsFromDatabase only and by no action.
MCViewWithoutSeen == <<db, tx, writes, beans, ids, execs, job, committed>>
MCSymmetry == Permutations({s1, s2})
=============================================================================
