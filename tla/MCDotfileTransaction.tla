------------------------- MODULE MCDotfileTransaction -------------------------
(* DotfileTransaction with two home files which have the same name in the     *)
(* repository, as ~/.vimrc and ~/vimrc have, and whose backups are taken for  *)
(* backups of the first, as those of ~/a/b and ~/a_b are.                     *)
EXTENDS DotfileTransaction, TLC

CONSTANTS hb, hv, nb, nv, a, b, c

Before == (hb :> a) @@ (hv :> b) @@ (nv :> c)
OneName == (hb :> nb) @@ (hv :> nb)
OnePath == (hb :> hb) @@ (hv :> hb)
OneToTwo == 1..2
Symmetry == Permutations(Procs)

\* After a coincidence NothingLost and AddAllOrNothing say nothing more: no step
\* depends on which text is where, only on whether there is one (and a text that
\* the user has not written yet is always left).
Some(x) == IF x \in Data THEN Empty ELSE x
Outline ==
  <<[h \in Homes |-> Some(home[h])], [n \in Names |-> Some(repo[n])],
    [i \in DOMAIN backups |-> [backups[i] EXCEPT !.text = Some(@)]],
    [p \in Procs |-> [job[p] EXCEPT !.was = Some(@), !.sound = TRUE]]>>
View == <<disk, lock, pc, commands, faults, writes, odd = {},
          IF odd = {} THEN <<home, repo, backups, job, kept>> ELSE Outline>>
=============================================================================
