------------------------------ MODULE MCFiles ------------------------------
(* Instances of Files.  The names are interchangeable: they are only ever   *)
(* compared with each other.                                                *)
EXTENDS Files, TLC

Symmetry == Permutations(Names)

(* The tty's entry with the number of a file, which may be free or in use. *)
SomeScribbles == {[at |-> 2, inode_nr |-> 3, name |-> "dev_tty0"]}

(* Bound: many processes, many files, or a directory that processes have    *)
(* lengthened or written, not all of them; and one reference to an inode    *)
(* that a refused unlink has left.                                          *)
MaxLoad == 4
MaxLeaks == 1
Processes == Cardinality(alive) + (IF fork = <<>> THEN 0 ELSE 1)
Lengthened == i_size > 0 /\ dir[i_size].inode_nr = 0
References == Total([s \in Slot |-> inode_table[s].i_cnt], Slot)
Opened == Total([d \in Desc |-> f_desc_table[d].fd_cnt], Desc)
Few ==
    /\ Processes + Cardinality(Regular) + 2 * writes
          + (IF Lengthened THEN 2 ELSE 0) <= MaxLoad
    /\ References <= 1 + Opened + MaxLeaks
=============================================================================
