-------------------------------- MODULE MCHd --------------------------------
(* Instances of Hd. *)
EXTENDS Hd

(* The layouts of disks: the second primary partition is an extended one,   *)
(* with room in hd_info for its logical partitions or without, or a plain   *)
(* one; the others may be missing, plain or extended.                       *)
sub(e) == [ebr |-> e, start |-> 1 + e, size |-> 2]
part(id, b, subs) == [sys_id |-> id, start |-> b, size |-> 9, subs |-> subs]
none == [sys_id |-> "NO_PART", start |-> 0, size |-> 0, subs |-> <<>>]
plain(b) == part("ORANGES_PART", b, <<>>)
extended(b, n) == part("EXT_PART", b, SubSeq(<<sub(0), sub(2), sub(5), sub(7)>>, 1, n))

SmallLayouts ==
    {<<p, q, r>> : p \in {none, plain(10), extended(10, 2)},
                   q \in {plain(20)} \cup {extended(20, n) : n \in {1, 3, 4}},
                   r \in {none, extended(30, 1)}}
    \cup {<<none, none, none>>}
=============================================================================
