--------------------------------- MODULE MCBoot ---------------------------------
(* Files of every size up to two bytes more than the region has. *)
EXTENDS Boot

MCFiles == {<<>>, <<1>>, <<2, 1>>, <<1, 2, 1>>, <<2, 2, 1, 2>>, <<1, 2, 2, 1, 1>>}
================================================================================
