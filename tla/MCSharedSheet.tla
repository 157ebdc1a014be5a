--------------------------- MODULE MCSharedSheet ---------------------------
(* SharedSheet with two clients, on an empty sheet and on a small one.      *)
EXTENDS SharedSheet

CONSTANTS x1, x2

MCClients == {1, 2}
EmptySheet == [cells |-> <<>>, heights |-> {}]
RichSheet == [cells |-> <<x1, [f |-> 1], x2>>, heights |-> {2}]
RichSheets == {RichSheet}
EmptySheets == {EmptySheet}
=============================================================================
