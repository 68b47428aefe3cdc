--------------------------- MODULE MCFrameStream ---------------------------
(***************************************************************************)
(* FrameStream with an empty frame, one as long as is accepted, and one    *)
(* that is too long.                                                       *)
(***************************************************************************)
EXTENDS FrameStream

MCFrames == { [kind |-> 0, name |-> <<>>, payload |-> <<>>],
              [kind |-> 1, name |-> <<1>>, payload |-> <<2, 1, 0>>],
              [kind |-> 2, name |-> <<>>, payload |-> <<1, 1, 1, 1>>] }
=============================================================================
