---------------------------- MODULE MCConnection ----------------------------
(* Connection with MAX_LEN scaled from 255 down to 4 and rio_buf from 8192 *)
(* down to 3: messages shorter than, as long as, and longer than MAX_LEN,  *)
(* cut at every place by the socket and by rio_buf.                        *)
EXTENDS Connection

MCLengths == {2, 3, 4, 6}
=============================================================================
